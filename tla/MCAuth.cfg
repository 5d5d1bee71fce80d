\* Three people, one of them refused, one token, two requests at a time, one
\* failing call.
CONSTANTS
  People = {ann, bob, eve}
  None = None
  NameOf <- MCNameOf
  Acceptable = {ann, bob}
  Tokens = {t1}
  Requests = {r1, r2}
  Milli = 2
  Second = 6
  TTL = 6
  PongWait = 2
  MaxTime = 8
  MaxFrames = 1
  MaxFailures = 1
SPECIFICATION Spec
INVARIANTS TypeOK OneOwner
PROPERTIES EndedMeansEnded WebsocketsEnd
