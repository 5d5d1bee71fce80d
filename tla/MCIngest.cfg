\* Two connections, three messages, one worker, a queue of one, a failing save.
CONSTANTS
  c1 = c1
  c2 = c2
  m1 = m1
  m2 = m2
  m3 = m3
  Clients = {c1, c2}
  Messages = {m1, m2, m3}
  SenderOf <- TwoAndOne
  Workers = {w1}
  QueueCap = 1
  None = None
  MaxFailures = 1
SPECIFICATION FairSpec
INVARIANTS TypeOK SavedOnce NoFalseAlarm NoSilentLoss
PROPERTIES EventuallySettled
