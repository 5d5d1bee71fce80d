CONSTANTS
  alice = alice
  bob = bob
  a1 = a1
  a2 = a2
  b1 = b1
  s1 = s1
  i1 = i1
  None = None
  Partners = {alice, bob}
  Messages = {a1, a2, b1, s1, i1}
  Mine = {s1}
  Old <- TwoInAliceOneInBob
  ChatOf <- BobHasOne
  PageSize = 1
  MaxPerChat = 3
  MaxRequests = 4
  MaxCuts = 2
  MaxFailures = 1
SPECIFICATION Spec
INVARIANTS TypeOK OneEntry StateIsTrue NoHole
CHECK_DEADLOCK FALSE
