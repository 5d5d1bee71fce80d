CONSTANTS
  alice = alice
  bob = bob
  a1 = a1
  a2 = a2
  b1 = b1
  s1 = s1
  i1 = i1
  None = None
  Partners = {alice, bob}
  Messages = {a1, s1}
  Mine = {s1}
  Old <- OneOld
  ChatOf <- BobHasOne
  PageSize = 1
  MaxPerChat = 3
  MaxRequests = 1
  MaxCuts = 0
  MaxFailures = 1
SPECIFICATION Spec
INVARIANT ShownSentIsStored
CHECK_DEADLOCK FALSE
