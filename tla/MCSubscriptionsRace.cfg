\* No Redis call fails: a late UNSUBSCRIBE.
CONSTANTS
  alice = alice
  bob = bob
  c1 = c1
  c2 = c2
  c3 = c3
  c4 = c4
  Clients = {c1, c2}
  Users = {alice, bob}
  UserOf <- ThreeAndOne
  MaxFailures = 0
SPECIFICATION Spec
INVARIANT SubscribedWhileOpen
