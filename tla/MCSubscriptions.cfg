\* Three connections of one user and one of another; two Redis calls fail.
CONSTANTS
  alice = alice
  bob = bob
  c1 = c1
  c2 = c2
  c3 = c3
  c4 = c4
  Clients = {c1, c2, c3, c4}
  Users = {alice, bob}
  UserOf <- ThreeAndOne
  MaxFailures = 2
SPECIFICATION Spec
INVARIANTS TypeOK RefsCountHolders NoLeak
