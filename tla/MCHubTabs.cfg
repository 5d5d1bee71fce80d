\* Two connections of one user on one shard, buffers of two.
CONSTANTS
  alice = alice
  bob = bob
  c1 = c1
  c2 = c2
  s1 = s1
  Clients = {c1, c2}
  Users = {alice, bob}
  UserOf <- Tabs
  Shards = {s1}
  ShardOf <- OneShard
  OutCap = 2
  SendCap = 2
  MaxFrames = 1
  MaxBackground = 2
SPECIFICATION Spec
INVARIANTS TypeOK ChannelSafety NoGap FirstInFirstOut
PROPERTIES MailboxSafety
