\* One connection, the smallest buffers: progress, and the mailbox with its fairness.
CONSTANTS
  alice = alice
  bob = bob
  c1 = c1
  c2 = c2
  s1 = s1
  Clients = {c1}
  Users = {alice, bob}
  UserOf <- Tabs
  Shards = {s1}
  ShardOf <- OneShard
  OutCap = 1
  SendCap = 1
  MaxFrames = 1
  MaxBackground = 2
SPECIFICATION FairSpec
PROPERTIES MailboxSpec HandlerReturns ConnectionsEnd
