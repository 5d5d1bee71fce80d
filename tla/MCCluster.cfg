\* One sender, two messages, one failing Redis call, and twice a PUBLISH without
\* an answer or the loss of what Redis sent to a node.
CONSTANTS
  n1 = n1
  n2 = n2
  ann = ann
  bob = bob
  a1 = a1
  b2 = b2
  Nodes = {n1, n2}
  People = {ann, bob}
  Users <- MCUsers
  Clients = {a1, b2}
  Senders = {a1}
  UserOf <- MCUserOf
  PeerOf <- MCPeerOf
  MaxRetries = 1
  MaxSends = 2
  MaxFailures = 1
  MaxLost = 2
SPECIFICATION ClusterSpec
INVARIANTS ClusterTypeOK AckFirst InOrder NothingLost
