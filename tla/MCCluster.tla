------------------------------ MODULE MCCluster ------------------------------
(* Two nodes: ann writes from the first, bob is on the second. *)
EXTENDS Cluster

CONSTANTS n1, n2, ann, bob, a1, b2

MCUsers == Nodes \X People
MCUserOf == (a1 :> <<n1, ann>>) @@ (b2 :> <<n2, bob>>)
MCPeerOf == (ann :> bob) @@ (bob :> ann)
=============================================================================
