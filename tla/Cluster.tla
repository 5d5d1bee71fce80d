------------------------------- MODULE Cluster -------------------------------
(***************************************************************************)
(* Several nodes behind one Redis: how an accepted message reaches the     *)
(* connections of both users, wherever they are (Hub.Send, Hub.route and   *)
(* Hub.runFanout in internal/ws/hub.go, internal/fanout/redis.go).         *)
(*                                                                         *)
(* The handler of a connection acknowledges a message on its own node,     *)
(* then publishes it to the recipient and to the sender's own user; when a *)
(* PUBLISH fails it delivers to its own node instead.  The Redis client    *)
(* sends a PUBLISH that is not answered again, so Redis may carry out      *)
(* several of one call, some of them when the sender is long past it.      *)
(* Every node forwards what Redis sends it to its shards; who is           *)
(* subscribed is decided by the module Subscriptions, extended here by     *)
(* the connections that drive it.  Its users are the users of each node:   *)
(* every node counts for itself.                                           *)
(*                                                                         *)
(* A shard is an unbounded queue: the Hub module has the bounds, and what  *)
(* happens to a connection that is too slow.                               *)
(***************************************************************************)
EXTENDS Subscriptions, SequencesExt

CONSTANTS
  Nodes,
  People,     \* user ids; Users are pairs of a node and one of these
  PeerOf,     \* PeerOf[u]: whom a user writes to, never itself
  Senders,    \* the connections that send
  MaxRetries, \* go-redis: how often a call is sent again (3 by default)
  MaxSends,   \* bound: messages per sender
  MaxLost     \* bound: answers to PUBLISH, and times relayed messages, are lost

ASSUME ClusterAssumption ==
  /\ Users = Nodes \X People
  /\ PeerOf \in [People -> People] /\ \A u \in People : PeerOf[u] # u
  /\ Senders \subseteq Clients
  /\ {MaxRetries, MaxSends, MaxLost} \subseteq Nat

VARIABLES
  joined,  \* connections registered at their shard
  task,    \* task[c]: what the message handler of c has to do next
  sent,    \* sent[c]: messages accepted from c
  tries,   \* tries[d]: times the PUBLISH of d was sent and not answered
  late,    \* late[d]: of these, the ones Redis may yet carry out
  relay,   \* relay[n]: on its way from Redis to the shards of n
  out,     \* out[n]: queued at the shards of n
  got,     \* got[c]: what connection c was given, in order, while it lasts
  due,     \* due[c]: history, the messages that were sent its way
  losses   \* times a node lost messages Redis had sent it

(* Here no hub stops. *)
subs == <<refs, subscribed, step, stopped>>
calls == <<tries, late>>
flow == <<task, sent, calls, relay, out, got, due>>
clusterVars == <<subs, failures, joined, flow, losses>>

NodeAt(c) == UserOf[c][1]
UserAt(c) == UserOf[c][2]


Messages == Senders \X (1..MaxSends)
Delivery == [user : People, kind : {"ack", "message"}, msg : Messages]
Task     == {"idle", "to", "to_local", "from", "from_local"}

ClusterInit ==
  /\ Init
  /\ joined = {}
  /\ task = [c \in Clients |-> "idle"]
  /\ sent = [c \in Clients |-> 0]
  /\ tries = [d \in Delivery |-> 0]
  /\ late = [d \in Delivery |-> 0]
  /\ relay = [n \in Nodes |-> <<>>]
  /\ out = [n \in Nodes |-> <<>>]
  /\ got = [c \in Clients |-> <<>>]
  /\ due = [c \in Clients |-> {}]
  /\ losses = 0

-----------------------------------------------------------------------------
(* A connection comes and goes: Register and Unregister hand it to the
   shard and then call the fan-out; its messages are handled in between.   *)

Join(c) ==
  /\ step[c] = "out" /\ c \notin joined
  /\ joined' = joined \cup {c}
  /\ UNCHANGED <<subs, failures, flow, losses>>

Leave(c) ==
  /\ step[c] \in {"open", "bare"} /\ c \in joined /\ task[c] = "idle"
  /\ joined' = joined \ {c}
  /\ got' = [got EXCEPT ![c] = <<>>]
  /\ due' = [due EXCEPT ![c] = {}]
  /\ UNCHANGED <<subs, failures, task, sent, calls, relay, out, losses>>

Resubscribe(c) ==
  /\ \/ c \in joined /\ (Subscribe(c) \/ SubscribeCall(c)
                           \/ SubscribeFails(c) \/ SubscribeUndo(c))
     \/ c \notin joined /\ (Unsubscribe(c) \/ UnsubscribeCall(c)
                              \/ UnsubscribeFails(c))
  /\ UNCHANGED <<joined, flow, losses>>

-----------------------------------------------------------------------------
(* The message handler. *)

Current(c) == <<c, sent[c]>>
Target(c)  == IF task[c] \in {"to", "to_local"} THEN PeerOf[UserAt(c)] ELSE UserAt(c)
CopyFor(u, m) == [user |-> u, kind |-> "message", msg |-> m]
Copy(c)    == CopyFor(Target(c), Current(c))
Then(c)    == task' = [task EXCEPT ![c] = IF Target(c) = UserAt(c) THEN "idle" ELSE "from"]

(* Mutant: the acknowledgement takes the way of the message. *)
Accept_AckPublished(c) ==
  /\ step[c] \in {"open", "bare"} /\ c \in joined
  /\ task[c] = "idle" /\ sent[c] < MaxSends
  /\ sent' = [sent EXCEPT ![c] = @ + 1]
  /\ relay' = [relay EXCEPT ![NodeAt(c)] =
       Append(@, [user |-> UserAt(c), kind |-> "ack", msg |-> <<c, sent[c] + 1>>])]
  /\ task' = [task EXCEPT ![c] = "to"]
  /\ UNCHANGED <<subs, failures, joined, calls, out, got, due, losses>>

(* A frame is accepted; NotifySender puts the acknowledgement into the
   shard of the sender on its own node, and nowhere else.                  *)
Accept(c) ==
  /\ step[c] \in {"open", "bare"} /\ c \in joined
  /\ task[c] = "idle" /\ sent[c] < MaxSends
  /\ sent' = [sent EXCEPT ![c] = @ + 1]
  /\ out' = [out EXCEPT ![NodeAt(c)] =
       Append(@, [user |-> UserAt(c), kind |-> "ack", msg |-> <<c, sent[c] + 1>>])]
  /\ task' = [task EXCEPT ![c] = "to"]
  /\ UNCHANGED <<subs, failures, joined, calls, relay, got, due, losses>>

(* Redis hands a message to every node subscribed for the user. *)
Relayed(d) == [n \in Nodes |-> IF <<n, d.user>> \in subscribed
                                 THEN Append(relay[n], d) ELSE relay[n]]

(* The connections in J are owed the message the handler of c is sending. *)
Owe(c, J) == due' = [d \in Clients |-> IF d \in J /\ UserAt(d) = Target(c)
                                         THEN due[d] \cup {Current(c)} ELSE due[d]]

Lost == losses + FoldFunction(+, 0, tries)

(* A PUBLISH was sent and no answer came: Redis may never have got it, may
   have carried it out, or may yet do so.                                  *)
NoAnswer(c) ==
  /\ tries[Copy(c)] <= MaxRetries
  /\ Lost < MaxLost
  /\ tries' = [tries EXCEPT ![Copy(c)] = @ + 1]
  /\ late' = [late EXCEPT ![Copy(c)] = @ + 1]

(* The client library sends it again, on another connection. *)
Unanswered(c) ==
  /\ task[c] \in {"to", "from"}
  /\ tries[Copy(c)] < MaxRetries
  /\ NoAnswer(c)
  /\ UNCHANGED <<subs, failures, joined, task, sent, relay, out, got, due, losses>>

(* Redis carries out a PUBLISH whose answer nobody waits for any more. *)
Late(d) ==
  /\ late[d] > 0 /\ late' = [late EXCEPT ![d] = @ - 1]
  /\ relay' = Relayed(d)
  /\ UNCHANGED <<subs, failures, joined, task, sent, tries, out, got, due, losses>>

(* Mutant: after a PUBLISH that succeeds, the node is served as well. *)
Publish_FallsThrough(c) ==
  /\ task[c] \in {"to", "from"}
  /\ relay' = Relayed(Copy(c))
  /\ Owe(c, {d \in joined : UserOf[d] \in subscribed})
  /\ task' = [task EXCEPT ![c] = IF @ = "to" THEN "to_local" ELSE "from_local"]
  /\ UNCHANGED <<subs, failures, joined, sent, calls, out, got, losses>>

(* A PUBLISH that succeeds is all there is to do, even if nobody hears it. *)
Publish(c) ==
  /\ task[c] \in {"to", "from"}
  /\ relay' = Relayed(Copy(c))
  /\ Owe(c, {d \in joined : UserOf[d] \in subscribed})
  /\ Then(c)
  /\ UNCHANGED <<subs, failures, joined, sent, calls, out, got, losses>>

(* Mutant: a failed PUBLISH is only logged. *)
PublishFails_Logged(c) ==
  /\ task[c] \in {"to", "from"}
  /\ failures < MaxFailures /\ failures' = failures + 1
  /\ NoAnswer(c) \/ UNCHANGED calls
  /\ Owe(c, {d \in joined : NodeAt(d) = NodeAt(c)})
  /\ Then(c)
  /\ UNCHANGED <<subs, joined, sent, relay, out, got, losses>>

(* It is given up, at the last try or before (the call has its own time
   limit); or Redis refused it.  The node's own connections are served.    *)
PublishFails(c) ==
  /\ task[c] \in {"to", "from"}
  /\ failures < MaxFailures /\ failures' = failures + 1
  /\ NoAnswer(c) \/ UNCHANGED calls
  /\ Owe(c, {d \in joined : NodeAt(d) = NodeAt(c)})
  /\ task' = [task EXCEPT ![c] = IF @ = "to" THEN "to_local" ELSE "from_local"]
  /\ UNCHANGED <<subs, joined, sent, relay, out, got, losses>>

DeliverLocal(c) ==
  /\ task[c] \in {"to_local", "from_local"}
  /\ out' = [out EXCEPT ![NodeAt(c)] = Append(@, Copy(c))]
  /\ Then(c)
  /\ UNCHANGED <<subs, failures, joined, sent, calls, relay, got, due, losses>>

-----------------------------------------------------------------------------
(* The way through the node. *)

(* Hub.runFanout waits for room in the shard, whatever becomes of it. *)
Handoff(n) == out' = [out EXCEPT ![n] = Append(@, Head(relay[n]))]

(* Redis.run: one goroutine, first in first out. *)
Forward(n) ==
  /\ relay[n] # <<>>
  /\ Handoff(n)
  /\ relay' = [relay EXCEPT ![n] = Tail(@)]
  /\ UNCHANGED <<subs, failures, joined, task, sent, calls, got, due, losses>>

(* go-redis reconnects and subscribes again by itself; what Redis had sent
   and the node had not read is gone.  A message that waits too long for
   Redis.run is dropped by the library, and only that message.             *)
Lose(n) ==
  /\ Lost < MaxLost /\ losses' = losses + 1
  /\ \E k \in 1..Len(relay[n]) :
       \E rest \in {SubSeq(relay[n], 1, k - 1), RemoveAt(relay[n], k)} :
         relay' = [relay EXCEPT ![n] = rest]
  /\ UNCHANGED <<subs, failures, joined, task, sent, calls, out, got, due>>

(* shard.run: a delivery goes to every connection of the user. *)
Dispatch(n) ==
  /\ out[n] # <<>>
  /\ got' = [c \in Clients |->
       IF c \in joined /\ UserOf[c] = <<n, Head(out[n]).user>>
         THEN Append(got[c], Head(out[n])) ELSE got[c]]
  /\ out' = [out EXCEPT ![n] = Tail(@)]
  /\ UNCHANGED <<subs, failures, joined, task, sent, calls, relay, due, losses>>

Handle(c) == Accept(c) \/ Unanswered(c) \/ Publish(c) \/ PublishFails(c) \/ DeliverLocal(c)

(* Everyone has left and the queues are empty. *)
ClusterTerminated ==
  /\ \A c \in Clients : step[c] = "closed"
  /\ \A n \in Nodes : relay[n] = <<>> /\ out[n] = <<>>
  /\ UNCHANGED clusterVars

ClusterNext ==
  \/ \E c \in Clients : Join(c) \/ Leave(c) \/ Resubscribe(c)
  \/ \E c \in Senders : Handle(c)
  \/ \E d \in Delivery : Late(d)
  \/ \E n \in Nodes : Forward(n) \/ Lose(n) \/ Dispatch(n)
  \/ ClusterTerminated

ClusterSpec == ClusterInit /\ [][ClusterNext]_clusterVars

-----------------------------------------------------------------------------
ClusterTypeOK ==
  /\ TypeOK
  /\ joined \subseteq Clients
  /\ task \in [Clients -> Task]
  /\ sent \in [Clients -> 0..MaxSends]
  /\ {tries, late} \subseteq [Delivery -> 0..(MaxRetries + 1)]
  /\ relay \in [Nodes -> Seq(Delivery)]
  /\ out \in [Nodes -> Seq(Delivery)]
  /\ got \in [Clients -> Seq(Delivery)]
  /\ due \in [Clients -> SUBSET Messages]
  /\ losses \in Nat

Copies(s, m) == {i \in DOMAIN s : s[i].kind = "message" /\ s[i].msg = m}
Acks(s, m)   == {i \in DOMAIN s : s[i].kind = "ack" /\ s[i].msg = m}

(* A connection that sent a message is told so before it gets its copy,
   although the acknowledgement goes through its own shard and the copy
   through Redis, or not through Redis when that fails (the order the web
   client replaces its optimistic copy in).                                *)
AckFirst == \A m \in Messages :
  \A i \in Copies(got[m[1]], m) : \E j \in Acks(got[m[1]], m) : j < i

(* a comes again after b, or is older than it. *)
Overtaken(a, b) == a.kind = "message" /\ b.kind = "message"
                   /\ a.msg[1] = b.msg[1] /\ b.msg[2] >= a.msg[2]

(* While no Redis call fails: what comes to a connection out of the order
   of its sender, or again, is a copy the library sent more than once; and
   one that was reachable has a message before any later one of its sender,
   even so, unless its node loses messages.  Whatever fails, a message comes
   once, and once more for each time its PUBLISH was not answered.         *)
InOrder == \A c \in Clients :
  /\ failures = 0 => \A i, j \in DOMAIN got[c] :
       i < j /\ Overtaken(got[c][j], got[c][i]) => tries[got[c][j]] > 0
  /\ failures = 0 /\ losses = 0 => \A m \in due[c] : \A i \in DOMAIN got[c] :
       got[c][i].kind = "message" /\ got[c][i].msg[1] = m[1] /\ got[c][i].msg[2] > m[2]
         => \E j \in Copies(got[c], m) : j < i
  /\ \A m \in Messages :
       Cardinality(Copies(got[c], m)) <= 1 + tries[CopyFor(UserAt(c), m)]

(* The message is still to come to connection c. *)
Coming(c, m) ==
  \/ \E q \in {relay[NodeAt(c)], out[NodeAt(c)]} :
       \E i \in Copies(q, m) : q[i].user = UserAt(c)
  \/ Current(m[1]) = m /\ task[m[1]] \in {"to_local", "from_local"}
       /\ NodeAt(c) = NodeAt(m[1]) /\ Target(m[1]) = UserAt(c)

(* A connection that was reachable when a message was sent its way (its
   node subscribed, or, Redis failing, on the sender's node) has it or will
   get it, unless it leaves or its node loses Redis.                       *)
NothingLost == losses = 0 =>
  \A c \in joined : \A m \in due[c] : Copies(got[c], m) # {} \/ Coming(c, m)

=============================================================================
