-------------------------------- MODULE Hub --------------------------------
(***************************************************************************)
(* The websocket hub of one node (internal/ws/hub.go) with the two         *)
(* goroutines every connection owns (internal/ws/client.go).               *)
(*                                                                         *)
(* Processes.  One goroutine per shard runs shard.run; every connection    *)
(* has a reader (readPump, which also runs handleMessage) and a writer     *)
(* (writePump).  They share Go channels: s.register and s.unregister are   *)
(* unbuffered, so a send on them is a rendezvous with the shard loop;      *)
(* s.out and client.send are bounded buffers; h.done is only ever closed.  *)
(*                                                                         *)
(* This module is the hub with fanout == nil, as NewHub builds it and as   *)
(* main.go runs it without Redis.  What handleMessage decides before it    *)
(* calls the hub is the choice made by ReceiveFrame.                       *)
(*                                                                         *)
(* A payload is the number its delivery got when it entered the out        *)
(* channel: the n-th delivery accepted for its user.                       *)
(***************************************************************************)
EXTENDS Naturals, Sequences

CONSTANTS
  Clients,       \* the connections ever opened on this node (*Client)
  Users,         \* user ids
  UserOf,        \* Client.id: the user each connection authenticated as
  Shards,        \* h.shards
  ShardOf,       \* getShard: the shard a user id hashes to
  OutCap,        \* capacity of shard.out (256)
  SendCap,       \* capacity of Client.send (256)
  MaxFrames,     \* bound: frames read by all connections
  MaxBackground  \* bound: deliveries by persist workers and runFanout

ASSUME HubAssumption ==
  /\ UserOf \in [Clients -> Users]
  /\ ShardOf \in [Users -> Shards]
  /\ OutCap \in Nat \ {0}
  /\ SendCap \in Nat \ {0}
  /\ MaxFrames \in Nat
  /\ MaxBackground \in Nat

VARIABLES
  done,        \* h.done has been closed
  running,     \* running[s]: shard.run has not returned
  clients,     \* the connections in the shards' clients maps
  offers,      \* offers[s]: <<connection, payload>> pairs that the loop of
               \* shard s has still to hand out before it selects again
  out,         \* out[s]: buffered deliveries of shard s
  send,        \* send[c]: payloads buffered in c.send
  closes,      \* closes[c]: how many times close(c.send) was called
  reader,      \* reader[c]: where the connection's reader goroutine is
  writer,      \* writer[c]: where the connection's writer goroutine is
  peer,        \* peer[c]: recipient of the message being handled
  routed,      \* routed[c]: what route(msg.To) returned
  frames,      \* frames read by all connections (bounded by MaxFrames)
  background,  \* background deliveries so far (bounded by MaxBackground)
  accepted,    \* history: deliveries for u that entered s.out
  dispatched,  \* history: deliveries for u that the shard took out of s.out
  pos          \* history: the last payload c wrote to its websocket, or
               \* what had been dispatched to its user when it registered

vars == <<done, running, clients, offers, out, send, closes, reader, writer, peer,
          routed, frames, background, accepted, dispatched, pos>>

shardVars   == <<running, clients, offers, closes, send, dispatched>>
queueVars   == <<out, accepted>>
handlerVars == <<peer, routed, frames>>

ReaderState == {"new", "register", "registered", "reading", "reject", "ack",
                "to", "from", "leaving", "await", "gone"}
WriterState == {"off", "running", "gone"}

Delivery == [user : Users, n : Nat]

ClientsOf(u)       == {c \in clients : UserOf[c] = u}
ClientsOfShard(s)  == {c \in clients : ShardOf[UserOf[c]] = s}

Init ==
  /\ done = FALSE
  /\ running = [s \in Shards |-> TRUE]
  /\ clients = {}
  /\ offers = [s \in Shards |-> {}]
  /\ out = [s \in Shards |-> <<>>]
  /\ send = [c \in Clients |-> <<>>]
  /\ closes = [c \in Clients |-> 0]
  /\ reader = [c \in Clients |-> "new"]
  /\ writer = [c \in Clients |-> "off"]
  /\ peer = [c \in Clients |-> UserOf[c]]
  /\ routed = [c \in Clients |-> TRUE]
  /\ frames = 0
  /\ background = 0
  /\ accepted = [u \in Users |-> 0]
  /\ dispatched = [u \in Users |-> 0]
  /\ pos = [c \in Clients |-> 0]

-----------------------------------------------------------------------------
(* Helpers shared by the actions.                                          *)

(* The shard's goroutine is at its select. *)
Idle(s) == running[s] /\ offers[s] = {}

(* Mutant: the connection is not looked up before its channel is closed. *)
Drop_Unchecked(D) ==
  /\ clients' = clients \ D
  /\ closes' = [c \in Clients |-> IF c \in D THEN closes[c] + 1 ELSE closes[c]]

(* shard.drop for every connection of D: a connection that is no longer in
   the map is left alone, the others are removed and their channel closed. *)
Drop(D) ==
  LET present == D \cap clients
  IN  /\ clients' = clients \ present
      /\ closes' = [c \in Clients |->
                      IF c \in present THEN closes[c] + 1 ELSE closes[c]]

(* Mutant: the newest delivery goes first. *)
Enqueue_Lifo(u) ==
  LET s == ShardOf[u]
  IN  /\ Len(out[s]) < OutCap
      /\ out' = [out EXCEPT ![s] =
                   <<[user |-> u, n |-> accepted[u] + 1]>> \o @]
      /\ accepted' = [accepted EXCEPT ![u] = @ + 1]

(* The select of deliverLocal: the delivery enters s.out when there is room
   (TRUE); once h.done is closed it may instead be given up (FALSE).        *)
Enqueue(u) ==
  LET s == ShardOf[u]
  IN  /\ Len(out[s]) < OutCap
      /\ out' = [out EXCEPT ![s] =
                   Append(@, [user |-> u, n |-> accepted[u] + 1])]
      /\ accepted' = [accepted EXCEPT ![u] = @ + 1]

DeliverLocal(u, ok) ==
  \/ ok /\ Enqueue(u)
  \/ ~ok /\ done /\ UNCHANGED queueVars

Goto(c, state) == reader' = [reader EXCEPT ![c] = state]

-----------------------------------------------------------------------------
(* The connection's reader goroutine.                                      *)

(* ServeWs: the handshake succeeded and Register is called. *)
Connect(c) ==
  /\ reader[c] = "new"
  /\ Goto(c, "register")
  /\ UNCHANGED <<done, shardVars, queueVars, writer, handlerVars, background,
                 pos>>

(* Register: either the shard takes the connection ... *)
Register(c) ==
  /\ reader[c] = "register"
  /\ Idle(ShardOf[UserOf[c]])
  /\ clients' = clients \cup {c}
  /\ pos' = [pos EXCEPT ![c] = dispatched[UserOf[c]]]
  /\ Goto(c, "registered")
  /\ UNCHANGED <<done, running, offers, closes, send, dispatched, queueVars,
                 writer, handlerVars, background>>

(* ... or the hub has stopped and Register gives up without telling. *)
RegisterRefused(c) ==
  /\ reader[c] = "register"
  /\ done
  /\ Goto(c, "registered")
  /\ UNCHANGED <<done, shardVars, queueVars, writer, handlerVars, background,
                 pos>>

(* Register has returned: ServeWs starts the writer and begins to read. *)
StartPumps(c) ==
  /\ reader[c] = "registered"
  /\ writer' = [writer EXCEPT ![c] = "running"]
  /\ Goto(c, "reading")
  /\ UNCHANGED <<done, shardVars, queueVars, handlerVars, background, pos>>

(* ReadMessage returns a frame; frames read ahead are still handled after
   the connection was closed, so the writer's end is no guard.
   handleMessage rejects it (bad payload, rate limit, bad recipient), drops
   it without an answer (rate limit, with the notice throttled), or accepts
   a message for another user.                                             *)
ReceiveFrame(c) ==
  /\ reader[c] = "reading"
  /\ frames < MaxFrames
  /\ frames' = frames + 1
  /\ \/ Goto(c, "reject") /\ UNCHANGED peer
     \/ UNCHANGED <<reader, peer>>
     \/ \E u \in Users \ {UserOf[c]} :
          /\ peer' = [peer EXCEPT ![c] = u]
          /\ Goto(c, "ack")
  /\ UNCHANGED <<done, shardVars, queueVars, writer, routed, background, pos>>

(* reject: NotifySender with an error event; its outcome is ignored. *)
Reject(c) ==
  /\ reader[c] = "reject"
  /\ \E ok \in BOOLEAN : DeliverLocal(UserOf[c], ok)
  /\ Goto(c, "reading")
  /\ UNCHANGED <<done, shardVars, writer, handlerVars, background, pos>>

(* NotifySender with the acknowledgement; its outcome is ignored. *)
Ack(c) ==
  /\ reader[c] = "ack"
  /\ \E ok \in BOOLEAN : DeliverLocal(UserOf[c], ok)
  /\ Goto(c, "to")
  /\ UNCHANGED <<done, shardVars, writer, handlerVars, background, pos>>

(* Send, first half: route(msg.To), whose outcome Send returns. *)
RouteTo(c) ==
  /\ reader[c] = "to"
  /\ \E ok \in BOOLEAN :
       /\ DeliverLocal(peer[c], ok)
       /\ routed' = [routed EXCEPT ![c] = ok]
  /\ Goto(c, "from")
  /\ UNCHANGED <<done, shardVars, writer, peer, frames, background, pos>>

(* Send, second half: route(msg.From).  The read loop goes on only if the
   recipient's delivery was accepted.                                      *)
RouteFrom(c) ==
  /\ reader[c] = "from"
  /\ \E ok \in BOOLEAN : DeliverLocal(UserOf[c], ok)
  /\ Goto(c, IF routed[c] THEN "reading" ELSE "leaving")
  /\ UNCHANGED <<done, shardVars, writer, handlerVars, background, pos>>

(* ReadMessage fails: the peer left, a read deadline (pong wait or token
   expiry) passed, or the writer closed the connection.                    *)
ReadError(c) ==
  /\ reader[c] = "reading"
  /\ Goto(c, "leaving")
  /\ UNCHANGED <<done, shardVars, queueVars, writer, handlerVars, background,
                 pos>>

(* Mutant: the shard takes the request, and forgets to drop. *)
Unregister_NoDrop(c) ==
  /\ reader[c] = "leaving"
  /\ Idle(ShardOf[UserOf[c]])
  /\ Goto(c, "await")
  /\ UNCHANGED <<done, shardVars, queueVars, writer, handlerVars, background,
                 pos>>

(* Unregister: either the shard takes the request and drops the connection *)
Unregister(c) ==
  /\ reader[c] = "leaving"
  /\ Idle(ShardOf[UserOf[c]])
  /\ Drop({c})
  /\ Goto(c, "await")
  /\ UNCHANGED <<done, running, offers, send, dispatched, queueVars, writer,
                 handlerVars, background, pos>>

(* ... or the hub has stopped. *)
UnregisterRefused(c) ==
  /\ reader[c] = "leaving"
  /\ done
  /\ Goto(c, "await")
  /\ UNCHANGED <<done, shardVars, queueVars, writer, handlerVars, background,
                 pos>>

(* <-c.done: the reader ends after the writer. *)
ReaderEnds(c) ==
  /\ reader[c] = "await"
  /\ writer[c] = "gone"
  /\ Goto(c, "gone")
  /\ UNCHANGED <<done, shardVars, queueVars, writer, handlerVars, background,
                 pos>>

-----------------------------------------------------------------------------
(* The connection's writer goroutine.                                      *)

WriteFrame(c) ==
  /\ writer[c] = "running"
  /\ send[c] # <<>>
  /\ pos' = [pos EXCEPT ![c] = Head(send[c])]
  /\ send' = [send EXCEPT ![c] = Tail(@)]
  /\ UNCHANGED <<done, running, clients, offers, closes, dispatched, queueVars,
                 reader, writer, handlerVars, background>>

(* A write of a frame or of a ping fails, or its deadline passes: the writer
   closes the connection and c.done.                                       *)
WriterFails(c) ==
  /\ writer[c] = "running"
  /\ writer' = [writer EXCEPT ![c] = "gone"]
  /\ \/ UNCHANGED send
     \/ send[c] # <<>> /\ send' = [send EXCEPT ![c] = Tail(@)]
  /\ UNCHANGED <<done, running, clients, offers, closes, dispatched, queueVars,
                 reader, handlerVars, background, pos>>

(* c.send is closed and drained: a close frame is written, the connection
   and c.done are closed.                                                  *)
WriteClose(c) ==
  /\ writer[c] = "running"
  /\ send[c] = <<>>
  /\ closes[c] > 0
  /\ writer' = [writer EXCEPT ![c] = "gone"]
  /\ UNCHANGED <<done, shardVars, queueVars, reader, handlerVars, background,
                 pos>>

-----------------------------------------------------------------------------
(* The shard loop, its other callers, and shutdown.                        *)

(* One delivery leaves s.out; the loop then ranges over the connections its
   user has in the map.                                                     *)
Dispatch(s) ==
  /\ Idle(s)
  /\ out[s] # <<>>
  /\ LET d == Head(out[s])
     IN  /\ offers' = [offers EXCEPT ![s] = ClientsOf(d.user) \X {d.n}]
         /\ dispatched' = [dispatched EXCEPT ![d.user] = @ + 1]
  /\ out' = [out EXCEPT ![s] = Tail(@)]
  /\ UNCHANGED <<done, running, clients, closes, send, accepted, reader,
                 writer, handlerVars, background, pos>>

(* Mutant: a full buffer loses the payload instead of the connection. *)
Offer_Skip(s) == \E o \in offers[s] :
  LET c == o[1]
  IN  /\ offers' = [offers EXCEPT ![s] = @ \ {o}]
      /\ send' = IF Len(send[c]) < SendCap
                   THEN [send EXCEPT ![c] = Append(@, o[2])] ELSE send
      /\ UNCHANGED <<done, running, clients, closes, dispatched, queueVars,
                     reader, writer, handlerVars, background, pos>>

(* Mutant: the payload is sent whether there is room or not. *)
Offer_Overfills(s) == \E o \in offers[s] :
  LET c == o[1]
  IN  /\ offers' = [offers EXCEPT ![s] = @ \ {o}]
      /\ send' = [send EXCEPT ![c] = Append(@, o[2])]
      /\ UNCHANGED <<done, running, clients, closes, dispatched, queueVars,
                     reader, writer, handlerVars, background, pos>>

(* Mutant: the send waits for room. *)
Offer_Blocks(s) == \E o \in offers[s] :
  LET c == o[1]
  IN  /\ offers' = [offers EXCEPT ![s] = @ \ {o}]
      /\ Len(send[c]) < SendCap
      /\ send' = [send EXCEPT ![c] = Append(@, o[2])]
      /\ UNCHANGED <<done, running, clients, closes, dispatched, queueVars,
                     reader, writer, handlerVars, background, pos>>

(* One turn of that range: a send that never blocks.  A connection whose
   buffer is full is dropped instead.                                      *)
Offer(s) == \E o \in offers[s] :
  LET c == o[1]
  IN  /\ offers' = [offers EXCEPT ![s] = @ \ {o}]
      /\ \/ /\ Len(send[c]) < SendCap
            /\ send' = [send EXCEPT ![c] = Append(@, o[2])]
            /\ UNCHANGED <<clients, closes>>
         \/ /\ Len(send[c]) >= SendCap
            /\ Drop({c})
            /\ UNCHANGED send
      /\ UNCHANGED <<done, running, dispatched, queueVars, reader, writer,
                     handlerVars, background, pos>>

(* deliverLocal called by a persist worker (NotifySender). *)
BackgroundDeliver(u) ==
  /\ background < MaxBackground
  /\ background' = background + 1
  /\ \E ok \in BOOLEAN : DeliverLocal(u, ok)
  /\ UNCHANGED <<done, shardVars, reader, writer, handlerVars, pos>>

(* Stop, called at server shutdown or when the base context is cancelled. *)
Stop ==
  /\ ~done
  /\ done' = TRUE
  /\ UNCHANGED <<shardVars, queueVars, reader, writer, handlerVars,
                 background, pos>>

(* shard.shutdown: every connection's channel is closed and the loop ends.
   One step: nothing but the writer of a connection notices its close.     *)
Shutdown(s) ==
  /\ Idle(s)
  /\ done
  /\ running' = [running EXCEPT ![s] = FALSE]
  /\ Drop(ClientsOfShard(s))
  /\ UNCHANGED <<done, offers, send, dispatched, queueVars, reader, writer,
                 handlerVars, background, pos>>

(* Nothing is left to run: the process exits. *)
Terminated ==
  /\ \A s \in Shards : ~running[s]
  /\ \A c \in Clients : reader[c] = "gone"
  /\ UNCHANGED vars

-----------------------------------------------------------------------------
Reader(c) ==
  \/ Connect(c) \/ Register(c) \/ RegisterRefused(c) \/ StartPumps(c)
  \/ ReceiveFrame(c) \/ Reject(c) \/ Ack(c) \/ RouteTo(c) \/ RouteFrom(c)
  \/ ReadError(c) \/ Unregister(c) \/ UnregisterRefused(c) \/ ReaderEnds(c)

Writer(c) == WriteFrame(c) \/ WriterFails(c) \/ WriteClose(c)

Shard(s) == Dispatch(s) \/ Offer(s) \/ Shutdown(s)

Next ==
  \/ \E c \in Clients : Reader(c) \/ Writer(c)
  \/ \E s \in Shards : Shard(s)
  \/ \E u \in Users : BackgroundDeliver(u)
  \/ Stop
  \/ Terminated

Spec == Init /\ [][Next]_vars

(***************************************************************************)
(* Fairness.  Goroutines are scheduled, so a step that stays possible is   *)
(* taken (WF).  Go's select picks among its ready cases at random and the  *)
(* senders blocked on a channel are served in arrival order, so a case or  *)
(* a sender that is ready again and again is served (SF).  Nothing is      *)
(* assumed of the peer or of the operator: no fairness on connecting,      *)
(* sending, failing or Stop.  ReadMessage does return an error once the    *)
(* writer has closed the connection.                                       *)
(***************************************************************************)
Fairness ==
  /\ \A c \in Clients :
       /\ SF_vars(Register(c) \/ RegisterRefused(c))
       /\ WF_vars(StartPumps(c))
       /\ SF_vars(Reject(c) \/ Ack(c) \/ RouteTo(c) \/ RouteFrom(c))
       /\ WF_vars(writer[c] = "gone" /\ ReadError(c))
       /\ SF_vars(Unregister(c) \/ UnregisterRefused(c))
       /\ WF_vars(ReaderEnds(c))
       /\ WF_vars(WriteFrame(c))
       /\ WF_vars(WriteClose(c))
  /\ \A s \in Shards :
       /\ WF_vars(Dispatch(s))
       /\ WF_vars(Offer(s))
       /\ SF_vars(Shutdown(s))

FairSpec == Spec /\ Fairness

-----------------------------------------------------------------------------
(* Properties.                                                             *)

(* Every variable has its type. *)
Typed ==
  /\ done \in BOOLEAN
  /\ running \in [Shards -> BOOLEAN]
  /\ clients \in SUBSET Clients
  /\ offers \in [Shards -> SUBSET (Clients \X Nat)]
  /\ out \in [Shards -> Seq(Delivery)]
  /\ send \in [Clients -> Seq(Nat)]
  /\ closes \in [Clients -> Nat]
  /\ reader \in [Clients -> ReaderState]
  /\ writer \in [Clients -> WriterState]
  /\ peer \in [Clients -> Users]
  /\ routed \in [Clients -> BOOLEAN]
  /\ frames \in Nat
  /\ background \in Nat
  /\ accepted \in [Users -> Nat]
  /\ dispatched \in [Users -> Nat]
  /\ pos \in [Clients -> Nat]

(* No buffered channel holds more than its capacity. *)
Buffers ==
  /\ \A s \in Shards : Len(out[s]) <= OutCap
  /\ \A c \in Clients : Len(send[c]) <= SendCap

(* Every variable has its type, and a delivery nobody has room for waits
   (deliverLocal) or costs the connection (deliver): a buffer never grows
   beyond its capacity.                                                     *)
TypeOK == Typed /\ Buffers

(* A connection's channel is closed at most once, although a full buffer,
   Unregister and the shard's shutdown all close it, and the shard never
   sends on a channel it has closed: both panic in Go (drop, shutdown).
   What the loop is handing out concerns only registered connections of
   its own shard, and a connection enters the map once.                    *)
ChannelSafety ==
  /\ \A c \in Clients : closes[c] <= 1
  /\ \A c \in clients : closes[c] = 0
  /\ \A c \in Clients : reader[c] \in {"new", "register"} =>
       c \notin clients /\ closes[c] = 0
  /\ \A c \in Clients : c \notin clients /\ closes[c] = 0 => send[c] = <<>>
  /\ \A c \in Clients :
       reader[c] \in {"new", "register", "registered"} <=> writer[c] = "off"
  /\ \A s \in Shards : \A o \in offers[s] :
       /\ o[1] \in clients
       /\ ShardOf[UserOf[o[1]]] = s
       /\ o[2] = dispatched[UserOf[o[1]]]

(* What the loop still has to hand out to c. *)
Owed(c) == {o \in offers[ShardOf[UserOf[c]]] : o[1] = c}

(* The payloads in a connection's buffer continue, without a gap, the ones
   it has written; with the one the loop still has for it, they reach the
   last delivery taken out of s.out.  So a slow connection is dropped
   rather than skipped, and nobody misses what was sent between its
   registration and its end.                                               *)
NoGap == \A c \in Clients : writer[c] # "gone" =>
  /\ \A i \in DOMAIN send[c] : send[c][i] = pos[c] + i
  /\ c \in clients =>
       pos[c] + Len(send[c]) + (IF Owed(c) = {} THEN 0 ELSE 1)
         = dispatched[UserOf[c]]

(* s.out holds exactly the deliveries accepted and not yet taken, those of
   one user in the order they were accepted: none is lost, none is taken
   twice and none overtakes another, whoever sends them (deliverLocal is
   called by every reader, the persist workers and runFanout).             *)
FirstInFirstOut ==
  /\ \A u \in Users : dispatched[u] <= accepted[u]
  /\ \A s \in Shards : \A i \in DOMAIN out[s] :
       /\ ShardOf[out[s][i].user] = s
       /\ dispatched[out[s][i].user] < out[s][i].n
       /\ out[s][i].n <= accepted[out[s][i].user]
  /\ \A s \in Shards : \A i, j \in DOMAIN out[s] :
       i < j /\ out[s][i].user = out[s][j].user => out[s][i].n < out[s][j].n
  /\ \A u \in Users : \A n \in (dispatched[u] + 1)..accepted[u] :
       \E i \in DOMAIN out[ShardOf[u]] :
         out[ShardOf[u]][i] = [user |-> u, n |-> n]

(* handleMessage never waits for ever on the hub: a shard's buffer may be
   full, but no connection, however slow, holds up the loop that empties it. *)
HandlerReturns == \A c \in Clients :
  reader[c] \in {"reject", "ack", "to", "from"}
    ~> reader[c] \in {"reading", "leaving"}

(* A connection that the hub has taken in ends once its peer left or the hub
   stops, wherever its two goroutines are: the writer is told to stop (the
   close of c.send) and the reader, which waits for it, returns.           *)
ConnectionsEnd == \A c \in Clients :
  (c \in clients /\ (done \/ reader[c] = "leaving")) ~> reader[c] = "gone"

(***************************************************************************)
(* What a user's connections see is a log they read from where they came   *)
(* in: module Mailbox.                                                     *)
(***************************************************************************)
Connection(c) ==
  CASE writer[c] = "gone" -> "closed"
    [] writer[c] # "gone" /\ c \in clients -> "attached"
    [] writer[c] # "gone" /\ c \notin clients /\ closes[c] > 0 -> "detached"
    [] OTHER -> "absent"

Box == INSTANCE Mailbox WITH
  Readers <- Clients,
  Boxes   <- Users,
  BoxOf   <- UserOf,
  length  <- dispatched,
  at      <- pos,
  state   <- [c \in Clients |-> Connection(c)],
  end     <- [c \in Clients |->
                IF Connection(c) = "detached" THEN pos[c] + Len(send[c])
                                              ELSE 0]

(* The hub implements the mailbox: in-order, gap-free delivery to every
   connection, and a clean close only when all it was promised is written. *)
MailboxSafety == Box!Spec

(* And its connections do read on, and do get closed once detached. *)
MailboxSpec == Box!FairSpec

=============================================================================
