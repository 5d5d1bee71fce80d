----------------------------- MODULE HubProofs -----------------------------
(* Theorems about Hub, for any connections, users, shards and capacities. *)
EXTENDS Hub, TLAPS

(* The shape of the constants, for leaves that need no more than this. *)
LEMMA Maps == UserOf \in [Clients -> Users] /\ ShardOf \in [Users -> Shards]
  BY HubAssumption DEF HubAssumption

LEMMA TypeInit == ASSUME Init PROVE Typed
<1>1. /\ done \in BOOLEAN
      /\ running \in [Shards -> BOOLEAN]
      /\ routed \in [Clients -> BOOLEAN]
  BY DEF Init
<1>2. peer \in [Clients -> Users]
  BY Maps DEF Init
<1> QED
  BY <1>1, <1>2 DEF Init, Typed, ReaderState, WriterState

LEMMA EnqueueType ==
  ASSUME Typed, NEW u \in Users, NEW ok \in BOOLEAN, DeliverLocal(u, ok)
  PROVE  /\ out' \in [Shards -> Seq(Delivery)]
         /\ accepted' \in [Users -> Nat]
<1>1. [user |-> u, n |-> accepted[u] + 1] \in Delivery
  BY DEF Typed, Delivery
<1>2. CASE Enqueue(u)
  <2>1. ShardOf[u] \in Shards
    BY Maps
  <2>2. Append(out[ShardOf[u]], [user |-> u, n |-> accepted[u] + 1])
          \in Seq(Delivery)
    BY <1>1, <2>1 DEF Typed
  <2> QED
    BY <1>2, <2>1, <2>2 DEF Typed, Enqueue
<1>3. CASE UNCHANGED queueVars
  BY <1>3 DEF Typed, queueVars
<1> QED
  BY <1>2, <1>3 DEF DeliverLocal

LEMMA DropType ==
  ASSUME Typed, NEW D, Drop(D)
  PROVE  clients' \in SUBSET Clients /\ closes' \in [Clients -> Nat]
  BY DEF Typed, Drop

LEMMA TypeNext == Typed /\ [Next]_vars => Typed'
<1> SUFFICES ASSUME Typed, [Next]_vars PROVE Typed'
  OBVIOUS
<1> USE DEF Typed, ReaderState, WriterState, shardVars, queueVars,
            handlerVars, Goto
<1>1. ASSUME NEW c \in Clients, Connect(c) PROVE Typed'
  BY <1>1 DEF Connect
<1>2. ASSUME NEW c \in Clients, Register(c) PROVE Typed'
  <2>1. pos' \in [Clients -> Nat] /\ reader' \in [Clients -> ReaderState]
    BY <1>2, Maps DEF Register
  <2> QED
    BY <1>2, <2>1 DEF Register
<1>3. ASSUME NEW c \in Clients, RegisterRefused(c) PROVE Typed'
  BY <1>3 DEF RegisterRefused
<1>4. ASSUME NEW c \in Clients, StartPumps(c) PROVE Typed'
  BY <1>4 DEF StartPumps
<1>5. ASSUME NEW c \in Clients, ReceiveFrame(c) PROVE Typed'
  <2>1. peer' \in [Clients -> Users]
    BY <1>5 DEF ReceiveFrame
  <2>2. reader' \in [Clients -> ReaderState]
    BY <1>5 DEF ReceiveFrame
  <2>3. frames' \in Nat
    BY <1>5 DEF ReceiveFrame
  <2>4. UNCHANGED <<done, shardVars, queueVars, writer, routed, background, pos>>
    BY <1>5 DEF ReceiveFrame
  <2> QED
    BY <2>1, <2>2, <2>3, <2>4
<1>6. ASSUME NEW c \in Clients, Reject(c) PROVE Typed'
  BY <1>6, EnqueueType, Maps DEF Reject
<1>7. ASSUME NEW c \in Clients, Ack(c) PROVE Typed'
  BY <1>7, EnqueueType, Maps DEF Ack
<1>8. ASSUME NEW c \in Clients, RouteTo(c) PROVE Typed'
  BY <1>8, EnqueueType DEF RouteTo
<1>9. ASSUME NEW c \in Clients, RouteFrom(c) PROVE Typed'
  <2>1. /\ out' \in [Shards -> Seq(Delivery)] /\ accepted' \in [Users -> Nat]
    BY <1>9, EnqueueType, Maps DEF RouteFrom
  <2>2. reader' \in [Clients -> ReaderState]
    BY <1>9 DEF RouteFrom
  <2> QED
    BY <1>9, <2>1, <2>2 DEF RouteFrom
<1>10. ASSUME NEW c \in Clients, ReadError(c) PROVE Typed'
  BY <1>10 DEF ReadError
<1>11. ASSUME NEW c \in Clients, Unregister(c) PROVE Typed'
  <2>1. reader' \in [Clients -> ReaderState]
    BY <1>11 DEF Unregister
  <2>2. clients' \in SUBSET Clients /\ closes' \in [Clients -> Nat]
    BY <1>11, DropType DEF Unregister
  <2> QED
    BY <1>11, <2>1, <2>2 DEF Unregister
<1>12. ASSUME NEW c \in Clients, UnregisterRefused(c) PROVE Typed'
  BY <1>12 DEF UnregisterRefused
<1>13. ASSUME NEW c \in Clients, ReaderEnds(c) PROVE Typed'
  BY <1>13 DEF ReaderEnds
<1>14. ASSUME NEW c \in Clients, WriteFrame(c) PROVE Typed'
  <2>1. send[c] \in Seq(Nat) /\ send[c] # <<>>
    BY <1>14 DEF WriteFrame
  <2>2. Head(send[c]) \in Nat /\ Tail(send[c]) \in Seq(Nat)
    BY <2>1
  <2>3. pos' \in [Clients -> Nat] /\ send' \in [Clients -> Seq(Nat)]
    BY <1>14, <2>2 DEF WriteFrame
  <2> QED
    BY <1>14, <2>3 DEF WriteFrame
<1>15. ASSUME NEW c \in Clients, WriterFails(c) PROVE Typed'
  <2>1. send' \in [Clients -> Seq(Nat)]
    <3>1. send[c] # <<>> => Tail(send[c]) \in Seq(Nat)
      OBVIOUS
    <3> QED
      BY <1>15, <3>1 DEF WriterFails
  <2> QED
    BY <1>15, <2>1 DEF WriterFails
<1>16. ASSUME NEW c \in Clients, WriteClose(c) PROVE Typed'
  BY <1>16 DEF WriteClose
<1>17. ASSUME NEW s \in Shards, Dispatch(s) PROVE Typed'
  <2> DEFINE d == Head(out[s])
  <2>1. d \in Delivery /\ Tail(out[s]) \in Seq(Delivery)
    BY <1>17 DEF Dispatch
  <2>2. d.user \in Users /\ d.n \in Nat
    BY <2>1 DEF Delivery
  <2>3. offers' \in [Shards -> SUBSET (Clients \X Nat)]
    BY <1>17, <2>2 DEF Dispatch, ClientsOf
  <2>4. /\ dispatched' \in [Users -> Nat]
        /\ out' \in [Shards -> Seq(Delivery)]
    BY <1>17, <2>1, <2>2 DEF Dispatch
  <2> QED
    BY <1>17, <2>3, <2>4 DEF Dispatch
<1>18. ASSUME NEW s \in Shards, Offer(s) PROVE Typed'
  <2> PICK o \in offers[s] : Offer(s)!(o)
    BY <1>18 DEF Offer
  <2>1. o[1] \in Clients /\ o[2] \in Nat
    OBVIOUS
  <2>2. offers' \in [Shards -> SUBSET (Clients \X Nat)]
    OBVIOUS
  <2>3. Append(send[o[1]], o[2]) \in Seq(Nat)
    BY <2>1
  <2>4. send' \in [Clients -> Seq(Nat)]
    BY <2>1, <2>3
  <2>5. \/ UNCHANGED <<clients, closes>>
        \/ Drop({o[1]})
    OBVIOUS
  <2>6. clients' \in SUBSET Clients /\ closes' \in [Clients -> Nat]
    BY <2>5, DropType
  <2> QED
    BY <2>2, <2>4, <2>6
<1>19. ASSUME NEW s \in Shards, Shutdown(s) PROVE Typed'
  BY <1>19 DEF Shutdown, Drop
<1>20. ASSUME NEW u \in Users, BackgroundDeliver(u) PROVE Typed'
  <2>1. /\ out' \in [Shards -> Seq(Delivery)]
        /\ accepted' \in [Users -> Nat]
    BY <1>20, EnqueueType DEF BackgroundDeliver
  <2> QED
    BY <1>20, <2>1 DEF BackgroundDeliver
<1>21. CASE Stop
  BY <1>21 DEF Stop
<1>22. CASE Terminated \/ UNCHANGED vars
  BY <1>22 DEF Terminated, vars
<1> QED
  BY <1>1, <1>2, <1>3, <1>4, <1>5, <1>6, <1>7, <1>8, <1>9, <1>10, <1>11,
     <1>12, <1>13, <1>14, <1>15, <1>16, <1>17, <1>18, <1>19, <1>20, <1>21,
     <1>22 DEF Next, Reader, Writer, Shard

(* The buffered channels stay within their capacities. *)
LEMMA BuffersInit == ASSUME Init PROVE Buffers
  BY HubAssumption DEF HubAssumption, Init, Buffers

LEMMA EnqueueBuffers ==
  ASSUME Typed, Buffers, NEW u \in Users, NEW ok \in BOOLEAN,
         DeliverLocal(u, ok), UNCHANGED send
  PROVE  Buffers'
<1>1. CASE Enqueue(u)
  <2> DEFINE s == ShardOf[u]
             d == [user |-> u, n |-> accepted[u] + 1]
  <2>1. accepted[u] \in Nat /\ s \in Shards
    BY Maps DEF Typed
  <2>2. s \in Shards /\ d \in Delivery /\ out[s] \in Seq(Delivery)
    <3>1. d \in Delivery
      BY <2>1 DEF Delivery
    <3> QED
      BY <2>1, <3>1 DEF Typed
  <2>3. /\ out' = [out EXCEPT ![s] = Append(out[s], d)]
        /\ Len(out[s]) < OutCap
    BY <1>1 DEF Enqueue
  <2>4. Len(Append(out[s], d)) = Len(out[s]) + 1 /\ Len(out[s]) \in Nat
    BY <2>2
  <2>5. Len(Append(out[s], d)) <= OutCap
    BY <2>3, <2>4, HubAssumption DEF HubAssumption
  <2>6. \A t \in Shards : out'[t] = IF t = s THEN Append(out[s], d) ELSE out[t]
    BY <2>3 DEF Typed
  <2> QED
    BY <2>5, <2>6 DEF Buffers
<1>2. CASE UNCHANGED queueVars
  BY <1>2 DEF Buffers, queueVars
<1> QED
  BY <1>1, <1>2 DEF DeliverLocal

(* Taking the first element of a buffer makes it no longer. *)
LEMMA TailShorter ==
  ASSUME NEW S, NEW q \in Seq(S), q # <<>>, NEW k \in Nat, Len(q) <= k
  PROVE  Len(Tail(q)) <= k
<1>1. Len(q) \in Nat /\ Len(Tail(q)) = Len(q) - 1
  OBVIOUS
<1> QED
  BY <1>1

LEMMA BuffersNext == Typed /\ Buffers /\ [Next]_vars => Buffers'
<1> SUFFICES ASSUME Typed, Buffers, [Next]_vars PROVE Buffers'
  OBVIOUS
<1> USE DEF shardVars, queueVars
<1>1. ASSUME UNCHANGED <<out, send>> PROVE Buffers'
  BY <1>1 DEF Buffers
<1>2. ASSUME NEW c \in Clients, Reader(c) PROVE Buffers'
  <2>1. CASE Connect(c) \/ Register(c) \/ RegisterRefused(c) \/ StartPumps(c)
             \/ ReceiveFrame(c) \/ ReadError(c) \/ Unregister(c)
             \/ UnregisterRefused(c) \/ ReaderEnds(c)
    BY <1>1, <2>1 DEF Connect, Register, RegisterRefused, StartPumps,
       ReceiveFrame, ReadError, Unregister, UnregisterRefused, ReaderEnds
  <2>2. CASE Reject(c) \/ Ack(c) \/ RouteTo(c) \/ RouteFrom(c)
    <3>1. UserOf[c] \in Users /\ peer[c] \in Users
      BY Maps DEF Typed
    <3> QED
      BY <2>2, <3>1, EnqueueBuffers DEF Reject, Ack, RouteTo, RouteFrom
  <2> QED
    BY <1>2, <2>1, <2>2 DEF Reader
<1>3. ASSUME NEW c \in Clients, Writer(c) PROVE Buffers'
  <2>1. ASSUME send[c] # <<>>, send' = [send EXCEPT ![c] = Tail(@)],
               UNCHANGED out
        PROVE  Buffers'
    <3>1. send[c] \in Seq(Nat) /\ Len(send[c]) <= SendCap /\ SendCap \in Nat
      BY HubAssumption DEF HubAssumption, Typed, Buffers
    <3>2. Len(Tail(send[c])) <= SendCap
      BY <2>1, <3>1, TailShorter
    <3>3. \A x \in Clients :
            send'[x] = IF x = c THEN Tail(send[c]) ELSE send[x]
      BY <2>1 DEF Typed
    <3> QED
      BY <2>1, <3>2, <3>3 DEF Buffers
  <2> QED
    BY <1>1, <1>3, <2>1 DEF Writer, WriteFrame, WriterFails, WriteClose
<1>4. ASSUME NEW s \in Shards, Dispatch(s) PROVE Buffers'
  <2>1. /\ out[s] # <<>> /\ out[s] \in Seq(Delivery) /\ Len(out[s]) <= OutCap
        /\ OutCap \in Nat
    BY <1>4, HubAssumption DEF HubAssumption, Dispatch, Typed, Buffers
  <2>2. Len(Tail(out[s])) <= OutCap
    BY <2>1, TailShorter
  <2>3. \A t \in Shards : out'[t] = IF t = s THEN Tail(out[s]) ELSE out[t]
    BY <1>4 DEF Dispatch, Typed
  <2> QED
    BY <1>4, <2>2, <2>3 DEF Dispatch, Buffers
<1>5. ASSUME NEW s \in Shards, Offer(s) PROVE Buffers'
  <2> PICK o \in offers[s] : Offer(s)!(o)
    BY <1>5 DEF Offer
  <2> DEFINE c == o[1]
  <2>1. c \in Clients /\ o[2] \in Nat /\ send[c] \in Seq(Nat)
    BY DEF Typed
  <2>2. CASE Len(send[c]) < SendCap
             /\ send' = [send EXCEPT ![c] = Append(@, o[2])]
    <3>1. /\ Len(Append(send[c], o[2])) = Len(send[c]) + 1
          /\ Len(send[c]) \in Nat
      BY <2>1
    <3>2. Len(Append(send[c], o[2])) <= SendCap
      BY <2>2, <3>1, HubAssumption DEF HubAssumption
    <3>3. \A x \in Clients :
            send'[x] = IF x = c THEN Append(send[c], o[2]) ELSE send[x]
      BY <2>2 DEF Typed
    <3> QED
      BY <3>2, <3>3 DEF Buffers
  <2>3. CASE UNCHANGED send
    BY <1>1, <2>3
  <2> QED
    BY <2>2, <2>3
<1>6. ASSUME NEW s \in Shards, Shutdown(s) PROVE Buffers'
  BY <1>1, <1>6 DEF Shutdown
<1>7. ASSUME NEW u \in Users, BackgroundDeliver(u) PROVE Buffers'
  BY <1>7, EnqueueBuffers DEF BackgroundDeliver
<1>8. CASE Stop \/ Terminated \/ UNCHANGED vars
  BY <1>1, <1>8 DEF Stop, Terminated, vars
<1> QED
  BY <1>2, <1>3, <1>4, <1>5, <1>6, <1>7, <1>8 DEF Next, Shard

(* Every reachable state of every instance is well typed, and no channel of
   the hub ever holds more than its capacity.                               *)
THEOREM TypeCorrect == Spec => []TypeOK
<1>1. Init => TypeOK
  BY TypeInit, BuffersInit DEF TypeOK
<1>2. TypeOK /\ [Next]_vars => TypeOK'
  BY TypeNext, BuffersNext DEF TypeOK
<1> QED
  BY <1>1, <1>2, PTL DEF Spec

-----------------------------------------------------------------------------
(* The out channels: exactly once, in order.                               *)

LEMMA Elements ==
  ASSUME Typed, NEW t \in Shards, NEW i \in DOMAIN out[t]
  PROVE  /\ out[t][i] \in Delivery
         /\ out[t][i].user \in Users
         /\ out[t][i].n \in Nat
         /\ i \in 1..Len(out[t])
<1>1. out[t] \in Seq(Delivery)
  BY DEF Typed
<1>2. out[t][i] \in Delivery /\ i \in 1..Len(out[t])
  BY <1>1
<1> QED
  BY <1>2 DEF Delivery

LEMMA HeadIsNext ==
  ASSUME Typed, FirstInFirstOut, NEW s \in Shards, out[s] # <<>>
  PROVE  /\ Head(out[s]) \in Delivery
         /\ ShardOf[Head(out[s]).user] = s
         /\ Head(out[s]).n = dispatched[Head(out[s]).user] + 1
<1> DEFINE d == Head(out[s])
           u == d.user
<1>1. out[s] \in Seq(Delivery) /\ 1 \in DOMAIN out[s] /\ d = out[s][1]
  BY DEF Typed
<1>2. d \in Delivery /\ u \in Users /\ d.n \in Nat
  BY <1>1, Elements
<1>3. ShardOf[u] = s /\ dispatched[u] < d.n /\ d.n <= accepted[u]
  BY <1>1 DEF FirstInFirstOut
<1>4. dispatched[u] \in Nat /\ accepted[u] \in Nat
  BY <1>2 DEF Typed
<1>5. dispatched[u] + 1 \in (dispatched[u] + 1)..accepted[u]
  BY <1>2, <1>3, <1>4
<1>6. PICK i \in DOMAIN out[s] :
        out[s][i] = [user |-> u, n |-> dispatched[u] + 1]
  BY <1>2, <1>3, <1>5 DEF FirstInFirstOut
<1>7. i = 1
  <2>1. SUFFICES ASSUME 1 < i PROVE FALSE
    BY <1>1, <1>6
  <2>2. out[s][1].n < out[s][i].n
    BY <1>1, <1>6, <2>1 DEF FirstInFirstOut
  <2> QED
    BY <1>1, <1>2, <1>3, <1>4, <1>6, <2>2
<1> QED
  BY <1>1, <1>2, <1>3, <1>6, <1>7

LEMMA EnqueueKeepsOrder ==
  ASSUME Typed, FirstInFirstOut, NEW u \in Users, Enqueue(u),
         UNCHANGED dispatched
  PROVE  FirstInFirstOut'
<1> DEFINE s == ShardOf[u]
           d == [user |-> u, n |-> accepted[u] + 1]
           k == Len(out[s]) + 1
<1>1. s \in Shards /\ accepted[u] \in Nat /\ out[s] \in Seq(Delivery)
  BY Maps DEF Typed
<1>2. d \in Delivery /\ d.user = u /\ d.n = accepted[u] + 1
  BY <1>1 DEF Delivery
<1>3. /\ out' = [out EXCEPT ![s] = Append(@, d)]
      /\ accepted' = [accepted EXCEPT ![u] = accepted[u] + 1]
  BY DEF Enqueue
<1>4. /\ out'[s] = Append(out[s], d)
      /\ DOMAIN out'[s] = 1..k
      /\ \A i \in DOMAIN out[s] : i \in 1..k /\ i # k /\ out'[s][i] = out[s][i]
      /\ \A i \in 1..k : i # k => i \in DOMAIN out[s]
      /\ out'[s][k] = d
      /\ k \in 1..k
  BY <1>1, <1>2, <1>3 DEF Typed
<1>5. \A t \in Shards : t # s => out'[t] = out[t]
  BY <1>3 DEF Typed
<1>6. /\ accepted'[u] = accepted[u] + 1
      /\ \A v \in Users : v # u => accepted'[v] = accepted[v]
      /\ \A v \in Users : accepted[v] \in Nat /\ dispatched[v] \in Nat
  BY <1>3 DEF Typed
<1>7. \A t \in Shards : \A i \in DOMAIN out[t] :
        out[t][i].user \in Users /\ out[t][i].n \in Nat
  BY Elements
<1>8. dispatched[u] <= accepted[u]
  BY DEF FirstInFirstOut
<1>9. \A t \in Shards : \A i \in DOMAIN out'[t] :
        /\ ShardOf[out'[t][i].user] = t
        /\ dispatched[out'[t][i].user] < out'[t][i].n
        /\ out'[t][i].n <= accepted'[out'[t][i].user]
  <2> TAKE t \in Shards
  <2> TAKE i \in DOMAIN out'[t]
  <2>1. CASE t # s \/ i # k
    <3>1. i \in DOMAIN out[t] /\ out'[t][i] = out[t][i]
      BY <1>4, <1>5, <2>1
    <3> QED
      BY <1>6, <1>7, <3>1 DEF FirstInFirstOut
  <2>2. CASE t = s /\ i = k
    BY <1>1, <1>2, <1>4, <1>6, <1>8, <2>2
  <2> QED
    BY <2>1, <2>2
<1>10. \A t \in Shards : \A i, j \in DOMAIN out'[t] :
         i < j /\ out'[t][i].user = out'[t][j].user
           => out'[t][i].n < out'[t][j].n
  <2> SUFFICES ASSUME NEW t \in Shards, NEW i \in DOMAIN out'[t],
                      NEW j \in DOMAIN out'[t],
                      i < j, out'[t][i].user = out'[t][j].user
               PROVE  out'[t][i].n < out'[t][j].n
    OBVIOUS
  <2>1. CASE t # s \/ j # k
    <3>1. t = s => i # k /\ j # k
      BY <1>1, <1>4, <2>1
    <3>2. /\ i \in DOMAIN out[t] /\ out'[t][i] = out[t][i]
          /\ j \in DOMAIN out[t] /\ out'[t][j] = out[t][j]
      BY <1>4, <1>5, <3>1
    <3> QED
      BY <3>2 DEF FirstInFirstOut
  <2>2. CASE t = s /\ j = k
    <3>1. i \in DOMAIN out[s] /\ out'[t][i] = out[s][i]
      BY <1>1, <1>4, <2>2
    <3>2. out[s][i].n <= accepted[u]
      BY <1>1, <1>2, <1>4, <2>2, <3>1 DEF FirstInFirstOut
    <3> QED
      BY <1>1, <1>2, <1>4, <1>7, <2>2, <3>1, <3>2
  <2> QED
    BY <2>1, <2>2
<1>11. \A v \in Users : \A n \in (dispatched[v] + 1)..accepted'[v] :
         \E i \in DOMAIN out'[ShardOf[v]] :
           out'[ShardOf[v]][i] = [user |-> v, n |-> n]
  <2> TAKE v \in Users
  <2> TAKE n \in (dispatched[v] + 1)..accepted'[v]
  <2>1. ShardOf[v] \in Shards
    BY Maps
  <2>2. CASE v # u \/ n <= accepted[u]
    <3>1. n \in (dispatched[v] + 1)..accepted[v]
      BY <1>6, <2>2
    <3>2. PICK i \in DOMAIN out[ShardOf[v]] :
            out[ShardOf[v]][i] = [user |-> v, n |-> n]
      BY <3>1 DEF FirstInFirstOut
    <3>3. i \in DOMAIN out'[ShardOf[v]]
          /\ out'[ShardOf[v]][i] = out[ShardOf[v]][i]
      BY <1>4, <1>5, <2>1, <3>2
    <3> QED
      BY <3>2, <3>3
  <2>3. CASE v = u /\ n > accepted[u]
    <3>1. n = accepted[u] + 1
      BY <1>1, <1>6, <2>3
    <3> QED
      BY <1>4, <2>3, <3>1
  <2> QED
    BY <1>1, <1>6, <2>2, <2>3
<1>12. \A v \in Users : dispatched[v] <= accepted'[v]
  BY <1>6 DEF FirstInFirstOut
<1> QED
  BY <1>9, <1>10, <1>11, <1>12 DEF FirstInFirstOut

LEMMA DispatchKeepsOrder ==
  ASSUME Typed, FirstInFirstOut, NEW s \in Shards, Dispatch(s)
  PROVE  FirstInFirstOut'
<1> DEFINE d == Head(out[s])
           u == d.user
<1>1. /\ out[s] \in Seq(Delivery) /\ out[s] # <<>>
      /\ out' = [out EXCEPT ![s] = Tail(@)]
      /\ dispatched' = [dispatched EXCEPT ![u] = @ + 1]
      /\ accepted' = accepted
  BY DEF Dispatch, Typed
<1>2. d \in Delivery /\ ShardOf[u] = s /\ d.n = dispatched[u] + 1
  BY <1>1, HeadIsNext
<1>3. u \in Users /\ d = [user |-> u, n |-> dispatched[u] + 1]
  BY <1>2 DEF Delivery
<1>4. /\ out'[s] = Tail(out[s])
      /\ \A i \in DOMAIN out'[s] :
           i + 1 \in DOMAIN out[s] /\ out'[s][i] = out[s][i + 1]
      /\ \A i \in DOMAIN out[s] :
           i # 1 => i - 1 \in DOMAIN out'[s] /\ out'[s][i - 1] = out[s][i]
      /\ 1 \in DOMAIN out[s] /\ out[s][1] = d
      /\ DOMAIN out[s] \subseteq Nat \ {0} /\ DOMAIN out'[s] \subseteq Nat \ {0}
  BY <1>1 DEF Typed
<1>5. \A t \in Shards : t # s => out'[t] = out[t]
  BY <1>1 DEF Typed
<1>6. /\ dispatched'[u] = dispatched[u] + 1
      /\ \A v \in Users : v # u => dispatched'[v] = dispatched[v]
      /\ \A v \in Users : accepted[v] \in Nat /\ dispatched[v] \in Nat
  BY <1>1, <1>3 DEF Typed
<1>7. \A t \in Shards : \A i \in DOMAIN out[t] :
        out[t][i].user \in Users /\ out[t][i].n \in Nat
  BY Elements
<1>8. \A t \in Shards : \A i \in DOMAIN out'[t] :
        /\ ShardOf[out'[t][i].user] = t
        /\ dispatched'[out'[t][i].user] < out'[t][i].n
        /\ out'[t][i].n <= accepted[out'[t][i].user]
  <2> TAKE t \in Shards
  <2> TAKE i \in DOMAIN out'[t]
  <2>1. CASE t # s
    <3>1. i \in DOMAIN out[t] /\ out'[t][i] = out[t][i]
      BY <1>5, <2>1
    <3>2. out[t][i].user # u
      BY <1>2, <2>1, <3>1 DEF FirstInFirstOut
    <3> QED
      BY <1>6, <1>7, <3>1, <3>2 DEF FirstInFirstOut
  <2>2. CASE t = s
    <3>1. i \in DOMAIN out'[s] /\ i \in Nat \ {0}
      BY <1>4, <2>2
    <3>2. /\ i + 1 \in DOMAIN out[s] /\ out'[s][i] = out[s][i + 1]
          /\ 1 < i + 1
      BY <1>4, <3>1
    <3>3. ASSUME out[s][i + 1].user = u
          PROVE  dispatched[u] + 1 < out[s][i + 1].n
      BY <1>2, <1>4, <3>2, <3>3 DEF FirstInFirstOut
    <3> QED
      BY <1>6, <1>7, <2>2, <3>2, <3>3 DEF FirstInFirstOut
  <2> QED
    BY <2>1, <2>2
<1>9. \A t \in Shards : \A i, j \in DOMAIN out'[t] :
        i < j /\ out'[t][i].user = out'[t][j].user
          => out'[t][i].n < out'[t][j].n
  <2> SUFFICES ASSUME NEW t \in Shards, NEW i \in DOMAIN out'[t],
                      NEW j \in DOMAIN out'[t],
                      i < j, out'[t][i].user = out'[t][j].user
               PROVE  out'[t][i].n < out'[t][j].n
    OBVIOUS
  <2>1. CASE t # s
    BY <1>5, <2>1 DEF FirstInFirstOut
  <2>2. CASE t = s
    <3>1. /\ i \in DOMAIN out'[s] /\ i \in Nat \ {0}
          /\ j \in DOMAIN out'[s] /\ j \in Nat \ {0}
      BY <1>4, <2>2
    <3>2. /\ i + 1 \in DOMAIN out[s] /\ out'[s][i] = out[s][i + 1]
          /\ j + 1 \in DOMAIN out[s] /\ out'[s][j] = out[s][j + 1]
          /\ i + 1 < j + 1
      BY <1>4, <3>1
    <3> QED
      BY <2>2, <3>2 DEF FirstInFirstOut
  <2> QED
    BY <2>1, <2>2
<1>10. \A v \in Users : \A n \in (dispatched'[v] + 1)..accepted[v] :
         \E i \in DOMAIN out'[ShardOf[v]] :
           out'[ShardOf[v]][i] = [user |-> v, n |-> n]
  <2> TAKE v \in Users
  <2> TAKE n \in (dispatched'[v] + 1)..accepted[v]
  <2>1. ShardOf[v] \in Shards /\ n \in (dispatched[v] + 1)..accepted[v]
    BY <1>3, <1>6, Maps
  <2>2. PICK i \in DOMAIN out[ShardOf[v]] :
          out[ShardOf[v]][i] = [user |-> v, n |-> n]
    BY <2>1 DEF FirstInFirstOut
  <2>3. CASE ShardOf[v] # s
    BY <1>5, <2>1, <2>2, <2>3
  <2>4. CASE ShardOf[v] = s
    <3>1. i # 1
      <4>1. v = u => n # dispatched[u] + 1
        BY <1>6, <2>1
      <4> QED
        BY <1>3, <1>4, <2>2, <2>4, <4>1
    <3>2. i - 1 \in DOMAIN out'[s] /\ out'[s][i - 1] = [user |-> v, n |-> n]
      BY <1>4, <2>2, <2>4, <3>1
    <3> HIDE DEF d, u
    <3> QED
      BY <2>4, <3>2
  <2> QED
    BY <2>3, <2>4
<1>11. \A v \in Users : dispatched'[v] <= accepted[v]
  <2>1. dispatched[u] + 1 <= accepted[u]
    BY <1>2, <1>3, <1>4 DEF FirstInFirstOut
  <2> QED
    BY <1>6, <2>1 DEF FirstInFirstOut
<1> QED
  BY <1>1, <1>8, <1>9, <1>10, <1>11 DEF FirstInFirstOut

(* Every other action leaves the out channels and their counters alone. *)
LEMMA OrderNext == Typed /\ FirstInFirstOut /\ [Next]_vars => FirstInFirstOut'
<1> SUFFICES ASSUME Typed, FirstInFirstOut, [Next]_vars
             PROVE  FirstInFirstOut'
  OBVIOUS
<1>1. ASSUME NEW u \in Users, NEW ok \in BOOLEAN, DeliverLocal(u, ok),
             UNCHANGED dispatched
      PROVE  FirstInFirstOut'
  <2>1. CASE Enqueue(u)
    BY <1>1, <2>1, EnqueueKeepsOrder
  <2>2. CASE UNCHANGED queueVars
    BY <1>1, <2>2 DEF FirstInFirstOut, queueVars
  <2> QED
    BY <1>1, <2>1, <2>2 DEF DeliverLocal
<1>2. ASSUME UNCHANGED <<out, accepted, dispatched>> PROVE FirstInFirstOut'
  BY <1>2 DEF FirstInFirstOut
<1>3. ASSUME NEW c \in Clients, Reader(c) PROVE FirstInFirstOut'
  <2> USE DEF shardVars, queueVars
  <2>1. UserOf[c] \in Users /\ peer[c] \in Users
    BY Maps DEF Typed
  <2>2. CASE Reject(c)
    BY <1>1, <2>1, <2>2 DEF Reject
  <2>3. CASE Ack(c)
    BY <1>1, <2>1, <2>3 DEF Ack
  <2>4. CASE RouteTo(c)
    BY <1>1, <2>1, <2>4 DEF RouteTo
  <2>5. CASE RouteFrom(c)
    BY <1>1, <2>1, <2>5 DEF RouteFrom
  <2>6. CASE Connect(c) \/ Register(c) \/ RegisterRefused(c) \/ StartPumps(c)
    BY <1>2, <2>6 DEF Connect, Register, RegisterRefused, StartPumps
  <2>7. CASE ReceiveFrame(c) \/ ReadError(c) \/ ReaderEnds(c)
    BY <1>2, <2>7 DEF ReceiveFrame, ReadError, ReaderEnds
  <2>8. CASE Unregister(c) \/ UnregisterRefused(c)
    BY <1>2, <2>8 DEF Unregister, UnregisterRefused
  <2> QED
    BY <1>3, <2>2, <2>3, <2>4, <2>5, <2>6, <2>7, <2>8 DEF Reader
<1>4. ASSUME NEW c \in Clients, Writer(c) PROVE FirstInFirstOut'
  BY <1>2, <1>4
     DEF Writer, WriteFrame, WriterFails, WriteClose, shardVars, queueVars
<1>5. ASSUME NEW s \in Shards, Shard(s) PROVE FirstInFirstOut'
  <2>1. CASE Dispatch(s)
    BY <2>1, DispatchKeepsOrder
  <2>2. CASE Offer(s) \/ Shutdown(s)
    BY <1>2, <2>2 DEF Offer, Shutdown, queueVars
  <2> QED
    BY <1>5, <2>1, <2>2 DEF Shard
<1>6. ASSUME NEW u \in Users, BackgroundDeliver(u) PROVE FirstInFirstOut'
  BY <1>1, <1>6 DEF BackgroundDeliver, shardVars
<1>7. CASE Stop \/ Terminated \/ UNCHANGED vars
  BY <1>2, <1>7 DEF Stop, Terminated, vars, shardVars, queueVars
<1> QED
  BY <1>3, <1>4, <1>5, <1>6, <1>7 DEF Next

-----------------------------------------------------------------------------
(* The send channels: closed once, never sent on afterwards.               *)

LEMMA DropFacts ==
  ASSUME Typed, ChannelSafety, NEW D, Drop(D)
  PROVE  /\ clients' = clients \ D
         /\ \A c \in Clients : closes'[c] <= 1
         /\ \A c \in Clients : closes'[c] =
              IF c \in D \cap clients THEN closes[c] + 1 ELSE closes[c]
         /\ \A c \in Clients : c \notin clients' /\ closes'[c] = 0
              => c \notin clients /\ closes[c] = 0
  BY DEF Typed, ChannelSafety, Drop

(* A step that only moves goroutines forward keeps the channels safe. *)
LEMMA QuietStep ==
  ASSUME ChannelSafety,
         UNCHANGED <<clients, closes, offers, dispatched>>,
         \A c \in Clients :
           reader'[c] \in {"new", "register"} => reader[c] \in {"new", "register"},
         \A c \in Clients : send[c] = <<>> => send'[c] = <<>>,
         \A c \in Clients :
           reader'[c] \in {"new", "register", "registered"} <=> writer'[c] = "off"
  PROVE  ChannelSafety'
  BY DEF ChannelSafety

(* In particular one that moves a reader on, before or after its writer runs. *)
LEMMA QuietReader ==
  ASSUME ChannelSafety, NEW c \in Clients,
         UNCHANGED <<clients, closes, offers, dispatched, send, writer>>,
         \A x \in Clients : x # c => reader'[x] = reader[x],
         reader'[c] \notin {"new", "register"},
         reader'[c] = "registered"
           <=> reader[c] \in {"new", "register", "registered"}
  PROVE  ChannelSafety'
<1>1. \A x \in Clients : reader'[x] \in {"new", "register"} =>
        reader[x] \in {"new", "register"}
  OBVIOUS
<1>2. \A x \in Clients :
        reader'[x] \in {"new", "register", "registered"} <=> writer'[x] = "off"
  BY DEF ChannelSafety
<1> QED
  BY <1>1, <1>2, QuietStep

LEMMA UnregisterKeepsSafe ==
  ASSUME Typed, ChannelSafety, NEW c \in Clients, Unregister(c)
  PROVE  ChannelSafety'
<1>1. /\ reader[c] = "leaving" /\ reader' = [reader EXCEPT ![c] = "await"]
      /\ offers[ShardOf[UserOf[c]]] = {}
      /\ Drop({c})
      /\ UNCHANGED <<offers, send, dispatched, writer>>
  BY DEF Unregister, Idle, Goto
<1>2. /\ clients' = clients \ {c} /\ \A x \in Clients : closes'[x] <= 1
      /\ \A x \in Clients : x \notin clients' /\ closes'[x] = 0 => send[x] = <<>>
  BY <1>1, DropFacts DEF ChannelSafety
<1>3. \A x \in Clients \ {c} : closes'[x] = closes[x]
  BY <1>1, DropFacts
<1>4. \A x \in Clients : reader'[x] \in {"new", "register"} =>
        x # c /\ reader[x] \in {"new", "register"}
  BY <1>1 DEF Typed
<1>5. \A x \in Clients :
        reader'[x] \in {"new", "register", "registered"} <=> writer'[x] = "off"
  BY <1>1 DEF ChannelSafety, Typed
<1>6. \A s \in Shards : \A o \in offers[s] : o[1] # c
  BY <1>1 DEF ChannelSafety
<1> QED
  BY <1>1, <1>2, <1>3, <1>4, <1>5, <1>6 DEF ChannelSafety, Typed

LEMMA DispatchKeepsSafe ==
  ASSUME Typed, FirstInFirstOut, ChannelSafety, NEW s \in Shards, Dispatch(s)
  PROVE  ChannelSafety'
<1> DEFINE d == Head(out[s])
           u == d.user
<1>1. /\ offers' = [offers EXCEPT ![s] = ClientsOf(u) \X {d.n}]
      /\ dispatched' = [dispatched EXCEPT ![u] = @ + 1]
      /\ UNCHANGED <<clients, closes, send, reader, writer>>
  BY DEF Dispatch
<1>2. ShardOf[u] = s /\ d.n = dispatched[u] + 1 /\ u \in Users
  BY HeadIsNext DEF Dispatch, Delivery
<1>3. dispatched'[u] = d.n /\ \A v \in Users : v # u => dispatched'[v] = dispatched[v]
  BY <1>1, <1>2 DEF Typed
<1>4. ASSUME NEW t \in Shards, NEW o \in offers'[t]
      PROVE  /\ o[1] \in clients
             /\ ShardOf[UserOf[o[1]]] = t
             /\ o[2] = dispatched'[UserOf[o[1]]]
  <2>1. CASE t = s
    <3>1. o \in ClientsOf(u) \X {d.n}
      BY <1>1, <1>4, <2>1 DEF Typed
    <3>2. o[1] \in clients /\ UserOf[o[1]] = u /\ o[2] = d.n
      BY <3>1 DEF ClientsOf
    <3> QED
      BY <1>2, <1>3, <2>1, <3>2
  <2>2. CASE t # s
    <3>1. o \in offers[t]
      BY <1>1, <1>4, <2>2 DEF Typed
    <3>2. /\ o[1] \in clients /\ UserOf[o[1]] \in Users
          /\ ShardOf[UserOf[o[1]]] = t
          /\ o[2] = dispatched[UserOf[o[1]]]
      BY <3>1, Maps DEF ChannelSafety, Typed
    <3> QED
      BY <1>2, <1>3, <2>2, <3>2
  <2> QED
    BY <2>1, <2>2
<1> QED
  BY <1>1, <1>4 DEF ChannelSafety

LEMMA OfferKeepsSafe ==
  ASSUME Typed, ChannelSafety, NEW s \in Shards, Offer(s)
  PROVE  ChannelSafety'
<1> PICK o \in offers[s] : Offer(s)!(o)
  BY DEF Offer
<1> DEFINE c == o[1]
<1>1. /\ offers' = [offers EXCEPT ![s] = @ \ {o}]
      /\ UNCHANGED <<dispatched, reader, writer>>
  OBVIOUS
<1>2. c \in clients /\ c \in Clients /\ o \in Clients \X Nat
  BY DEF ChannelSafety, Typed
<1>3. reader[c] \notin {"new", "register"}
  BY <1>2 DEF ChannelSafety
<1>4. \A t \in Shards : \A p \in offers'[t] : p \in offers[t] /\ p[1] # c
  <2> TAKE t \in Shards
  <2> TAKE p \in offers'[t]
  <2>1. p \in offers[t] /\ (t = s => p # o) /\ p \in Clients \X Nat
    BY <1>1 DEF Typed
  <2>2. p[1] = c => t = s /\ p[2] = o[2]
    BY <2>1 DEF ChannelSafety
  <2> QED
    BY <1>2, <2>1, <2>2
<1>5. CASE send' = [send EXCEPT ![c] = Append(@, o[2])] /\ UNCHANGED <<clients, closes>>
  <2>1. \A x \in Clients : x # c => send'[x] = send[x]
    BY <1>5 DEF Typed
  <2> QED
    BY <1>1, <1>3, <1>4, <1>5, <2>1 DEF ChannelSafety
<1>6. CASE Drop({c}) /\ UNCHANGED send
  <2>1. /\ clients' = clients \ {c} /\ \A x \in Clients : closes'[x] <= 1
        /\ \A x \in Clients : x \notin clients' /\ closes'[x] = 0 => send[x] = <<>>
    BY <1>6, DropFacts DEF ChannelSafety
  <2>2. \A x \in Clients \ {c} : closes'[x] = closes[x]
    BY <1>6, DropFacts
  <2> QED
    BY <1>1, <1>3, <1>4, <1>6, <2>1, <2>2 DEF ChannelSafety, Typed
<1> QED
  BY <1>5, <1>6

LEMMA ShutdownKeepsSafe ==
  ASSUME Typed, ChannelSafety, NEW s \in Shards, Shutdown(s)
  PROVE  ChannelSafety'
<1> DEFINE D == ClientsOfShard(s)
<1>1. /\ offers[s] = {} /\ Drop(D)
      /\ UNCHANGED <<offers, send, dispatched, reader, writer>>
  BY DEF Shutdown, Idle
<1>2. /\ clients' = clients \ D /\ \A x \in Clients : closes'[x] <= 1
      /\ \A x \in Clients : x \notin clients' /\ closes'[x] = 0 => send[x] = <<>>
  BY <1>1, DropFacts DEF ChannelSafety
<1>3. \A x \in Clients : x \notin D => closes'[x] = closes[x]
  BY <1>1, DropFacts
<1>4. \A x \in D : x \in clients /\ ShardOf[UserOf[x]] = s
  BY DEF ClientsOfShard
<1>5. \A t \in Shards : \A o \in offers[t] : o[1] \notin D
  BY <1>1, <1>4 DEF ChannelSafety
<1>6. \A x \in Clients : reader[x] \in {"new", "register"} => x \notin D
  BY <1>4 DEF ChannelSafety
<1> QED
  BY <1>1, <1>2, <1>3, <1>5, <1>6 DEF ChannelSafety, Typed

LEMMA SafetyNext ==
  Typed /\ FirstInFirstOut /\ ChannelSafety /\ [Next]_vars => ChannelSafety'
<1> SUFFICES ASSUME Typed, FirstInFirstOut, ChannelSafety, [Next]_vars
             PROVE  ChannelSafety'
  OBVIOUS
<1> USE DEF shardVars, queueVars, handlerVars, Goto
<1>1. ASSUME NEW c \in Clients, Reader(c) PROVE ChannelSafety'
  <2>1. CASE Unregister(c)
    BY <2>1, UnregisterKeepsSafe
  <2>2. CASE Register(c)
    <3>1. /\ reader[c] = "register"
          /\ reader' = [reader EXCEPT ![c] = "registered"]
          /\ clients' = clients \cup {c}
          /\ UNCHANGED <<closes, offers, dispatched, send, writer>>
      BY <2>2 DEF Register
    <3> QED
      BY <3>1 DEF ChannelSafety, Typed
  <2>3. CASE Connect(c)
    <3>1. \A x \in Clients : reader'[x] = "register" =>
            reader[x] \in {"new", "register"}
      BY <2>3 DEF Connect, Typed
    <3> QED
      BY <2>3, <3>1 DEF Connect, ChannelSafety, Typed
  <2>4. CASE RegisterRefused(c) \/ UnregisterRefused(c) \/ ReaderEnds(c)
             \/ ReadError(c)
    <3>1. /\ UNCHANGED <<clients, closes, offers, dispatched, send, writer>>
          /\ \A x \in Clients : x # c => reader'[x] = reader[x]
      BY <2>4 DEF RegisterRefused, UnregisterRefused, ReaderEnds, ReadError,
         Typed
    <3>2. \/ reader[c] = "register" /\ reader'[c] = "registered"
          \/ reader[c] = "leaving" /\ reader'[c] = "await"
          \/ reader[c] = "await" /\ reader'[c] = "gone"
          \/ reader[c] = "reading" /\ reader'[c] = "leaving"
      BY <2>4 DEF RegisterRefused, UnregisterRefused, ReaderEnds, ReadError,
         Typed
    <3> QED
      BY <3>1, <3>2, QuietReader
  <2>5. CASE StartPumps(c)
    <3>1. /\ reader[c] = "registered"
          /\ reader' = [reader EXCEPT ![c] = "reading"]
          /\ writer' = [writer EXCEPT ![c] = "running"]
          /\ UNCHANGED <<clients, closes, offers, dispatched, send>>
      BY <2>5 DEF StartPumps
    <3>2. \A x \in Clients : reader'[x] \in {"new", "register", "registered"}
                               <=> writer'[x] = "off"
      BY <3>1 DEF ChannelSafety, Typed
    <3> QED
      BY <3>1, <3>2, QuietStep DEF Typed
  <2>6. CASE ReceiveFrame(c) \/ Reject(c) \/ Ack(c) \/ RouteTo(c)
             \/ RouteFrom(c)
    <3>1. /\ UNCHANGED <<clients, closes, offers, dispatched, send, writer>>
          /\ \A x \in Clients : x # c => reader'[x] = reader[x]
      BY <2>6 DEF ReceiveFrame, Reject, Ack, RouteTo, RouteFrom, Typed
    <3>2. /\ reader[c] \in {"reading", "reject", "ack", "to", "from"}
          /\ reader'[c] \in {"reading", "reject", "ack", "to", "from", "leaving"}
      BY <2>6 DEF ReceiveFrame, Reject, Ack, RouteTo, RouteFrom, Typed
    <3> QED
      BY <3>1, <3>2, QuietReader
  <2> QED
    BY <1>1, <2>1, <2>2, <2>3, <2>4, <2>5, <2>6 DEF Reader
<1>2. ASSUME NEW c \in Clients, Writer(c) PROVE ChannelSafety'
  <2>1. writer[c] = "running"
    BY <1>2 DEF Writer, WriteFrame, WriterFails, WriteClose
  <2>2. reader[c] \notin {"new", "register"}
    BY <2>1 DEF ChannelSafety
  <2>3. UNCHANGED <<clients, closes, offers, dispatched, reader>>
    BY <1>2 DEF Writer, WriteFrame, WriterFails, WriteClose
  <2>4. \A x \in Clients : x # c => send'[x] = send[x] /\ writer'[x] = writer[x]
    BY <1>2 DEF Writer, WriteFrame, WriterFails, WriteClose, Typed
  <2>5. writer'[c] # "off" /\ reader[c] \notin {"new", "register", "registered"}
    BY <1>2, <2>1
       DEF Writer, WriteFrame, WriterFails, WriteClose, Typed, ChannelSafety
  <2>6. \A x \in Clients : reader'[x] \in {"new", "register", "registered"}
                             <=> writer'[x] = "off"
    BY <2>3, <2>4, <2>5 DEF ChannelSafety
  <2>7. send[c] = <<>> => send'[c] = <<>>
    BY <1>2 DEF Writer, WriteFrame, WriterFails, WriteClose
  <2> QED
    BY <2>2, <2>3, <2>4, <2>6, <2>7, QuietStep
<1>3. ASSUME NEW s \in Shards, Shard(s) PROVE ChannelSafety'
  BY <1>3, DispatchKeepsSafe, OfferKeepsSafe, ShutdownKeepsSafe DEF Shard
<1>4. ASSUME NEW u \in Users, BackgroundDeliver(u) PROVE ChannelSafety'
  BY <1>4, QuietStep DEF BackgroundDeliver, ChannelSafety
<1>5. CASE Stop \/ Terminated \/ UNCHANGED vars
  BY <1>5, QuietStep DEF Stop, Terminated, vars, ChannelSafety
<1> QED
  BY <1>1, <1>2, <1>3, <1>4, <1>5 DEF Next

-----------------------------------------------------------------------------
(* Nothing is missing between a connection and its user's deliveries.      *)

LEMMA NoGapFrame ==
  ASSUME NoGap, UNCHANGED <<offers, dispatched, send, pos>>,
         clients' \subseteq clients,
         \A c \in Clients : writer'[c] # "gone" => writer[c] # "gone"
  PROVE  NoGap'
  BY DEF NoGap, Owed

LEMMA RegisterKeepsNoGap ==
  ASSUME Typed, ChannelSafety, NoGap, NEW c \in Clients, Register(c)
  PROVE  NoGap'
<1>1. /\ reader[c] = "register" /\ offers[ShardOf[UserOf[c]]] = {}
      /\ clients' = clients \cup {c}
      /\ pos' = [pos EXCEPT ![c] = dispatched[UserOf[c]]]
      /\ UNCHANGED <<offers, dispatched, send, writer>>
  BY DEF Register, Idle, shardVars
<1>2. send[c] = <<>> /\ pos'[c] = dispatched[UserOf[c]]
      /\ dispatched[UserOf[c]] \in Nat
  <2>1. UserOf[c] \in Users
    BY Maps
  <2>2. send[c] = <<>>
    BY <1>1 DEF ChannelSafety
  <2> QED
    BY <1>1, <2>1, <2>2 DEF Typed
<1>3. Owed(c)' = {}
  BY <1>1 DEF Owed
<1>4. \A x \in Clients : x # c =>
        /\ Owed(x)' = Owed(x) /\ pos'[x] = pos[x]
        /\ x \in clients' <=> x \in clients
  BY <1>1 DEF Owed, Typed
<1>5. ASSUME NEW x \in Clients, writer'[x] # "gone"
      PROVE  /\ \A i \in DOMAIN send'[x] : send'[x][i] = pos'[x] + i
             /\ x \in clients' => pos'[x] + Len(send'[x])
                   + (IF Owed(x)' = {} THEN 0 ELSE 1) = dispatched'[UserOf[x]]
  <2>1. CASE x = c
    BY <1>1, <1>2, <1>3, <2>1
  <2>2. CASE x # c
    BY <1>1, <1>4, <1>5, <2>2 DEF NoGap
  <2> QED
    BY <2>1, <2>2
<1> QED
  BY <1>5 DEF NoGap

LEMMA WriteFrameKeepsNoGap ==
  ASSUME Typed, NoGap, NEW c \in Clients, WriteFrame(c)
  PROVE  /\ NoGap'
         /\ pos' = [pos EXCEPT ![c] = @ + 1]
<1>1. /\ writer[c] = "running" /\ send[c] # <<>> /\ send[c] \in Seq(Nat)
      /\ pos' = [pos EXCEPT ![c] = Head(send[c])]
      /\ send' = [send EXCEPT ![c] = Tail(@)]
      /\ UNCHANGED <<clients, offers, dispatched, writer>>
      /\ pos[c] \in Nat
  BY DEF WriteFrame, Typed
<1>2. /\ \A i \in DOMAIN send[c] : send[c][i] = pos[c] + i
      /\ c \in clients => pos[c] + Len(send[c])
            + (IF Owed(c) = {} THEN 0 ELSE 1) = dispatched[UserOf[c]]
  BY <1>1 DEF NoGap
<1>3. 1 \in DOMAIN send[c] /\ Head(send[c]) = send[c][1]
  BY <1>1
<1>4. Head(send[c]) = pos[c] + 1
  BY <1>2, <1>3
<1>5. /\ send'[c] = Tail(send[c]) /\ pos'[c] = pos[c] + 1
      /\ \A x \in Clients : x # c => send'[x] = send[x] /\ pos'[x] = pos[x]
  BY <1>1, <1>4 DEF Typed
<1>6. /\ Len(send'[c]) = Len(send[c]) - 1 /\ Len(send[c]) \in Nat
      /\ \A i \in DOMAIN send'[c] :
           i \in Nat /\ i + 1 \in DOMAIN send[c] /\ send'[c][i] = send[c][i + 1]
  <2> DEFINE q == send[c]
  <2>1. q \in Seq(Nat) /\ q # <<>>
    BY <1>1
  <2> HIDE DEF q
  <2>2. /\ Len(Tail(q)) = Len(q) - 1 /\ Len(q) \in Nat
        /\ \A i \in DOMAIN Tail(q) :
             i \in Nat /\ i + 1 \in DOMAIN q /\ Tail(q)[i] = q[i + 1]
    BY <2>1
  <2> QED
    BY <1>5, <2>2 DEF q
<1>7. \A i \in DOMAIN send'[c] : send'[c][i] = pos'[c] + i
  BY <1>1, <1>2, <1>5, <1>6
<1>8. c \in clients => pos'[c] + Len(send'[c])
        + (IF Owed(c) = {} THEN 0 ELSE 1) = dispatched[UserOf[c]]
  BY <1>1, <1>2, <1>5, <1>6
<1>9. \A x \in Clients : Owed(x)' = Owed(x)
  BY <1>1 DEF Owed
<1>10. \A x \in Clients : x # c /\ writer[x] # "gone" =>
         /\ \A i \in DOMAIN send'[x] : send'[x][i] = pos'[x] + i
         /\ x \in clients => pos'[x] + Len(send'[x])
               + (IF Owed(x)' = {} THEN 0 ELSE 1) = dispatched[UserOf[x]]
  BY <1>5, <1>9 DEF NoGap
<1>11. NoGap'
  BY <1>1, <1>7, <1>8, <1>9, <1>10 DEF NoGap
<1> QED
  BY <1>1, <1>4, <1>11

LEMMA DispatchKeepsNoGap ==
  ASSUME Typed, FirstInFirstOut, NoGap, NEW s \in Shards, Dispatch(s)
  PROVE  /\ NoGap'
         /\ Head(out[s]).user \in Users
         /\ dispatched' = [dispatched EXCEPT ![Head(out[s]).user] = @ + 1]
<1> DEFINE d == Head(out[s])
           u == d.user
<1>1. /\ offers[s] = {}
      /\ offers' = [offers EXCEPT ![s] = ClientsOf(u) \X {d.n}]
      /\ dispatched' = [dispatched EXCEPT ![u] = @ + 1]
      /\ UNCHANGED <<clients, send, writer, pos>>
  BY DEF Dispatch, Idle
<1>2. u \in Users /\ ShardOf[u] = s
  BY HeadIsNext DEF Dispatch, Delivery
<1>3. ASSUME NEW c \in Clients, UserOf[c] # u
      PROVE  Owed(c)' = Owed(c) /\ dispatched'[UserOf[c]] = dispatched[UserOf[c]]
  <2>1. dispatched'[UserOf[c]] = dispatched[UserOf[c]]
    BY <1>1, <1>2, <1>3, Maps DEF Typed
  <2>2. CASE ShardOf[UserOf[c]] = s
    <3>1. \A o \in offers'[s] : o[1] # c
      BY <1>1, <1>3 DEF Typed, ClientsOf
    <3> QED
      BY <1>1, <2>1, <2>2, <3>1 DEF Owed
  <2>3. CASE ShardOf[UserOf[c]] # s
    BY <1>1, <2>1, <2>3, Maps DEF Owed, Typed
  <2> QED
    BY <2>2, <2>3
<1>4. ASSUME NEW c \in clients, UserOf[c] = u
      PROVE  /\ Owed(c) = {} /\ Owed(c)' # {}
             /\ dispatched'[u] = dispatched[u] + 1
  <2>1. <<c, d.n>> \in offers'[s]
    BY <1>1, <1>4 DEF Typed, ClientsOf
  <2>2. Owed(c)' # {}
    BY <1>2, <1>4, <2>1 DEF Owed
  <2> QED
    BY <1>1, <1>2, <1>4, <2>2 DEF Owed, Typed
<1>5. ASSUME NEW c \in Clients, writer[c] # "gone", c \in clients
      PROVE  pos[c] + Len(send[c]) + (IF Owed(c)' = {} THEN 0 ELSE 1)
               = dispatched'[UserOf[c]]
  <2>1. /\ pos[c] + Len(send[c]) + (IF Owed(c) = {} THEN 0 ELSE 1)
             = dispatched[UserOf[c]]
        /\ pos[c] \in Nat /\ Len(send[c]) \in Nat
        /\ dispatched[UserOf[c]] \in Nat
    <3>1. UserOf[c] \in Users /\ send[c] \in Seq(Nat)
      BY Maps DEF Typed
    <3>2. pos[c] + Len(send[c]) + (IF Owed(c) = {} THEN 0 ELSE 1)
            = dispatched[UserOf[c]]
      BY <1>5 DEF NoGap
    <3> QED
      BY <3>1, <3>2 DEF Typed
  <2>2. CASE UserOf[c] = u
    BY <1>4, <1>5, <2>1, <2>2
  <2>3. CASE UserOf[c] # u
    BY <1>3, <2>1, <2>3
  <2> QED
    BY <2>2, <2>3
<1>6. NoGap'
  BY <1>1, <1>5 DEF NoGap
<1> QED
  BY <1>1, <1>2, <1>6

LEMMA OfferKeepsNoGap ==
  ASSUME Typed, ChannelSafety, NoGap, NEW s \in Shards, Offer(s)
  PROVE  NoGap'
<1> PICK o \in offers[s] : Offer(s)!(o)
  BY DEF Offer
<1> DEFINE c == o[1]
<1>1. /\ offers' = [offers EXCEPT ![s] = @ \ {o}]
      /\ UNCHANGED <<dispatched, writer, pos>>
  OBVIOUS
<1>2. /\ c \in clients /\ c \in Clients /\ o \in Clients \X Nat
      /\ ShardOf[UserOf[c]] = s /\ o[2] = dispatched[UserOf[c]]
  BY DEF ChannelSafety, Typed
<1>3. Owed(c) # {} /\ Owed(c)' = {}
  <2>1. o \in Owed(c)
    BY <1>2 DEF Owed
  <2>2. \A p \in offers[s] : p[1] = c => p = o
    <3> TAKE p \in offers[s]
    <3>1. p \in Clients \X Nat
      BY DEF Typed
    <3>2. p[1] = c => p[2] = o[2]
      BY <1>2 DEF ChannelSafety
    <3> QED
      BY <1>2, <3>1, <3>2
  <2>3. offers'[s] = offers[s] \ {o}
    BY <1>1 DEF Typed
  <2> QED
    BY <1>2, <2>1, <2>2, <2>3 DEF Owed
<1>4. \A x \in Clients : x # c => Owed(x)' = Owed(x)
  BY <1>1 DEF Owed, Typed
<1>5. CASE send' = [send EXCEPT ![c] = Append(@, o[2])] /\ UNCHANGED clients
  <2> SUFFICES ASSUME NEW x \in Clients, writer[x] # "gone"
               PROVE  /\ \A i \in DOMAIN send'[x] : send'[x][i] = pos[x] + i
                      /\ x \in clients => pos[x] + Len(send'[x])
                            + (IF Owed(x)' = {} THEN 0 ELSE 1)
                            = dispatched[UserOf[x]]
    BY <1>1, <1>5 DEF NoGap
  <2>1. /\ \A i \in DOMAIN send[x] : send[x][i] = pos[x] + i
        /\ x \in clients => pos[x] + Len(send[x])
              + (IF Owed(x) = {} THEN 0 ELSE 1) = dispatched[UserOf[x]]
        /\ pos[x] \in Nat /\ send[x] \in Seq(Nat)
    BY DEF NoGap, Typed
  <2>2. CASE x # c
    BY <1>4, <1>5, <2>1, <2>2 DEF Typed
  <2>3. CASE x = c
    <3> DEFINE k == Len(send[c]) + 1
    <3>1. send'[c] = Append(send[c], o[2])
      BY <1>2, <1>5 DEF Typed
    <3>2. o[2] = pos[c] + k
      <4>1. pos[c] + Len(send[c]) + 1 = o[2]
        BY <1>2, <1>3, <2>1, <2>3
      <4>2. pos[c] \in Nat /\ Len(send[c]) \in Nat
        BY <2>1, <2>3
      <4> QED
        BY <4>1, <4>2
    <3>3. /\ Len(send'[c]) = k /\ DOMAIN send'[c] = 1..k /\ send'[c][k] = o[2]
          /\ \A i \in 1..k : i # k => i \in DOMAIN send[c]
                                     /\ send'[c][i] = send[c][i]
      BY <2>1, <2>3, <3>1
    <3>4. \A i \in DOMAIN send'[c] : send'[c][i] = pos[c] + i
      BY <2>1, <2>3, <3>2, <3>3
    <3> QED
      BY <1>2, <1>3, <2>1, <2>3, <3>2, <3>3, <3>4
  <2> QED
    BY <2>2, <2>3
<1>6. CASE Drop({c}) /\ UNCHANGED send
  <2>1. clients' = clients \ {c}
    BY <1>6, DropFacts
  <2> QED
    BY <1>1, <1>4, <1>6, <2>1 DEF NoGap
<1> QED
  BY <1>5, <1>6

LEMMA NoGapNext ==
  Typed /\ FirstInFirstOut /\ ChannelSafety /\ NoGap /\ [Next]_vars => NoGap'
<1> SUFFICES ASSUME Typed, FirstInFirstOut, ChannelSafety, NoGap, [Next]_vars
             PROVE  NoGap'
  OBVIOUS
<1> USE DEF shardVars, queueVars, handlerVars
<1>1. ASSUME NEW c \in Clients, Reader(c) PROVE NoGap'
  <2>1. CASE Register(c)
    BY <2>1, RegisterKeepsNoGap
  <2>2. CASE Unregister(c)
    <3>1. clients' \subseteq clients
      BY <2>2 DEF Unregister, Drop
    <3> QED
      BY <2>2, <3>1, NoGapFrame DEF Unregister
  <2>3. CASE StartPumps(c)
    <3>1. \A x \in Clients : writer'[x] # "gone" => writer[x] # "gone"
      BY <2>3 DEF StartPumps, ChannelSafety, Typed
    <3> QED
      BY <2>3, <3>1, NoGapFrame DEF StartPumps
  <2>4. CASE Connect(c) \/ RegisterRefused(c) \/ UnregisterRefused(c)
             \/ ReaderEnds(c) \/ ReadError(c) \/ ReceiveFrame(c)
    BY <2>4, NoGapFrame DEF Connect, RegisterRefused, UnregisterRefused,
       ReaderEnds, ReadError, ReceiveFrame
  <2>5. CASE Reject(c) \/ Ack(c) \/ RouteTo(c) \/ RouteFrom(c)
    BY <2>5, NoGapFrame DEF Reject, Ack, RouteTo, RouteFrom
  <2> QED
    BY <1>1, <2>1, <2>2, <2>3, <2>4, <2>5 DEF Reader
<1>2. ASSUME NEW c \in Clients, Writer(c) PROVE NoGap'
  <2>1. CASE WriteFrame(c)
    BY <2>1, WriteFrameKeepsNoGap
  <2>2. CASE WriterFails(c)
    <3>1. /\ UNCHANGED <<clients, offers, dispatched, pos>>
          /\ \A x \in Clients : writer'[x] # "gone" =>
               writer[x] # "gone" /\ send'[x] = send[x]
      BY <2>2 DEF WriterFails, Typed
    <3>2. \A x \in Clients : Owed(x)' = Owed(x)
      BY <3>1 DEF Owed
    <3> QED
      BY <3>1, <3>2 DEF NoGap
  <2>3. CASE WriteClose(c)
    <3>1. \A x \in Clients : writer'[x] # "gone" => writer[x] # "gone"
      BY <2>3 DEF WriteClose, Typed
    <3> QED
      BY <2>3, <3>1, NoGapFrame DEF WriteClose
  <2> QED
    BY <1>2, <2>1, <2>2, <2>3 DEF Writer
<1>3. ASSUME NEW s \in Shards, Shard(s) PROVE NoGap'
  <2>1. CASE Shutdown(s)
    <3>1. clients' \subseteq clients
      BY <2>1 DEF Shutdown, Drop
    <3> QED
      BY <2>1, <3>1, NoGapFrame DEF Shutdown
  <2> QED
    BY <1>3, <2>1, DispatchKeepsNoGap, OfferKeepsNoGap DEF Shard
<1>4. ASSUME NEW u \in Users, BackgroundDeliver(u) PROVE NoGap'
  BY <1>4, NoGapFrame DEF BackgroundDeliver
<1>5. CASE Stop \/ Terminated \/ UNCHANGED vars
  BY <1>5, NoGapFrame DEF Stop, Terminated, vars
<1> QED
  BY <1>1, <1>2, <1>3, <1>4, <1>5 DEF Next

-----------------------------------------------------------------------------
(* The invariant, and what follows from it.                                *)

HubInv == Typed /\ FirstInFirstOut /\ ChannelSafety /\ NoGap

LEMMA InvInit == ASSUME Init PROVE HubInv
<1>1. FirstInFirstOut
  <2>1. \A u \in Users : (dispatched[u] + 1)..accepted[u] = {}
    BY DEF Init
  <2>2. \A s \in Shards : DOMAIN out[s] = {}
    BY DEF Init
  <2> QED
    BY <2>1, <2>2 DEF Init, FirstInFirstOut
<1>2. ChannelSafety
  BY DEF Init, ChannelSafety
<1>3. NoGap
  BY DEF Init, NoGap
<1> QED
  BY <1>1, <1>2, <1>3, TypeInit DEF HubInv

LEMMA InvNext == HubInv /\ [Next]_vars => HubInv'
  BY TypeNext, OrderNext, SafetyNext, NoGapNext DEF HubInv

LEMMA Invariance == Spec => []HubInv
  BY InvInit, InvNext, PTL DEF Spec

(* deliverLocal and the shard loop lose, duplicate and reorder nothing. *)
THEOREM InOrder == Spec => []FirstInFirstOut
<1>1. HubInv => FirstInFirstOut
  BY DEF HubInv
<1> QED
  BY <1>1, Invariance, PTL

(* The hub never panics on a channel: none is closed twice, none is sent on
   after its close.                                                        *)
THEOREM ChannelsSafe == Spec => []ChannelSafety
<1>1. HubInv => ChannelSafety
  BY DEF HubInv
<1> QED
  BY <1>1, Invariance, PTL

(* What a connection has not written yet is exactly in its buffer, in s.out
   or in the loop's hand.                                                  *)
THEOREM NothingMissed == Spec => []NoGap
<1>1. HubInv => NoGap
  BY DEF HubInv
<1> QED
  BY <1>1, Invariance, PTL

-----------------------------------------------------------------------------
(* The hub implements the mailbox.                                         *)

BoxState == [c \in Clients |-> Connection(c)]
BoxEnd   == [c \in Clients |-> IF Connection(c) = "detached"
                                 THEN pos[c] + Len(send[c]) ELSE 0]

(* Four cases and no other: a connection in the map has an open channel. *)
LEMMA ConnectionIs ==
  ASSUME HubInv, NEW c \in Clients
  PROVE  /\ Connection(c) = "closed" <=> writer[c] = "gone"
         /\ Connection(c) = "attached" <=> writer[c] # "gone" /\ c \in clients
         /\ Connection(c) = "detached" <=>
              writer[c] # "gone" /\ c \notin clients /\ closes[c] > 0
         /\ Connection(c) = "absent" <=>
              writer[c] # "gone" /\ c \notin clients /\ closes[c] = 0
         /\ Connection(c) \in {"closed", "attached", "detached", "absent"}
<1>1. closes[c] \in Nat
  BY DEF HubInv, Typed
<1> QED
  BY <1>1 DEF Connection

(* A step that changes neither the map, the writers' ends nor the positions
   is a stutter of the mailbox.                                            *)
LEMMA BoxStutter ==
  ASSUME UNCHANGED <<clients, closes, dispatched, pos>>,
         \A c \in Clients : writer'[c] = "gone" <=> writer[c] = "gone",
         \A c \in Clients : c \notin clients => send'[c] = send[c]
  PROVE  UNCHANGED Box!vars
<1>1. \A c \in Clients : Connection(c)' = Connection(c)
  BY DEF Connection
<1>2. \A c \in Clients : Connection(c) = "detached" => send'[c] = send[c]
  BY DEF Connection
<1>3. BoxState' = BoxState /\ BoxEnd' = BoxEnd
  BY <1>1, <1>2 DEF BoxState, BoxEnd
<1> QED
  BY <1>3 DEF Box!vars, BoxState, BoxEnd

LEMMA Others ==
  ASSUME NEW x \in Clients, x \in clients' <=> x \in clients,
         closes'[x] = closes[x], writer'[x] = "gone" <=> writer[x] = "gone",
         Connection(x) = "detached" => pos'[x] = pos[x] /\ send'[x] = send[x]
  PROVE  BoxState'[x] = BoxState[x] /\ BoxEnd'[x] = BoxEnd[x]
<1>1. Connection(x)' = Connection(x)
  BY DEF Connection
<1> QED
  BY <1>1 DEF BoxState, BoxEnd

LEMMA BoxFunctions ==
  /\ BoxState = [c \in Clients |-> BoxState[c]]
  /\ BoxEnd = [c \in Clients |-> BoxEnd[c]]
  /\ BoxState' = [c \in Clients |-> BoxState'[c]]
  /\ BoxEnd' = [c \in Clients |-> BoxEnd'[c]]
  BY DEF BoxState, BoxEnd

LEMMA MapInit == ASSUME Init PROVE Box!Init
<1>1. \A c \in Clients : Connection(c) = "absent"
  BY InvInit, ConnectionIs DEF Init
<1> QED
  BY <1>1 DEF Init, Box!Init

LEMMA MapRegister ==
  ASSUME HubInv, HubInv', NEW c \in Clients, Register(c)
  PROVE  Box!Attach(c)
<1>1. /\ reader[c] = "register" /\ clients' = clients \cup {c}
      /\ pos' = [pos EXCEPT ![c] = dispatched[UserOf[c]]]
      /\ UNCHANGED <<closes, dispatched, send, writer>>
  BY DEF Register, shardVars
<1>2. c \notin clients /\ closes[c] = 0 /\ writer[c] = "off"
  BY <1>1 DEF HubInv, ChannelSafety
<1>3. Connection(c) = "absent" /\ Connection(c)' = "attached"
  BY <1>1, <1>2 DEF Connection
<1>4. /\ BoxState[c] = "absent" /\ BoxState'[c] = "attached"
      /\ BoxEnd[c] = 0 /\ BoxEnd'[c] = 0
  BY <1>3 DEF BoxState, BoxEnd
<1>5. \A x \in Clients : x # c => pos'[x] = pos[x]
  BY <1>1 DEF HubInv, Typed
<1>6. \A x \in Clients : x # c => BoxState'[x] = BoxState[x] /\ BoxEnd'[x] = BoxEnd[x]
  BY <1>1, <1>5, Others
<1>7. BoxState' = [BoxState EXCEPT ![c] = "attached"] /\ BoxEnd' = BoxEnd
  BY <1>4, <1>6, BoxFunctions
<1> QED
  BY <1>1, <1>4, <1>7 DEF Box!Attach, BoxState, BoxEnd

LEMMA MapWriteFrame ==
  ASSUME HubInv, HubInv', NEW c \in Clients, WriteFrame(c)
  PROVE  Box!Read(c)
<1>1. /\ writer[c] = "running" /\ send[c] # <<>> /\ send[c] \in Seq(Nat)
      /\ send' = [send EXCEPT ![c] = Tail(@)] /\ pos[c] \in Nat
      /\ UNCHANGED <<clients, closes, dispatched, writer>>
  BY DEF WriteFrame, HubInv, Typed
<1>2. pos' = [pos EXCEPT ![c] = @ + 1]
  BY WriteFrameKeepsNoGap DEF HubInv
<1>3. /\ pos'[c] = pos[c] + 1 /\ send'[c] = Tail(send[c])
      /\ Len(send[c]) \in Nat \ {0} /\ Len(Tail(send[c])) = Len(send[c]) - 1
      /\ \A x \in Clients : x # c => pos'[x] = pos[x] /\ send'[x] = send[x]
  BY <1>1, <1>2 DEF HubInv, Typed
<1>4. Connection(c) # "absent" /\ Connection(c) # "closed"
  BY <1>1, ConnectionIs DEF HubInv, ChannelSafety
<1>5. Connection(c)' = Connection(c)
  BY <1>1 DEF Connection
<1>6. BoxState'[c] = BoxState[c] /\ BoxEnd'[c] = BoxEnd[c]
  <2>1. pos'[c] + Len(send'[c]) = pos[c] + Len(send[c])
    <3>1. /\ Len(send'[c]) = Len(send[c]) - 1 /\ Len(send[c]) \in Nat
          /\ pos'[c] = pos[c] + 1
      BY <1>3
    <3> QED
      BY <1>1, <3>1
  <2> QED
    BY <1>5, <2>1 DEF BoxState, BoxEnd
<1>7. \A x \in Clients : x # c => BoxState'[x] = BoxState[x] /\ BoxEnd'[x] = BoxEnd[x]
  BY <1>1, <1>3, Others
<1>8. BoxState' = BoxState /\ BoxEnd' = BoxEnd
  BY <1>6, <1>7, BoxFunctions
<1>9. \/ BoxState[c] = "attached" /\ pos[c] < dispatched[UserOf[c]]
      \/ BoxState[c] = "detached" /\ pos[c] < BoxEnd[c]
  <2>1. CASE Connection(c) = "attached"
    <3>1. c \in clients
      BY <2>1, ConnectionIs
    <3>2. pos[c] + Len(send[c]) + (IF Owed(c) = {} THEN 0 ELSE 1)
            = dispatched[UserOf[c]]
      BY <1>1, <3>1 DEF HubInv, NoGap
    <3>3. pos[c] < dispatched[UserOf[c]]
      BY <1>1, <1>3, <3>2
    <3> QED
      BY <2>1, <3>3 DEF BoxState
  <2>2. CASE Connection(c) = "detached"
    BY <1>1, <1>3, <2>2 DEF BoxState, BoxEnd
  <2> QED
    BY <1>4, <2>1, <2>2, ConnectionIs
<1> QED
  BY <1>1, <1>2, <1>8, <1>9 DEF Box!Read, BoxState, BoxEnd

LEMMA MapWriterGone ==
  ASSUME HubInv, HubInv', NEW c \in Clients, writer[c] = "running",
         writer' = [writer EXCEPT ![c] = "gone"],
         \A x \in Clients : x # c => send'[x] = send[x],
         UNCHANGED <<clients, closes, dispatched, pos>>
  PROVE  /\ Box!Break(c)
         /\ send[c] = <<>> /\ closes[c] > 0 => Box!Close(c)
<1>1. writer'[c] = "gone" /\ \A x \in Clients : x # c => writer'[x] = writer[x]
  BY DEF HubInv, Typed
<1>2. Connection(c) # "closed" /\ Connection(c)' = "closed"
  BY <1>1, ConnectionIs DEF Connection
<1>3. BoxState[c] # "closed" /\ BoxState'[c] = "closed" /\ BoxEnd'[c] = 0
  BY <1>2 DEF BoxState, BoxEnd
<1>4. \A x \in Clients : x # c => BoxState'[x] = BoxState[x] /\ BoxEnd'[x] = BoxEnd[x]
  BY <1>1, Others
<1>5. /\ BoxState' = [BoxState EXCEPT ![c] = "closed"]
      /\ BoxEnd' = [BoxEnd EXCEPT ![c] = 0]
  BY <1>3, <1>4, BoxFunctions
<1>6. Box!Break(c)
  BY <1>3, <1>5 DEF Box!Break, BoxState, BoxEnd
<1>7. ASSUME send[c] = <<>>, closes[c] > 0 PROVE Box!Close(c)
  <2>1. c \notin clients
    BY <1>7 DEF HubInv, ChannelSafety
  <2>2. Connection(c) = "detached"
    BY <1>7, <2>1, ConnectionIs DEF HubInv
  <2>3. BoxState[c] = "detached" /\ BoxEnd[c] = pos[c] + Len(send[c])
    BY <2>2 DEF BoxState, BoxEnd
  <2>4. pos[c] \in Nat /\ Len(send[c]) = 0
    BY <1>7 DEF HubInv, Typed
  <2>5. BoxState[c] = "detached" /\ pos[c] = BoxEnd[c]
    BY <2>3, <2>4
  <2> QED
    BY <1>5, <2>5 DEF Box!Close, BoxState, BoxEnd
<1> QED
  BY <1>6, <1>7

LEMMA MapDispatch ==
  ASSUME HubInv, HubInv', NEW s \in Shards, Dispatch(s)
  PROVE  \E u \in Users : Box!Publish(u)
<1> DEFINE u == Head(out[s]).user
<1>1. u \in Users /\ dispatched' = [dispatched EXCEPT ![u] = @ + 1]
  BY DispatchKeepsNoGap DEF HubInv
<1>2. UNCHANGED <<clients, closes, send, writer, pos>>
  BY DEF Dispatch
<1>3. \A x \in Clients : BoxState'[x] = BoxState[x] /\ BoxEnd'[x] = BoxEnd[x]
  BY <1>2, Others
<1>4. BoxState' = BoxState /\ BoxEnd' = BoxEnd
  BY <1>3, BoxFunctions
<1> QED
  BY <1>1, <1>2, <1>4 DEF Box!Publish, BoxState, BoxEnd

(* The connections of R are dropped while s has nothing more to hand them:
   R loses the readers whose writer is gone already.                       *)
LEMMA MapDrop ==
  ASSUME HubInv, HubInv', NEW D \in SUBSET Clients, Drop(D),
         UNCHANGED <<dispatched, send, writer, pos>>,
         NEW R \in SUBSET Clients,
         \A c \in Clients : c \in R <=>
           c \in D /\ c \in clients /\ writer[c] # "gone",
         NEW slow \in SUBSET R,
         \A c \in R : Owed(c) = {} <=> c \notin slow
  PROVE  Box!Detach(R, slow)
<1>1. clients' = clients \ D
  BY DropFacts DEF HubInv
<1>2. \A c \in Clients : closes'[c] =
        IF c \in D \cap clients THEN closes[c] + 1 ELSE closes[c]
  BY DropFacts DEF HubInv
<1>3. ASSUME NEW c \in R
      PROVE  /\ c \in Clients
             /\ BoxState[c] = "attached" /\ BoxState'[c] = "detached"
             /\ c \in slow => /\ pos[c] < dispatched[UserOf[c]]
                             /\ BoxEnd'[c] = dispatched[UserOf[c]] - 1
             /\ c \notin slow => BoxEnd'[c] = dispatched[UserOf[c]]
  <2>1. /\ c \in Clients /\ c \in clients /\ writer[c] # "gone"
        /\ c \notin clients' /\ closes'[c] = closes[c] + 1
        /\ closes[c] \in Nat
        /\ pos[c] \in Nat /\ send[c] \in Seq(Nat)
        /\ dispatched[UserOf[c]] \in Nat
    BY <1>1, <1>2, Maps DEF HubInv, Typed
  <2>2. Connection(c) = "attached" /\ Connection(c)' = "detached"
    BY <2>1, ConnectionIs DEF Connection
  <2>3. BoxEnd'[c] = pos[c] + Len(send[c])
    BY <2>1, <2>2 DEF BoxEnd
  <2>4. pos[c] + Len(send[c]) + (IF Owed(c) = {} THEN 0 ELSE 1)
          = dispatched[UserOf[c]]
    BY <2>1 DEF HubInv, NoGap
  <2>5. Len(send[c]) \in Nat
    BY <2>1
  <2>6. CASE c \in slow
    <3>1. pos[c] + Len(send[c]) + 1 = dispatched[UserOf[c]]
      BY <2>1, <2>4, <2>6
    <3> QED
      BY <2>1, <2>2, <2>3, <2>5, <2>6, <3>1 DEF BoxState
  <2>7. CASE c \notin slow
    <3>1. pos[c] + Len(send[c]) + 0 = dispatched[UserOf[c]]
      BY <2>1, <2>4, <2>7
    <3> QED
      BY <2>1, <2>2, <2>3, <2>5, <2>7, <3>1 DEF BoxState
  <2> QED
    BY <2>6, <2>7
<1>4. ASSUME NEW c \in Clients \ R
      PROVE  BoxState'[c] = BoxState[c] /\ BoxEnd'[c] = BoxEnd[c]
  <2>1. CASE writer[c] = "gone"
    <3>1. Connection(c) = "closed" /\ Connection(c)' = "closed"
      BY <2>1 DEF Connection
    <3> QED
      BY <3>1 DEF BoxState, BoxEnd
  <2>2. CASE writer[c] # "gone"
    <3>1. c \notin D \cap clients
      BY <1>4, <2>2
    <3> QED
      BY <1>1, <1>2, <3>1, Others
  <2> QED
    BY <2>1, <2>2
<1>5. BoxState' = [c \in Clients |-> IF c \in R THEN "detached" ELSE BoxState[c]]
  BY <1>3, <1>4, BoxFunctions
<1>6. BoxEnd' = [c \in Clients |->
                  CASE c \in slow        -> dispatched[UserOf[c]] - 1
                    [] c \in R \ slow    -> dispatched[UserOf[c]]
                    [] c \in Clients \ R -> BoxEnd[c]]
  <2>1. \A c \in Clients : BoxEnd'[c] =
          CASE c \in slow        -> dispatched[UserOf[c]] - 1
            [] c \in R \ slow    -> dispatched[UserOf[c]]
            [] c \in Clients \ R -> BoxEnd[c]
    <3> TAKE c \in Clients
    <3>1. CASE c \in slow
      BY <1>3, <3>1
    <3>2. CASE c \in R \ slow
      BY <1>3, <3>2
    <3>3. CASE c \in Clients \ R
      BY <1>4, <3>3
    <3> QED
      BY <3>1, <3>2, <3>3
  <2> QED
    BY <2>1, BoxFunctions
<1> QED
  BY <1>3, <1>5, <1>6 DEF Box!Detach, BoxState, BoxEnd

LEMMA BoxStep == ASSUME HubInv, HubInv', [Next]_vars
                 PROVE  [Box!Next]_(Box!vars)
<1> USE DEF shardVars, queueVars, handlerVars
<1>1. ASSUME NEW c \in Clients, Reader(c) PROVE [Box!Next]_(Box!vars)
  <2>1. CASE Register(c)
    BY <2>1, MapRegister DEF Box!Next
  <2>2. CASE Unregister(c)
    <3>1. Drop({c}) /\ offers[ShardOf[UserOf[c]]] = {}
          /\ UNCHANGED <<dispatched, send, writer, pos>>
      BY <2>2 DEF Unregister, Idle
    <3>2. PICK R \in SUBSET Clients :
            R = {x \in {c} \cap clients : writer[x] # "gone"}
      OBVIOUS
    <3>3. /\ \A x \in Clients : x \in R <=>
               x \in {c} /\ x \in clients /\ writer[x] # "gone"
          /\ \A x \in R : Owed(x) = {}
      BY <3>1, <3>2 DEF Owed
    <3>4. Box!Detach(R, {})
      BY <3>1, <3>3, MapDrop
    <3> QED
      BY <3>4 DEF Box!Next
  <2>3. CASE StartPumps(c)
    <3>1. \A x \in Clients : writer'[x] = "gone" <=> writer[x] = "gone"
      BY <2>3 DEF StartPumps, HubInv, Typed, ChannelSafety
    <3> QED
      BY <2>3, <3>1, BoxStutter DEF StartPumps
  <2>4. CASE Connect(c) \/ RegisterRefused(c) \/ UnregisterRefused(c)
             \/ ReaderEnds(c) \/ ReadError(c) \/ ReceiveFrame(c)
    BY <2>4, BoxStutter DEF Connect, RegisterRefused, UnregisterRefused,
       ReaderEnds, ReadError, ReceiveFrame
  <2>5. CASE Reject(c) \/ Ack(c) \/ RouteTo(c) \/ RouteFrom(c)
    BY <2>5, BoxStutter DEF Reject, Ack, RouteTo, RouteFrom
  <2> QED
    BY <1>1, <2>1, <2>2, <2>3, <2>4, <2>5 DEF Reader
<1>2. ASSUME NEW c \in Clients, Writer(c) PROVE [Box!Next]_(Box!vars)
  <2>1. CASE WriteFrame(c)
    BY <2>1, MapWriteFrame DEF Box!Next
  <2>2. CASE WriterFails(c)
    <3>1. \A x \in Clients : x # c => send'[x] = send[x]
      BY <2>2 DEF WriterFails, HubInv, Typed
    <3>2. Box!Break(c)
      BY <2>2, <3>1, MapWriterGone DEF WriterFails
    <3> QED
      BY <3>2 DEF Box!Next
  <2>3. CASE WriteClose(c)
    <3>1. Box!Close(c)
      BY <2>3, MapWriterGone DEF WriteClose
    <3> QED
      BY <3>1 DEF Box!Next
  <2> QED
    BY <1>2, <2>1, <2>2, <2>3 DEF Writer
<1>3. ASSUME NEW s \in Shards, Shard(s) PROVE [Box!Next]_(Box!vars)
  <2>1. CASE Dispatch(s)
    BY <2>1, MapDispatch DEF Box!Next
  <2>2. CASE Offer(s)
    <3> PICK o \in offers[s] : Offer(s)!(o)
      BY <2>2 DEF Offer
    <3> DEFINE c == o[1]
    <3>1. c \in clients /\ c \in Clients /\ ShardOf[UserOf[c]] = s
      BY DEF HubInv, ChannelSafety, Typed
    <3>2. UNCHANGED <<dispatched, writer, pos>>
      OBVIOUS
    <3>3. CASE send' = [send EXCEPT ![c] = Append(@, o[2])]
               /\ UNCHANGED <<clients, closes>>
      <4>1. \A x \in Clients : x \notin clients => send'[x] = send[x]
        BY <3>1, <3>3 DEF HubInv, Typed
      <4> QED
        BY <3>2, <3>3, <4>1, BoxStutter
    <3>4. CASE Drop({c}) /\ UNCHANGED send
      <4>1. Owed(c) # {}
        BY <3>1 DEF Owed
      <4>2. {c} \in SUBSET Clients /\ UNCHANGED <<dispatched, send, writer, pos>>
        BY <3>1, <3>2, <3>4
      <4>3. PICK R \in SUBSET Clients :
              R = {x \in {c} \cap clients : writer[x] # "gone"}
        BY <4>2
      <4>4. /\ \A x \in Clients : x \in R <=>
                 x \in {c} /\ x \in clients /\ writer[x] # "gone"
            /\ \A x \in R : Owed(x) = {} <=> x \notin R
        BY <3>1, <4>1, <4>3
      <4>5. Box!Detach(R, R)
        BY <3>4, <4>2, <4>4, MapDrop
      <4> QED
        BY <4>5 DEF Box!Next
    <3> QED
      BY <3>3, <3>4
  <2>3. CASE Shutdown(s)
    <3> DEFINE D == ClientsOfShard(s)
    <3>1. /\ Drop(D) /\ offers[s] = {} /\ D \in SUBSET Clients
          /\ UNCHANGED <<dispatched, send, writer, pos>>
      BY <2>3 DEF Shutdown, Idle, ClientsOfShard, HubInv, Typed
    <3>2. PICK R \in SUBSET Clients :
            R = {x \in D \cap clients : writer[x] # "gone"}
      BY <3>1
    <3>3. /\ \A x \in Clients : x \in R <=>
               x \in D /\ x \in clients /\ writer[x] # "gone"
          /\ \A x \in R : Owed(x) = {}
      BY <3>1, <3>2 DEF ClientsOfShard, Owed
    <3>4. Box!Detach(R, {})
      BY <3>1, <3>3, MapDrop
    <3> QED
      BY <3>4 DEF Box!Next
  <2> QED
    BY <1>3, <2>1, <2>2, <2>3 DEF Shard
<1>4. ASSUME NEW u \in Users, BackgroundDeliver(u)
      PROVE  [Box!Next]_(Box!vars)
  BY <1>4, BoxStutter DEF BackgroundDeliver
<1>5. CASE Stop \/ Terminated \/ UNCHANGED vars
  BY <1>5, BoxStutter DEF Stop, Terminated, vars
<1> QED
  BY <1>1, <1>2, <1>3, <1>4, <1>5 DEF Next

(* Each connection reads, in order and without a gap, what is sent to its
   user from its registration to its end, and is closed cleanly only after
   all of it (all but the payload that found its buffer full).             *)
THEOREM ImplementsMailbox == Spec => MailboxSafety
<1>1. Init => Box!Init
  BY MapInit
<1>2. HubInv /\ HubInv' /\ [Next]_vars => [Box!Next]_(Box!vars)
  BY BoxStep
<1> QED
  BY <1>1, <1>2, Invariance, PTL DEF Spec, MailboxSafety, Box!Spec
=============================================================================
