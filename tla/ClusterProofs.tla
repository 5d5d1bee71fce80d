---------------------------- MODULE ClusterProofs ----------------------------
(* Theorems about Cluster, for any nodes, users, connections and bounds. *)
EXTENDS Cluster, FiniteSetTheorems, FunctionTheorems, TLAPS

(***************************************************************************)
(* Subscriptions: theorems about that module alone.  Nothing here depends  *)
(* on what Cluster adds to it.                                             *)
(***************************************************************************)
LEMMA SubsShape ==
  IsFiniteSet(Clients) /\ UserOf \in [Clients -> Users] /\ MaxFailures \in Nat
  BY SubscriptionsAssumption DEF SubscriptionsAssumption

LEMMA SubsTypeInit == ASSUME Init PROVE TypeOK
<1>1. failures \in 0..MaxFailures
  BY SubsShape DEF Init
<1> QED
  BY <1>1 DEF Init, TypeOK, Step

LEMMA SubsTypeNext ==
  ASSUME TypeOK, [Next]_vars
  PROVE  TypeOK'
<1> USE SubsShape DEF TypeOK, Step, Goto
<1>1. ASSUME NEW c \in Clients, Subscribe(c) \/ RegisterRefused(c) \/ SubscribeCall(c)
      PROVE  TypeOK'
  BY <1>1 DEF Subscribe, RegisterRefused, SubscribeCall
<1>2. ASSUME NEW c \in Clients, SubscribeFails(c) \/ UnsubscribeFails(c)
      PROVE  TypeOK'
  <2>1. failures' \in 0..MaxFailures /\ subscribed' \subseteq Users
    BY <1>2 DEF SubscribeFails, UnsubscribeFails
  <2> QED
    BY <1>2, <2>1 DEF SubscribeFails, UnsubscribeFails
<1>3. ASSUME NEW c \in Clients, SubscribeUndo(c) \/ Unsubscribe(c) PROVE TypeOK'
  <2>1. refs' \in [Users -> Nat]
    BY <1>3 DEF SubscribeUndo, Unsubscribe
  <2>2. step' \in [Clients -> Step]
    BY <1>3 DEF SubscribeUndo, Unsubscribe
  <2> QED
    BY <1>3, <2>1, <2>2 DEF SubscribeUndo, Unsubscribe
<1>4. ASSUME NEW c \in Clients, UnregisterRefused(c) \/ UnsubscribeCall(c)
      PROVE  TypeOK'
  BY <1>4 DEF UnregisterRefused, UnsubscribeCall
<1>5. CASE Stop \/ Terminated \/ UNCHANGED vars
  BY <1>5 DEF Stop, Terminated, vars
<1> QED
  BY <1>1, <1>2, <1>3, <1>4, <1>5 DEF Next, Connection

(* The states of a connection that holds a reference. *)
Holding == {"subscribing", "undo", "open"}

LEMMA HoldersFinite ==
  ASSUME NEW u
  PROVE  IsFiniteSet(Holders(u)) /\ Cardinality(Holders(u)) \in Nat
<1>1. Holders(u) \in SUBSET Clients
  BY DEF Holders, ClientsAt
<1> QED
  BY <1>1, SubsShape, FS_Subset, FS_CardinalityType

LEMMA HolderCounts ==
  ASSUME NEW u, NEW c \in Holders(u)
  PROVE  Cardinality(Holders(u)) >= 1
  BY HoldersFinite, FS_EmptySet

LEMMA HoldersAfter ==
  ASSUME TypeOK, NEW c \in Clients, NEW s, Goto(c, s), NEW u \in Users
  PROVE  /\ u # UserOf[c] => Holders(u)' = Holders(u)
         /\ u = UserOf[c] /\ s \in Holding => Holders(u)' = Holders(u) \cup {c}
         /\ u = UserOf[c] /\ s \notin Holding => Holders(u)' = Holders(u) \ {c}
<1>1. \A d \in Clients : step'[d] = IF d = c THEN s ELSE step[d]
  BY DEF TypeOK, Goto
<1> QED
  BY <1>1 DEF Holders, ClientsAt, Holding

LEMMA CountAfter ==
  ASSUME TypeOK, NEW c \in Clients, NEW s, Goto(c, s),
         NEW u \in Users
  PROVE  /\ u # UserOf[c] \/ (step[c] \in Holding <=> s \in Holding) =>
              Cardinality(Holders(u)') = Cardinality(Holders(u))
         /\ u = UserOf[c] /\ step[c] \notin Holding /\ s \in Holding =>
              Cardinality(Holders(u)') = Cardinality(Holders(u)) + 1
         /\ u = UserOf[c] /\ step[c] \in Holding /\ s \notin Holding =>
              Cardinality(Holders(u)') = Cardinality(Holders(u)) - 1
<1> DEFINE H == Holders(u)
<1>1. u = UserOf[c] => (c \in H <=> step[c] \in Holding)
  BY DEF Holders, ClientsAt, Holding
<1>2. IsFiniteSet(H)
  BY HoldersFinite
<1>3. /\ u # UserOf[c] => H' = H
      /\ u = UserOf[c] /\ s \in Holding => H' = H \cup {c}
      /\ u = UserOf[c] /\ s \notin Holding => H' = H \ {c}
  BY HoldersAfter
<1> HIDE DEF H
<1>4. /\ c \notin H => Cardinality(H \cup {c}) = Cardinality(H) + 1
      /\ c \in H => H \cup {c} = H
  BY <1>2, FS_AddElement
<1>5. /\ c \in H => Cardinality(H \ {c}) = Cardinality(H) - 1
      /\ c \notin H => H \ {c} = H
  BY <1>2, FS_RemoveElement
<1>6. CASE u # UserOf[c]
  BY <1>3, <1>6 DEF H
<1>7. CASE u = UserOf[c] /\ s \in Holding
  BY <1>1, <1>3, <1>4, <1>7 DEF H
<1>8. CASE u = UserOf[c] /\ s \notin Holding
  BY <1>1, <1>3, <1>5, <1>8 DEF H
<1> QED
  BY <1>6, <1>7, <1>8

-----------------------------------------------------------------------------
(***************************************************************************)
(* The inductive invariant.  While nothing has failed, no connection is    *)
(* without its reference, and who keeps a user subscribed is there to see: *)
(* a holder, or the connection whose UNSUBSCRIBE is on its way.            *)
(***************************************************************************)
Counted(u) ==
  /\ refs[u] <= Cardinality(Holders(u))
  /\ failures = 0 =>
       /\ refs[u] = Cardinality(Holders(u))
       /\ ClientsAt(u, {"undo", "bare"}) = {}
       /\ u \in subscribed => Holders(u) # {} \/ ClientsAt(u, {"unsubscribing"}) # {}

SubsInv == ~stopped => \A u \in Users : Counted(u)

LEMMA SubsInvInit == ASSUME Init PROVE SubsInv
<1>1. ASSUME NEW u \in Users
      PROVE  refs[u] = 0 /\ Holders(u) = {} /\ ClientsAt(u, {"undo", "bare"}) = {}
             /\ u \notin subscribed
  BY <1>1 DEF Init, Holders, ClientsAt
<1> QED
  BY <1>1, FS_EmptySet DEF SubsInv, Counted

(* The users of the other connections are not concerned. *)
LEMMA OthersCounted ==
  ASSUME TypeOK, NEW c \in Clients, NEW s, Goto(c, s),
         NEW u \in Users, u # UserOf[c], Counted(u),
         refs'[u] = refs[u], u \in subscribed' <=> u \in subscribed,
         failures' = 0 => failures = 0
  PROVE  Counted(u)'
<1>1. \A d \in Clients : UserOf[d] = u => step'[d] = step[d]
  BY DEF TypeOK, Goto
<1>2. /\ Holders(u)' = Holders(u)
      /\ ClientsAt(u, {"undo", "bare"})' = ClientsAt(u, {"undo", "bare"})
      /\ ClientsAt(u, {"unsubscribing"})' = ClientsAt(u, {"unsubscribing"})
  BY <1>1 DEF Holders, ClientsAt
<1> QED
  BY <1>2 DEF Counted

(* What a step of a connection does to the count of its own user. *)
LEMMA OwnCounted ==
  ASSUME TypeOK, NEW c \in Clients, Connection(c), ~stopped, Counted(UserOf[c])
  PROVE  Counted(UserOf[c])'
<1> DEFINE u == UserOf[c]
           N == Cardinality(Holders(u))
<1> USE DEF Holding
<1>1. /\ u \in Users /\ refs[u] \in Nat /\ N \in Nat /\ failures \in Nat
      /\ step[c] \in Holding => N >= 1
      /\ \A x : refs' = [refs EXCEPT ![u] = x] => refs'[u] = x
  <2>1. u \in Users
    BY SubsShape
  <2> PICK K : K = Users
    OBVIOUS
  <2>2. refs \in [K -> Nat] /\ u \in K
    BY <2>1 DEF TypeOK
  <2>3. refs[u] \in Nat /\ \A x : refs' = [refs EXCEPT ![u] = x] => refs'[u] = x
    BY <2>2
  <2>4. N \in Nat /\ (step[c] \in Holding => N >= 1)
    BY HoldersFinite, HolderCounts DEF Holders, ClientsAt
  <2>5. failures \in Nat
    BY SubsShape DEF TypeOK
  <2> QED
    BY <2>1, <2>3, <2>4, <2>5
<1>2. ASSUME NEW s, Goto(c, s)
      PROVE  /\ step'[c] = s
             /\ s \in Holding => c \in Holders(u)'
             /\ s = "unsubscribing" => c \in ClientsAt(u, {"unsubscribing"})'
             /\ s # "undo" /\ s # "bare" /\ ClientsAt(u, {"undo", "bare"}) = {}
                  => ClientsAt(u, {"undo", "bare"})' = {}
             /\ step[c] # "unsubscribing" /\ ClientsAt(u, {"unsubscribing"}) # {}
                  => ClientsAt(u, {"unsubscribing"})' # {}
  BY <1>2 DEF TypeOK, Goto, Holders, ClientsAt
<1>3. CASE Subscribe(c)
  <2> PICK s \in {"subscribing", "open"} : Goto(c, s)
    BY <1>3 DEF Subscribe
  <2>1. /\ Cardinality(Holders(u)') = N + 1
        /\ refs'[u] = refs[u] + 1
        /\ UNCHANGED <<subscribed, failures>>
    BY <1>1, <1>3, CountAfter DEF Subscribe
  <2> QED
    BY <1>1, <1>2, <2>1 DEF Counted
<1>4. CASE SubscribeCall(c)
  <2>1. Cardinality(Holders(u)') = N
    BY <1>1, <1>4, CountAfter DEF SubscribeCall
  <2> QED
    BY <1>1, <1>2, <1>4, <2>1 DEF SubscribeCall, Counted
<1>5. CASE SubscribeFails(c) \/ UnsubscribeFails(c)
  <2>1. Cardinality(Holders(u)') = N /\ UNCHANGED refs /\ failures' # 0
    BY <1>1, <1>5, CountAfter DEF SubscribeFails, UnsubscribeFails
  <2> QED
    BY <1>1, <2>1 DEF Counted
<1>6. CASE SubscribeUndo(c)
  <2>1. /\ failures # 0 /\ UNCHANGED failures
        /\ N >= 1 /\ Cardinality(Holders(u)') = N - 1
        /\ refs'[u] = IF refs[u] > 1 THEN refs[u] - 1 ELSE 0
    <3>1. c \in ClientsAt(u, {"undo", "bare"})
      BY <1>6 DEF SubscribeUndo, ClientsAt
    <3>2. failures # 0 /\ UNCHANGED failures
      BY <1>6, <3>1 DEF SubscribeUndo, Counted
    <3>3. N >= 1 /\ Cardinality(Holders(u)') = N - 1
      BY <1>1, <1>6, CountAfter DEF SubscribeUndo
    <3>4. refs'[u] = IF refs[u] > 1 THEN refs[u] - 1 ELSE 0
      BY <1>1, <1>6 DEF SubscribeUndo
    <3> QED
      BY <3>2, <3>3, <3>4
  <2> QED
    BY <1>1, <2>1 DEF Counted
<1>7. CASE Unsubscribe(c)
  <2> PICK s \in {"closed", "unsubscribing"} :
        /\ Goto(c, s)
        /\ \/ refs[u] = 0 /\ s = "closed" /\ UNCHANGED refs
           \/ /\ refs[u] # 0 /\ refs' = [refs EXCEPT ![u] = refs[u] - 1]
              /\ s = "unsubscribing" <=> refs[u] = 1
    BY <1>1, <1>7 DEF Unsubscribe
  <2>1. UNCHANGED <<subscribed, failures>> /\ step[c] \in {"open", "bare"}
    BY <1>7 DEF Unsubscribe
  <2>2. CASE step[c] = "open"
    <3>1. N >= 1 /\ Cardinality(Holders(u)') = N - 1
      BY <1>1, <2>2, CountAfter
    <3>2. refs'[u] <= N - 1 /\ (failures = 0 => refs'[u] = N - 1)
      BY <1>1, <3>1 DEF Counted
    <3>3. failures = 0 /\ s = "closed" => Holders(u)' # {}
      <4>1. failures = 0 /\ s = "closed" => Cardinality(Holders(u)') # 0
        BY <1>1, <3>1 DEF Counted
      <4> QED
        BY <4>1, FS_EmptySet
    <3> QED
      BY <1>2, <2>1, <3>1, <3>2, <3>3 DEF Counted
  <2>3. CASE step[c] = "bare"
    <3>1. Cardinality(Holders(u)') = N /\ refs'[u] <= refs[u]
      BY <1>1, <2>3, CountAfter
    <3>2. failures # 0
      BY <2>3 DEF Counted, ClientsAt
    <3> QED
      BY <1>1, <2>1, <3>1, <3>2 DEF Counted, TypeOK
  <2> QED
    BY <2>1, <2>2, <2>3
<1>8. CASE UnsubscribeCall(c)
  <2>1. Cardinality(Holders(u)') = N
    BY <1>1, <1>8, CountAfter DEF UnsubscribeCall
  <2> QED
    BY <1>1, <1>2, <1>8, <2>1 DEF UnsubscribeCall, Counted
<1> QED
  BY <1>3, <1>4, <1>5, <1>6, <1>7, <1>8
     DEF Connection, RegisterRefused, UnregisterRefused

LEMMA SubsInvNext ==
  ASSUME TypeOK, SubsInv, [Next]_vars
  PROVE  SubsInv'
<1>1. ASSUME NEW c \in Clients, Connection(c), ~stopped' PROVE SubsInv'
  <2>1. ~stopped /\ \A u \in Users : Counted(u)
    BY <1>1 DEF SubsInv, Connection, Subscribe, SubscribeCall, SubscribeFails,
       SubscribeUndo, Unsubscribe, UnsubscribeCall, UnsubscribeFails,
       RegisterRefused, UnregisterRefused
  <2>2. ASSUME NEW u \in Users, u # UserOf[c] PROVE Counted(u)'
    <3>1. PICK s : Goto(c, s)
      BY <1>1 DEF Connection, Subscribe, SubscribeCall, SubscribeFails,
         SubscribeUndo, Unsubscribe, UnsubscribeCall, UnsubscribeFails,
         RegisterRefused, UnregisterRefused
    <3>2. refs'[u] = refs[u]
      BY <1>1, <2>2 DEF Connection, Subscribe, SubscribeCall, SubscribeFails,
         SubscribeUndo, Unsubscribe, UnsubscribeCall, UnsubscribeFails,
         RegisterRefused, UnregisterRefused, TypeOK
    <3>3. /\ u \in subscribed' <=> u \in subscribed
          /\ failures' = 0 => failures = 0
      BY <1>1, <2>2 DEF Connection, Subscribe, SubscribeCall, SubscribeFails,
         SubscribeUndo, Unsubscribe, UnsubscribeCall, UnsubscribeFails,
         RegisterRefused, UnregisterRefused, TypeOK
    <3> QED
      BY <2>1, <2>2, <3>1, <3>2, <3>3, OthersCounted
  <2>3. Counted(UserOf[c])'
    BY <1>1, <2>1, OwnCounted, SubsShape
  <2> QED
    BY <2>2, <2>3 DEF SubsInv
<1>2. ASSUME Terminated \/ UNCHANGED vars, ~stopped' PROVE SubsInv'
  BY <1>2 DEF Terminated, vars, SubsInv, Counted, Holders, ClientsAt
<1>3. Stop => stopped'
  BY DEF Stop
<1> QED
  BY <1>1, <1>2, <1>3 DEF Next, SubsInv

LEMMA SubsInvariance == Spec => [](TypeOK /\ SubsInv)
<1>1. Init => TypeOK /\ SubsInv
  BY SubsTypeInit, SubsInvInit
<1>2. TypeOK /\ SubsInv /\ [Next]_vars => TypeOK' /\ SubsInv'
  BY SubsTypeNext, SubsInvNext
<1> QED
  BY <1>1, <1>2, PTL DEF Spec

LEMMA SubsInvMeans == SubsInv => RefsCountHolders /\ NoLeak
<1>1. SubsInv => RefsCountHolders
  BY DEF SubsInv, Counted, RefsCountHolders
<1>2. SubsInv => NoLeak
  <2> SUFFICES ASSUME SubsInv, failures = 0, ~stopped,
                      NEW u \in Users, Quiet(u), Holders(u) = {}
               PROVE  u \notin subscribed
    BY DEF NoLeak
  <2>1. ClientsAt(u, {"unsubscribing"}) = {}
    BY DEF Quiet, ClientsAt
  <2> QED
    BY <2>1 DEF SubsInv, Counted
<1> QED
  BY <1>1, <1>2

(* No reference count of Subscriptions is ever negative, and every variable
   keeps its type.                                                         *)
THEOREM SubscriptionsType == Spec => []TypeOK
  BY SubsInvariance, PTL

(* While Redis answers, the count is the number of connections that hold a
   reference; failures only lower it.                                      *)
THEOREM CountsAreHolders == Spec => []RefsCountHolders
  BY SubsInvMeans, SubsInvariance, PTL

(* While Redis answers, no subscription is left behind, in whatever order
   the calls made outside the mutex reach Redis.                           *)
THEOREM NothingLeftSubscribed == Spec => []NoLeak
  BY SubsInvMeans, SubsInvariance, PTL

-----------------------------------------------------------------------------
(***************************************************************************)
(* Cluster.                                                                *)
(***************************************************************************)
LEMMA Shape ==
  /\ UserOf \in [Clients -> Users] /\ Senders \subseteq Clients
  /\ PeerOf \in [People -> People] /\ \A u \in People : PeerOf[u] # u
  /\ MaxSends \in Nat /\ MaxFailures \in Nat /\ MaxRetries \in Nat
  /\ \A c \in Clients : NodeAt(c) \in Nodes /\ UserAt(c) \in People
                        /\ UserOf[c] = <<NodeAt(c), UserAt(c)>>
<1>1. /\ Users = Nodes \X People /\ Senders \subseteq Clients
      /\ PeerOf \in [People -> People] /\ \A u \in People : PeerOf[u] # u
      /\ MaxSends \in Nat /\ MaxRetries \in Nat
  BY ClusterAssumption DEF ClusterAssumption
<1> QED
  BY <1>1, SubsShape DEF NodeAt, UserAt

(***************************************************************************)
(* Queues.                                                                 *)
(***************************************************************************)
LEMMA AppendFacts ==
  ASSUME NEW D, NEW q \in Seq(D), NEW e \in D
  PROVE  /\ Append(q, e) \in Seq(D) /\ Len(Append(q, e)) = Len(q) + 1
         /\ DOMAIN Append(q, e) = 1..(Len(q) + 1) /\ DOMAIN q = 1..Len(q)
         /\ \A i \in DOMAIN q : Append(q, e)[i] = q[i]
         /\ Append(q, e)[Len(q) + 1] = e
         /\ ToSet(Append(q, e)) = ToSet(q) \cup {e}
  BY DEF ToSet

LEMMA TailFacts ==
  ASSUME NEW D, NEW q \in Seq(D), q # <<>>
  PROVE  /\ Head(q) \in D /\ Head(q) = q[1] /\ 1 \in DOMAIN q /\ Head(q) \in ToSet(q)
         /\ Tail(q) \in Seq(D) /\ Len(Tail(q)) = Len(q) - 1
         /\ \A i \in DOMAIN Tail(q) : i + 1 \in DOMAIN q /\ Tail(q)[i] = q[i + 1]
         /\ \A i \in DOMAIN q : i # 1 => i - 1 \in DOMAIN Tail(q)
         /\ ToSet(q) = ToSet(Tail(q)) \cup {Head(q)}
<1>1. /\ Head(q) \in D /\ Head(q) = q[1] /\ 1 \in DOMAIN q
      /\ Tail(q) \in Seq(D) /\ Len(Tail(q)) = Len(q) - 1
      /\ \A i \in DOMAIN Tail(q) : i + 1 \in DOMAIN q /\ Tail(q)[i] = q[i + 1]
      /\ \A i \in DOMAIN q : i # 1 => i - 1 \in DOMAIN Tail(q)
  OBVIOUS
<1>2. \A i \in DOMAIN q : i # 1 => q[i] = Tail(q)[i - 1]
  OBVIOUS
<1>3. ToSet(Tail(q)) \cup {Head(q)} \subseteq ToSet(q)
  BY <1>1 DEF ToSet
<1>4. ToSet(q) \subseteq ToSet(Tail(q)) \cup {Head(q)}
  <2> SUFFICES ASSUME NEW i \in DOMAIN q PROVE q[i] \in ToSet(Tail(q)) \cup {Head(q)}
    BY DEF ToSet
  <2>1. CASE i = 1
    BY <1>1, <2>1
  <2>2. CASE i # 1
    BY <1>1, <1>2, <2>2 DEF ToSet
  <2> QED
    BY <2>1, <2>2
<1> QED
  BY <1>1, <1>3, <1>4

(* What is left of a queue that lost some: the rest, in its order. *)
Thinned(q, r) == \E f \in [DOMAIN r -> DOMAIN q] :
  /\ \A i \in DOMAIN r : r[i] = q[f[i]]
  /\ \A i, j \in DOMAIN r : i < j => f[i] < f[j]

LEMMA LossThins ==
  ASSUME NEW D, NEW q \in Seq(D), NEW k \in 1..Len(q),
         NEW r \in {SubSeq(q, 1, k - 1), RemoveAt(q, k)}
  PROVE  r \in Seq(D) /\ Thinned(q, r)
<1>1. CASE r = SubSeq(q, 1, k - 1)
  <2>1. /\ r \in Seq(D) /\ DOMAIN r \subseteq DOMAIN q
        /\ \A i \in DOMAIN r : r[i] = q[i]
    BY <1>1
  <2> DEFINE f == [i \in DOMAIN r |-> i]
  <2>2. f \in [DOMAIN r -> DOMAIN q]
    BY <2>1
  <2>3. \A i \in DOMAIN r : f[i] = i
    OBVIOUS
  <2> HIDE DEF f
  <2> QED
    BY <2>1, <2>2, <2>3 DEF Thinned
<1>2. CASE r = RemoveAt(q, k)
  <2> DEFINE a == SubSeq(q, 1, k - 1)
             b == SubSeq(q, k + 1, Len(q))
             f == [i \in DOMAIN r |-> IF i < k THEN i ELSE i + 1]
  <2>1. /\ a \in Seq(D) /\ Len(a) = k - 1 /\ \A i \in 1..(k - 1) : a[i] = q[i]
        /\ b \in Seq(D) /\ Len(b) = Len(q) - k
        /\ \A i \in 1..(Len(q) - k) : b[i] = q[i + k]
    OBVIOUS
  <2>2. r = a \o b
    BY <1>2 DEF RemoveAt
  <2> HIDE DEF a, b
  <2>3. r \in Seq(D) /\ Len(r) = Len(q) - 1 /\ DOMAIN r = 1..(Len(q) - 1)
        /\ DOMAIN q = 1..Len(q) /\ Len(q) \in Nat
    BY <2>1, <2>2
  <2>4. ASSUME NEW i \in DOMAIN r PROVE f[i] \in DOMAIN q /\ r[i] = q[f[i]]
    <3>1. CASE i < k
      BY <2>1, <2>2, <2>3, <3>1
    <3>2. CASE ~(i < k)
      <4>1. i - (k - 1) \in 1..(Len(q) - k) /\ r[i] = b[i - (k - 1)]
        BY <2>1, <2>2, <2>3, <3>2
      <4> PICK t \in 1..(Len(q) - k) : t = i - (k - 1)
        BY <4>1
      <4>2. b[t] = q[t + k]
        BY <2>1
      <4>3. i \in Int /\ k \in Int /\ t \in Int
        BY <2>3
      <4>4. t + k = i + 1
        BY <4>3
      <4> QED
        BY <2>3, <3>2, <4>1, <4>2, <4>4
    <3> QED
      BY <3>1, <3>2
  <2>5. \A i, j \in DOMAIN r : i < j => f[i] < f[j]
    BY <2>3
  <2>6. f \in [DOMAIN r -> DOMAIN q]
    BY <2>4
  <2> HIDE DEF f
  <2> QED
    BY <2>3, <2>4, <2>5, <2>6 DEF Thinned
<1> QED
  BY <1>1, <1>2

LEMMA ThinnedSet ==
  ASSUME NEW q, NEW r, Thinned(q, r)
  PROVE  ToSet(r) \subseteq ToSet(q)
BY DEF Thinned, ToSet

(***************************************************************************)
(* Types, and the life of a connection.                                    *)
(***************************************************************************)

(* A connection is registered before it sends, and joins only once: what
   it left behind in the queues never reaches it again.                    *)
Lives(c) ==
  /\ c \in joined => step[c] \in {"out", "subscribing", "undo", "open", "bare"}
  /\ step[c] \in {"out", "subscribing", "undo"} => sent[c] = 0
  /\ task[c] # "idle" => c \in joined /\ c \in Senders /\ sent[c] \in 1..MaxSends
  /\ c \notin joined => got[c] = <<>> /\ due[c] = {}

(* No queue holds a message that was not sent yet. *)
Real(q) == \A d \in ToSet(q) : d.msg[2] <= sent[d.msg[1]]

(* A PUBLISH without an answer was of a message that was sent. *)
Tried(d) ==
  /\ late[d] <= tries[d]
  /\ tries[d] > 0 => d.kind = "message" /\ d.msg[2] <= sent[d.msg[1]]

BaseInv ==
  /\ ClusterTypeOK
  /\ \A c \in Clients : Lives(c) /\ Real(got[c])
  /\ \A n \in Nodes : Real(relay[n]) /\ Real(out[n])
  /\ \A d \in Delivery : Tried(d)

LEMMA BaseInit == ASSUME ClusterInit PROVE BaseInv
<1>1. 0 \in 0..MaxFailures /\ 0 \in 0..MaxSends /\ 0 \in 0..(MaxRetries + 1)
  BY Shape
<1>2. TypeOK
  BY <1>1 DEF ClusterInit, Init, TypeOK, Step
<1>3. ClusterTypeOK
  BY <1>1, <1>2 DEF ClusterInit, ClusterTypeOK, Task
<1>4. \A c \in Clients : Lives(c) /\ Real(got[c])
  BY DEF ClusterInit, Init, Lives, Real, ToSet
<1>5. \A n \in Nodes : Real(relay[n]) /\ Real(out[n])
  BY DEF ClusterInit, Real, ToSet
<1>6. \A d \in Delivery : Tried(d)
  BY DEF ClusterInit, Tried
<1> QED
  BY <1>3, <1>4, <1>5, <1>6 DEF BaseInv

(* What the model of the subscriptions does to its own state. *)
SubsStep(c) ==
  \/ c \in joined /\ (Subscribe(c) \/ SubscribeCall(c)
                       \/ SubscribeFails(c) \/ SubscribeUndo(c))
  \/ c \notin joined /\ (Unsubscribe(c) \/ UnsubscribeCall(c)
                          \/ UnsubscribeFails(c))

(* Where a connection goes between its calls. *)
LEMMA SubsMoves ==
  ASSUME TypeOK, NEW c \in Clients, SubsStep(c)
  PROVE  /\ c \in joined => step[c] \in {"out", "subscribing", "undo"}
              /\ step'[c] \in {"subscribing", "undo", "open", "bare"}
         /\ c \notin joined => step[c] \in {"open", "bare", "unsubscribing"}
              /\ step'[c] \in {"unsubscribing", "closed"}
         /\ \A d \in Clients \ {c} : step'[d] = step[d]
         /\ failures' \in {failures, failures + 1}
<1> USE DEF TypeOK, Step, Goto
<1>1. CASE Subscribe(c) \/ SubscribeCall(c) \/ SubscribeFails(c) \/ SubscribeUndo(c)
  BY <1>1 DEF SubsStep, Subscribe, SubscribeCall, SubscribeFails, SubscribeUndo,
     Unsubscribe, UnsubscribeCall, UnsubscribeFails
<1>2. CASE Unsubscribe(c) \/ UnsubscribeCall(c) \/ UnsubscribeFails(c)
  BY <1>2 DEF SubsStep, Unsubscribe, UnsubscribeCall, UnsubscribeFails,
     Subscribe, SubscribeCall, SubscribeFails, SubscribeUndo
<1> QED
  BY <1>1, <1>2 DEF SubsStep

-----------------------------------------------------------------------------
(* What the handler of c is sending. *)
LEMMA CopyFacts ==
  ASSUME BaseInv, NEW c \in Clients, task[c] # "idle"
  PROVE  /\ c \in Senders /\ c \in joined /\ sent[c] \in 1..MaxSends
         /\ Current(c) \in Messages /\ Current(c)[1] = c /\ Current(c)[2] = sent[c]
         /\ Target(c) \in People
         /\ Copy(c) \in Delivery /\ Copy(c).kind = "message"
         /\ Copy(c).user = Target(c) /\ Copy(c).msg = Current(c)
<1>1. c \in Senders /\ c \in joined /\ sent[c] \in 1..MaxSends
  BY DEF BaseInv, Lives
<1>2. Current(c) \in Messages /\ Current(c)[1] = c /\ Current(c)[2] = sent[c]
  BY <1>1 DEF Current, Messages
<1>3. Target(c) \in People
  BY Shape DEF Target
<1> QED
  BY <1>1, <1>2, <1>3 DEF Copy, CopyFor, Delivery

LEMMA DeliveryFacts ==
  ASSUME NEW d \in Delivery
  PROVE  /\ d.user \in People /\ d.kind \in {"ack", "message"} /\ d.msg \in Messages
         /\ d.msg[1] \in Senders /\ d.msg[1] \in Clients
         /\ d.msg[2] \in 1..MaxSends /\ d.msg[2] \in Nat
         /\ d.msg = <<d.msg[1], d.msg[2]>>
  BY Shape DEF Delivery, Messages

LEMMA QueueTypes ==
  ASSUME BaseInv
  PROVE  /\ \A n \in Nodes : relay[n] \in Seq(Delivery) /\ out[n] \in Seq(Delivery)
         /\ \A c \in Clients : /\ got[c] \in Seq(Delivery) /\ sent[c] \in 0..MaxSends
                               /\ sent[c] \in Nat
         /\ relay \in [Nodes -> Seq(Delivery)] /\ out \in [Nodes -> Seq(Delivery)]
         /\ got \in [Clients -> Seq(Delivery)] /\ sent \in [Clients -> 0..MaxSends]
         /\ \A n \in Nodes : ToSet(relay[n]) \subseteq Delivery
                             /\ ToSet(out[n]) \subseteq Delivery
         /\ \A c \in Clients : ToSet(got[c]) \subseteq Delivery
<1>1. /\ relay \in [Nodes -> Seq(Delivery)] /\ out \in [Nodes -> Seq(Delivery)]
      /\ got \in [Clients -> Seq(Delivery)] /\ sent \in [Clients -> 0..MaxSends]
  BY DEF BaseInv, ClusterTypeOK
<1>2. \A q \in Seq(Delivery) : ToSet(q) \subseteq Delivery
  BY DEF ToSet
<1>3. \A c \in Clients : sent[c] \in 0..MaxSends /\ sent[c] \in Nat
  BY <1>1, Shape
<1> QED
  BY <1>1, <1>2, <1>3

(* A queue after a step in which no count of messages sent went down. *)
RealAfter(q) == \A d \in ToSet(q) : d.msg[2] <= sent'[d.msg[1]]
SentGrows == \A s \in Clients : sent'[s] \in Nat /\ sent'[s] >= sent[s]

LEMMA RealKept ==
  ASSUME BaseInv, NEW q \in Seq(Delivery), Real(q), SentGrows,
         NEW r, ToSet(r) \subseteq ToSet(q)
  PROVE  RealAfter(r)
<1> SUFFICES ASSUME NEW d \in ToSet(r) PROVE d.msg[2] <= sent'[d.msg[1]]
  BY DEF RealAfter
<1>1. d \in Delivery /\ d.msg[2] <= sent[d.msg[1]]
  BY DEF Real, ToSet
<1>2. d.msg[1] \in Clients /\ d.msg[2] \in Nat
  BY <1>1, DeliveryFacts
<1> QED
  BY <1>1, <1>2, QueueTypes DEF SentGrows

LEMMA RealAppended ==
  ASSUME BaseInv, NEW q \in Seq(Delivery), Real(q), SentGrows,
         NEW e \in Delivery, e.msg[2] <= sent'[e.msg[1]]
  PROVE  RealAfter(Append(q, e))
<1>1. RealAfter(q)
  BY RealKept
<1>2. ToSet(Append(q, e)) = ToSet(q) \cup {e}
  BY AppendFacts
<1> QED
  BY <1>1, <1>2 DEF RealAfter

LEMMA SentSame == ASSUME BaseInv, sent' = sent PROVE SentGrows
  BY QueueTypes DEF SentGrows

(* How the base of the invariant is put together again. *)
LEMMA BaseStep ==
  ASSUME ClusterTypeOK', \A c \in Clients : Lives(c)' /\ RealAfter(got'[c]),
         \A n \in Nodes : RealAfter(relay'[n]) /\ RealAfter(out'[n]),
         \A d \in Delivery : Tried(d)'
  PROVE  BaseInv'
BY DEF BaseInv, Real, RealAfter

LEMMA TriedKept ==
  ASSUME BaseInv, SentGrows, UNCHANGED <<tries, late>>
  PROVE  \A d \in Delivery : Tried(d)'
<1> SUFFICES ASSUME NEW d \in Delivery PROVE Tried(d)'
  OBVIOUS
<1>1. /\ Tried(d) /\ d.msg[1] \in Clients /\ d.msg[2] \in Nat
      /\ sent[d.msg[1]] \in Nat /\ sent'[d.msg[1]] \in Nat
      /\ sent'[d.msg[1]] >= sent[d.msg[1]]
  BY DeliveryFacts, QueueTypes DEF BaseInv, SentGrows
<1> QED
  BY <1>1 DEF Tried

LEMMA QuietReal ==
  ASSUME BaseInv, sent' = sent
  PROVE  /\ \A c \in Clients : RealAfter(got[c])
         /\ \A n \in Nodes : RealAfter(relay[n]) /\ RealAfter(out[n])
         /\ UNCHANGED <<tries, late>> => \A d \in Delivery : Tried(d)'
<1>1. SentGrows
  BY SentSame
<1> QED
  BY <1>1, QueueTypes, RealKept, TriedKept DEF BaseInv

LEMMA BaseJoin == ASSUME BaseInv, NEW c \in Clients, Join(c) PROVE BaseInv'
<1>1. /\ step[c] = "out" /\ c \notin joined /\ joined' = joined \cup {c}
      /\ UNCHANGED <<refs, subscribed, step, stopped, failures, task, sent, tries,
                     late, relay, out, got, due, losses>>
  BY DEF Join, subs, flow, calls
<1>2. ClusterTypeOK'
  BY <1>1 DEF BaseInv, ClusterTypeOK, TypeOK
<1>3. \A d \in Clients : Lives(d)'
  BY <1>1 DEF BaseInv, Lives
<1> QED
  BY <1>1, <1>2, <1>3, QuietReal, BaseStep

LEMMA BaseLeave == ASSUME BaseInv, NEW c \in Clients, Leave(c) PROVE BaseInv'
<1>1. /\ step[c] \in {"open", "bare"} /\ task[c] = "idle" /\ joined' = joined \ {c}
      /\ got' = [got EXCEPT ![c] = <<>>] /\ due' = [due EXCEPT ![c] = {}]
      /\ UNCHANGED <<refs, subscribed, step, stopped, failures, task, sent, tries,
                     late, relay, out, losses>>
  BY DEF Leave, subs, calls
<1>2. ClusterTypeOK'
  BY <1>1 DEF BaseInv, ClusterTypeOK, TypeOK
<1>3. /\ got'[c] = <<>> /\ due'[c] = {}
      /\ \A d \in Clients \ {c} : got'[d] = got[d] /\ due'[d] = due[d]
  BY <1>1 DEF BaseInv, ClusterTypeOK
<1>4. \A d \in Clients : Lives(d)'
  BY <1>1, <1>3 DEF BaseInv, Lives
<1>5. RealAfter(<<>>)
  BY DEF RealAfter, ToSet
<1>6. \A d \in Clients : RealAfter(got'[d])
  BY <1>1, <1>3, <1>5, QuietReal
<1> QED
  BY <1>1, <1>2, <1>4, <1>6, QuietReal, BaseStep

LEMMA SubsType ==
  ASSUME TypeOK, NEW c \in Clients, SubsStep(c)
  PROVE  TypeOK'
  BY SubsTypeNext DEF SubsStep, Next, Connection

LEMMA BaseResubscribe ==
  ASSUME BaseInv, NEW c \in Clients, Resubscribe(c)
  PROVE  BaseInv'
<1>1. /\ SubsStep(c)
      /\ UNCHANGED <<joined, task, sent, tries, late, relay, out, got, due, losses>>
  BY DEF Resubscribe, SubsStep, flow, calls
<1>2. TypeOK
  BY DEF BaseInv, ClusterTypeOK
<1>3. ClusterTypeOK'
  BY <1>1, <1>2, SubsType DEF BaseInv, ClusterTypeOK
<1>4. \A d \in Clients : Lives(d)'
  BY <1>1, <1>2, SubsMoves DEF BaseInv, Lives
<1> QED
  BY <1>1, <1>3, <1>4, QuietReal, BaseStep

-----------------------------------------------------------------------------
(* What the steps of the handler and of the queues do, point by point. *)
Ack(c) == [user |-> UserAt(c), kind |-> "ack", msg |-> <<c, sent[c] + 1>>]

LEMMA AcceptEffect ==
  ASSUME BaseInv, NEW c \in Senders, Accept(c)
  PROVE  /\ c \in Clients /\ c \in joined /\ task[c] = "idle"
         /\ step[c] \in {"open", "bare"} /\ sent[c] + 1 \in 1..MaxSends
         /\ Ack(c) \in Delivery
         /\ \A d \in Clients : sent'[d] = IF d = c THEN sent[d] + 1 ELSE sent[d]
         /\ sent' \in [Clients -> 0..MaxSends]
         /\ \A n \in Nodes :
              out'[n] = IF n = NodeAt(c) THEN Append(out[n], Ack(c)) ELSE out[n]
         /\ out' \in [Nodes -> Seq(Delivery)]
         /\ \A d \in Clients : task'[d] = IF d = c THEN "to" ELSE task[d]
         /\ task' \in [Clients -> Task]
         /\ UNCHANGED <<refs, subscribed, step, stopped, failures, joined, tries,
                        late, relay, got, due, losses>>
<1>1. /\ c \in Clients /\ c \in joined /\ task[c] = "idle" /\ sent[c] < MaxSends
      /\ step[c] \in {"open", "bare"}
      /\ sent' = [sent EXCEPT ![c] = @ + 1]
      /\ out' = [out EXCEPT ![NodeAt(c)] = Append(@, Ack(c))]
      /\ task' = [task EXCEPT ![c] = "to"]
      /\ UNCHANGED <<refs, subscribed, step, stopped, failures, joined, tries,
                     late, relay, got, due, losses>>
  BY Shape DEF Accept, subs, calls, Ack
<1>2. sent[c] + 1 \in 1..MaxSends /\ sent[c] + 1 \in 0..MaxSends
  BY <1>1, QueueTypes, Shape
<1>3. Ack(c) \in Delivery
  BY <1>1, <1>2, Shape DEF Ack, Delivery, Messages
<1> HIDE DEF Ack
<1>4. /\ \A d \in Clients : sent'[d] = IF d = c THEN sent[d] + 1 ELSE sent[d]
      /\ sent' \in [Clients -> 0..MaxSends]
  BY <1>1, <1>2, QueueTypes
<1>5. Append(out[NodeAt(c)], Ack(c)) \in Seq(Delivery) /\ NodeAt(c) \in Nodes
  BY <1>1, <1>3, Shape, QueueTypes, AppendFacts
<1>6. /\ \A n \in Nodes :
           out'[n] = IF n = NodeAt(c) THEN Append(out[n], Ack(c)) ELSE out[n]
      /\ out' \in [Nodes -> Seq(Delivery)]
  BY <1>1, <1>5, QueueTypes
<1>7. /\ \A d \in Clients : task'[d] = IF d = c THEN "to" ELSE task[d]
      /\ task' \in [Clients -> Task]
  BY <1>1 DEF BaseInv, ClusterTypeOK, Task
<1> QED
  BY <1>1, <1>2, <1>3, <1>4, <1>6, <1>7

(* What Redis carries out reaches the nodes that are subscribed. *)
LEMMA RelayedEffect ==
  ASSUME BaseInv, NEW d \in Delivery, relay' = Relayed(d)
  PROVE  /\ relay' \in [Nodes -> Seq(Delivery)]
         /\ \A n \in Nodes : /\ relay'[n] \in {relay[n], Append(relay[n], d)}
                             /\ <<n, d.user>> \in subscribed =>
                                  relay'[n] = Append(relay[n], d)
         /\ \A n \in Nodes : ToSet(relay'[n]) \subseteq ToSet(relay[n]) \cup {d}
         /\ \A n \in Nodes : ToSet(relay[n]) \subseteq ToSet(relay'[n])
<1>1. \A n \in Nodes : /\ relay[n] \in Seq(Delivery) /\ Append(relay[n], d) \in Seq(Delivery)
                       /\ ToSet(Append(relay[n], d)) = ToSet(relay[n]) \cup {d}
  BY QueueTypes, AppendFacts
<1>2. \A n \in Nodes : relay'[n] = IF <<n, d.user>> \in subscribed
                                     THEN Append(relay[n], d) ELSE relay[n]
  BY DEF Relayed
<1>3. relay' \in [Nodes -> Seq(Delivery)]
  BY <1>1 DEF Relayed
<1> QED
  BY <1>1, <1>2, <1>3

(* A PUBLISH that is not answered counts as tried, and may come later. *)
LEMMA NoAnswerEffect ==
  ASSUME BaseInv, NEW c \in Clients, task[c] # "idle", NoAnswer(c) \/ UNCHANGED calls
  PROVE  /\ {tries, late}' \subseteq [Delivery -> 0..(MaxRetries + 1)]
         /\ \A d \in Delivery : /\ tries[d] \in Nat /\ late[d] \in Nat
                                /\ \/ tries'[d] = tries[d] /\ late'[d] = late[d]
                                   \/ /\ d = Copy(c) /\ tries'[d] = tries[d] + 1
                                      /\ late'[d] = late[d] + 1
         /\ sent' = sent => \A d \in Delivery : Tried(d)'
<1> DEFINE e == Copy(c)
<1>1. /\ tries \in [Delivery -> 0..(MaxRetries + 1)] /\ late \in [Delivery -> 0..(MaxRetries + 1)]
      /\ MaxRetries \in Nat /\ \A d \in Delivery : Tried(d)
  BY Shape DEF BaseInv, ClusterTypeOK
<1>2. e \in Delivery /\ e.kind = "message" /\ e.msg[2] <= sent[e.msg[1]]
  BY CopyFacts, QueueTypes
<1>3. \/ UNCHANGED <<tries, late>>
      \/ /\ tries[e] <= MaxRetries
         /\ tries' = [tries EXCEPT ![e] = @ + 1] /\ late' = [late EXCEPT ![e] = @ + 1]
  BY DEF NoAnswer, calls
<1> HIDE DEF e
<1>4. \A d \in Delivery : tries[d] \in Nat /\ late[d] \in Nat /\ late[d] <= tries[d]
  BY <1>1 DEF Tried
<1>5. CASE UNCHANGED <<tries, late>>
  BY <1>1, <1>4, <1>5 DEF Tried
<1>6. CASE /\ tries[e] <= MaxRetries
           /\ tries' = [tries EXCEPT ![e] = @ + 1] /\ late' = [late EXCEPT ![e] = @ + 1]
  <2>1. tries[e] + 1 \in 0..(MaxRetries + 1) /\ late[e] + 1 \in 0..(MaxRetries + 1)
    BY <1>1, <1>2, <1>4, <1>6
  <2>2. /\ tries' \in [Delivery -> 0..(MaxRetries + 1)]
        /\ late' \in [Delivery -> 0..(MaxRetries + 1)]
        /\ \A d \in Delivery : /\ tries'[d] = IF d = e THEN tries[d] + 1 ELSE tries[d]
                               /\ late'[d] = IF d = e THEN late[d] + 1 ELSE late[d]
    BY <1>1, <1>6, <2>1
  <2>3. ASSUME sent' = sent, NEW d \in Delivery PROVE Tried(d)'
    BY <1>1, <1>2, <1>4, <2>2, <2>3 DEF Tried
  <2> QED
    BY <1>4, <2>2, <2>3 DEF e
<1> QED
  BY <1>3, <1>5, <1>6

LEMMA UnansweredEffect ==
  ASSUME NEW c \in Senders, Unanswered(c)
  PROVE  /\ c \in Clients /\ task[c] # "idle" /\ NoAnswer(c)
         /\ UNCHANGED <<refs, subscribed, step, stopped, failures, joined, task, sent,
                        relay, out, got, due, losses>>
BY Shape DEF Unanswered, subs

LEMMA LateEffect ==
  ASSUME BaseInv, NEW d \in Delivery, Late(d)
  PROVE  /\ late[d] > 0 /\ relay' = Relayed(d)
         /\ tries \in [Delivery -> 0..(MaxRetries + 1)]
         /\ late' \in [Delivery -> 0..(MaxRetries + 1)]
         /\ \A e \in Delivery : /\ late[e] \in Nat /\ tries[e] \in Nat
                                /\ late'[e] = IF e = d THEN late[e] - 1 ELSE late[e]
         /\ tries[d] > 0 /\ d.kind = "message" /\ d.msg[2] <= sent[d.msg[1]]
         /\ \A e \in Delivery : Tried(e)'
         /\ UNCHANGED <<refs, subscribed, step, stopped, failures, joined, task, sent,
                        tries, out, got, due, losses>>
<1>1. /\ late[d] > 0 /\ late' = [late EXCEPT ![d] = @ - 1] /\ relay' = Relayed(d)
      /\ UNCHANGED <<refs, subscribed, step, stopped, failures, joined, task, sent,
                     tries, out, got, due, losses>>
  BY DEF Late, subs
<1>2. /\ tries \in [Delivery -> 0..(MaxRetries + 1)] /\ late \in [Delivery -> 0..(MaxRetries + 1)]
      /\ MaxRetries \in Nat /\ \A e \in Delivery : Tried(e)
  BY Shape DEF BaseInv, ClusterTypeOK
<1>3. /\ late' \in [Delivery -> 0..(MaxRetries + 1)]
      /\ \A e \in Delivery : /\ late[e] \in Nat /\ tries[e] \in Nat
                             /\ late'[e] = IF e = d THEN late[e] - 1 ELSE late[e]
  BY <1>1, <1>2
<1>4. tries[d] > 0 /\ d.kind = "message" /\ d.msg[2] <= sent[d.msg[1]]
  BY <1>1, <1>2, <1>3 DEF Tried
<1>5. ASSUME NEW e \in Delivery PROVE Tried(e)'
  BY <1>1, <1>2, <1>3 DEF Tried
<1> QED
  BY <1>1, <1>2, <1>3, <1>4, <1>5

LEMMA OweEffect ==
  ASSUME BaseInv, NEW c \in Clients, task[c] # "idle", NEW J, Owe(c, J)
  PROVE  /\ due' \in [Clients -> SUBSET Messages]
         /\ \A d \in Clients : due'[d] = IF d \in J /\ UserAt(d) = Target(c)
                                           THEN due[d] \cup {Current(c)} ELSE due[d]
<1>1. Current(c) \in Messages /\ due \in [Clients -> SUBSET Messages]
  BY CopyFacts DEF BaseInv, ClusterTypeOK
<1> QED
  BY <1>1 DEF Owe

(* After the copy for the recipient comes the one for the sender. *)
LEMMA ThenEffect ==
  ASSUME BaseInv, NEW c \in Clients, task[c] # "idle", Then(c)
  PROVE  /\ task' \in [Clients -> Task]
         /\ \A d \in Clients \ {c} : task'[d] = task[d]
         /\ \/ /\ task[c] \in {"to", "to_local"} /\ task'[c] = "from"
               /\ Target(c) = PeerOf[UserAt(c)] /\ Target(c) # UserAt(c)
            \/ /\ task[c] \in {"from", "from_local"} /\ task'[c] = "idle"
               /\ Target(c) = UserAt(c)
<1>1. task \in [Clients -> Task] /\ UserAt(c) \in People /\ PeerOf[UserAt(c)] # UserAt(c)
  BY Shape DEF BaseInv, ClusterTypeOK
<1>2. \/ task[c] \in {"to", "to_local"} /\ Target(c) = PeerOf[UserAt(c)]
      \/ task[c] \in {"from", "from_local"} /\ Target(c) = UserAt(c)
  BY <1>1 DEF Target, Task
<1>3. PICK t \in {"idle", "from"} :
        /\ task' = [task EXCEPT ![c] = t]
        /\ t = "idle" <=> Target(c) = UserAt(c)
  BY DEF Then
<1> QED
  BY <1>1, <1>2, <1>3 DEF Task

LEMMA PublishEffect ==
  ASSUME BaseInv, NEW c \in Senders, Publish(c)
  PROVE  /\ c \in Clients /\ task[c] \in {"to", "from"} /\ Then(c)
         /\ relay' = Relayed(Copy(c)) /\ Copy(c) \in Delivery
         /\ Owe(c, {d \in joined : UserOf[d] \in subscribed})
         /\ UNCHANGED <<refs, subscribed, step, stopped, failures, joined, sent,
                        tries, late, out, got, losses>>
BY Shape, CopyFacts DEF Publish, subs, calls

LEMMA PublishFailsEffect ==
  ASSUME BaseInv, NEW c \in Senders, PublishFails(c)
  PROVE  /\ c \in Clients /\ task[c] \in {"to", "from"}
         /\ task' \in [Clients -> Task]
         /\ \A d \in Clients \ {c} : task'[d] = task[d]
         /\ \/ task[c] = "to" /\ task'[c] = "to_local"
            \/ task[c] = "from" /\ task'[c] = "from_local"
         /\ NoAnswer(c) \/ UNCHANGED calls
         /\ failures \in Nat /\ failures' = failures + 1 /\ failures' \in 0..MaxFailures
         /\ Owe(c, {d \in joined : NodeAt(d) = NodeAt(c)})
         /\ UNCHANGED <<refs, subscribed, step, stopped, joined, sent, relay, out, got,
                        losses>>
<1>1. /\ c \in Clients /\ task[c] \in {"to", "from"}
      /\ NoAnswer(c) \/ UNCHANGED calls
      /\ failures < MaxFailures /\ failures' = failures + 1
      /\ task' = [task EXCEPT ![c] = IF @ = "to" THEN "to_local" ELSE "from_local"]
      /\ Owe(c, {d \in joined : NodeAt(d) = NodeAt(c)})
      /\ UNCHANGED <<refs, subscribed, step, stopped, joined, sent, relay, out, got,
                     losses>>
  BY Shape DEF PublishFails, subs
<1>2. failures \in 0..MaxFailures
  BY DEF BaseInv, ClusterTypeOK, TypeOK
<1>3. failures \in Nat /\ failures' \in 0..MaxFailures
  BY <1>1, <1>2, Shape
<1>4. task \in [Clients -> Task]
  BY DEF BaseInv, ClusterTypeOK
<1> QED
  BY <1>1, <1>3, <1>4 DEF Task

LEMMA DeliverLocalEffect ==
  ASSUME BaseInv, NEW c \in Senders, DeliverLocal(c)
  PROVE  /\ c \in Clients /\ task[c] \in {"to_local", "from_local"} /\ Then(c)
         /\ out' \in [Nodes -> Seq(Delivery)]
         /\ \A n \in Nodes :
              out'[n] = IF n = NodeAt(c) THEN Append(out[n], Copy(c)) ELSE out[n]
         /\ UNCHANGED <<refs, subscribed, step, stopped, failures, joined, sent,
                        tries, late, relay, got, due, losses>>
<1> DEFINE e == Copy(c)
<1>1. /\ c \in Clients /\ task[c] \in {"to_local", "from_local"} /\ Then(c)
      /\ out' = [out EXCEPT ![NodeAt(c)] = Append(@, e)]
      /\ UNCHANGED <<refs, subscribed, step, stopped, failures, joined, sent,
                     tries, late, relay, got, due, losses>>
  BY Shape DEF DeliverLocal, subs, calls
<1>2. NodeAt(c) \in Nodes /\ Append(out[NodeAt(c)], e) \in Seq(Delivery)
  BY <1>1, Shape, CopyFacts, QueueTypes, AppendFacts
<1> HIDE DEF e
<1>3. /\ out' \in [Nodes -> Seq(Delivery)]
      /\ \A n \in Nodes :
           out'[n] = IF n = NodeAt(c) THEN Append(out[n], e) ELSE out[n]
  BY <1>1, <1>2, QueueTypes
<1> QED
  BY <1>1, <1>3 DEF e

LEMMA ForwardEffect ==
  ASSUME BaseInv, NEW n \in Nodes, Forward(n)
  PROVE  /\ relay[n] # <<>> /\ Head(relay[n]) \in Delivery
         /\ relay' \in [Nodes -> Seq(Delivery)] /\ out' \in [Nodes -> Seq(Delivery)]
         /\ \A k \in Nodes :
              /\ relay'[k] = IF k = n THEN Tail(relay[k]) ELSE relay[k]
              /\ out'[k] = IF k = n THEN Append(out[k], Head(relay[n])) ELSE out[k]
         /\ UNCHANGED <<refs, subscribed, step, stopped, failures, joined, task, sent,
                        tries, late, got, due, losses>>
<1> DEFINE e == Head(relay[n])
           rest == Tail(relay[n])
<1>1. /\ relay[n] # <<>>
      /\ relay' = [relay EXCEPT ![n] = rest]
      /\ out' = [out EXCEPT ![n] = Append(@, e)]
      /\ UNCHANGED <<refs, subscribed, step, stopped, failures, joined, task, sent,
                     tries, late, got, due, losses>>
  BY DEF Forward, Handoff, subs, calls
<1>2. e \in Delivery /\ rest \in Seq(Delivery)
  BY <1>1, QueueTypes, TailFacts
<1>3. Append(out[n], e) \in Seq(Delivery)
  BY <1>2, QueueTypes, AppendFacts
<1> HIDE DEF e, rest
<1>4. /\ relay' \in [Nodes -> Seq(Delivery)] /\ out' \in [Nodes -> Seq(Delivery)]
      /\ \A k \in Nodes :
           /\ relay'[k] = IF k = n THEN rest ELSE relay[k]
           /\ out'[k] = IF k = n THEN Append(out[k], e) ELSE out[k]
  BY <1>1, <1>2, <1>3, QueueTypes
<1> QED
  BY <1>1, <1>2, <1>4 DEF e, rest

LEMMA LoseEffect ==
  ASSUME BaseInv, NEW n \in Nodes, Lose(n)
  PROVE  /\ relay' \in [Nodes -> Seq(Delivery)]
         /\ \A m \in Nodes : m # n => relay'[m] = relay[m]
         /\ relay'[n] \in Seq(Delivery) /\ Thinned(relay[n], relay'[n])
         /\ losses' \in Nat /\ losses' # 0
         /\ UNCHANGED <<refs, subscribed, step, stopped, failures, joined, task, sent,
                        tries, late, out, got, due>>
<1>1. /\ losses' = losses + 1
      /\ UNCHANGED <<refs, subscribed, step, stopped, failures, joined, task, sent,
                     tries, late, out, got, due>>
  BY DEF Lose, subs, calls
<1>2. losses' \in Nat /\ losses' # 0
  <2>1. losses \in Nat
    BY DEF BaseInv, ClusterTypeOK
  <2> QED
    BY <1>1, <2>1
<1>3. PICK k \in 1..Len(relay[n]) :
        \E r \in {SubSeq(relay[n], 1, k - 1), RemoveAt(relay[n], k)} :
          relay' = [relay EXCEPT ![n] = r]
  BY DEF Lose
<1> PICK rest \in {SubSeq(relay[n], 1, k - 1), RemoveAt(relay[n], k)} :
      relay' = [relay EXCEPT ![n] = rest]
  BY <1>3
<1>4. rest \in Seq(Delivery) /\ Thinned(relay[n], rest)
  BY QueueTypes, LossThins
<1>5. relay' \in [Nodes -> Seq(Delivery)] /\ relay'[n] = rest
      /\ \A m \in Nodes : m # n => relay'[m] = relay[m]
  BY <1>4, QueueTypes
<1> QED
  BY <1>1, <1>2, <1>4, <1>5

LEMMA DispatchEffect ==
  ASSUME BaseInv, NEW n \in Nodes, Dispatch(n)
  PROVE  /\ out[n] # <<>> /\ Head(out[n]) \in Delivery
         /\ out' \in [Nodes -> Seq(Delivery)] /\ got' \in [Clients -> Seq(Delivery)]
         /\ \A k \in Nodes : out'[k] = IF k = n THEN Tail(out[k]) ELSE out[k]
         /\ \A c \in Clients :
              got'[c] = IF c \in joined /\ UserOf[c] = <<n, Head(out[n]).user>>
                          THEN Append(got[c], Head(out[n])) ELSE got[c]
         /\ UNCHANGED <<refs, subscribed, step, stopped, failures, joined, task, sent,
                        tries, late, relay, due, losses>>
<1> DEFINE e == Head(out[n])
           rest == Tail(out[n])
<1>1. /\ out[n] # <<>>
      /\ out' = [out EXCEPT ![n] = rest]
      /\ got' = [c \in Clients |-> IF c \in joined /\ UserOf[c] = <<n, e.user>>
                                     THEN Append(got[c], e) ELSE got[c]]
      /\ UNCHANGED <<refs, subscribed, step, stopped, failures, joined, task, sent,
                     tries, late, relay, due, losses>>
  BY DEF Dispatch, subs, calls
<1>2. e \in Delivery /\ rest \in Seq(Delivery)
  BY <1>1, QueueTypes, TailFacts
<1>3. \A c \in Clients : Append(got[c], e) \in Seq(Delivery) /\ got[c] \in Seq(Delivery)
  BY <1>2, QueueTypes, AppendFacts
<1> HIDE DEF e, rest
<1>4. out' \in [Nodes -> Seq(Delivery)]
      /\ \A k \in Nodes : out'[k] = IF k = n THEN rest ELSE out[k]
  BY <1>1, <1>2, QueueTypes
<1>5. /\ got' \in [Clients -> Seq(Delivery)]
      /\ \A c \in Clients : got'[c] = IF c \in joined /\ UserOf[c] = <<n, e.user>>
                                        THEN Append(got[c], e) ELSE got[c]
  BY <1>1, <1>3
<1> QED
  BY <1>1, <1>2, <1>4, <1>5 DEF e, rest

-----------------------------------------------------------------------------
(* The base is kept by all the steps. *)
LEMMA BaseAccept == ASSUME BaseInv, NEW c \in Senders, Accept(c) PROVE BaseInv'
<1>1. ClusterTypeOK'
  BY AcceptEffect DEF BaseInv, ClusterTypeOK, TypeOK
<1>2. \A d \in Clients : Lives(d)'
  <2> SUFFICES ASSUME NEW d \in Clients PROVE Lives(d)'
    OBVIOUS
  <2>1. Lives(d) /\ sent[d] \in 0..MaxSends
    BY QueueTypes DEF BaseInv
  <2>2. CASE d = c
    <3>1. /\ joined' = joined /\ c \in joined /\ step' = step
          /\ step[c] \in {"open", "bare"} /\ sent'[c] \in 1..MaxSends
      BY AcceptEffect
    <3> QED
      BY <2>1, <2>2, <3>1 DEF Lives
  <2>3. CASE d # c
    <3>1. /\ joined' = joined /\ step' = step /\ got' = got /\ due' = due
          /\ sent'[d] = sent[d] /\ task'[d] = task[d]
      BY <2>3, AcceptEffect
    <3> QED
      BY <2>1, <3>1 DEF Lives
  <2> QED
    BY <2>2, <2>3
<1>3. SentGrows
  <2>1. \A d \in Clients : sent'[d] = IF d = c THEN sent[d] + 1 ELSE sent[d]
    BY AcceptEffect
  <2>2. \A d \in Clients : sent[d] \in Nat
    BY QueueTypes
  <2> QED
    BY <2>1, <2>2 DEF SentGrows
<1>4. \A d \in Clients : RealAfter(got'[d])
  BY <1>3, AcceptEffect, QueueTypes, RealKept DEF BaseInv
<1>5. \A n \in Nodes : RealAfter(relay'[n])
  BY <1>3, AcceptEffect, QueueTypes, RealKept DEF BaseInv
<1>6. ASSUME NEW n \in Nodes PROVE RealAfter(out'[n])
  <2>1. Ack(c) \in Delivery /\ Ack(c).msg[2] <= sent'[Ack(c).msg[1]]
    <3>1. Ack(c).msg[1] = c /\ Ack(c).msg[2] = sent[c] + 1
      BY DEF Ack
    <3>2. sent'[c] = sent[c] + 1 /\ sent[c] \in Nat
      BY AcceptEffect, QueueTypes
    <3> QED
      BY <3>1, <3>2, AcceptEffect
  <2>2. RealAfter(Append(out[n], Ack(c)))
    BY <1>3, <2>1, QueueTypes, RealAppended DEF BaseInv
  <2>3. RealAfter(out[n])
    BY <1>3, QueueTypes, RealKept DEF BaseInv
  <2> QED
    BY <2>2, <2>3, AcceptEffect
<1>7. \A d \in Delivery : Tried(d)'
  BY <1>3, AcceptEffect, TriedKept
<1> QED
  BY <1>1, <1>2, <1>4, <1>5, <1>6, <1>7, BaseStep

(* The copy that is published or delivered is of a message that was sent. *)
LEMMA RealCopy ==
  ASSUME BaseInv, NEW c \in Clients, task[c] # "idle", sent' = sent,
         NEW q \in Seq(Delivery), Real(q)
  PROVE  RealAfter(Append(q, Copy(c)))
<1>1. Copy(c) \in Delivery /\ Copy(c).msg[2] <= sent'[Copy(c).msg[1]]
  BY CopyFacts
<1> QED
  BY <1>1, SentSame, RealAppended

LEMMA BasePublish ==
  ASSUME BaseInv, NEW c \in Senders, Publish(c) \/ PublishFails(c)
  PROVE  BaseInv'
<1>1. /\ c \in Clients /\ task[c] # "idle"
      /\ relay' = relay \/ relay' = Relayed(Copy(c))
      /\ NoAnswer(c) \/ UNCHANGED calls
      /\ \E J : Owe(c, J)
      /\ \A d \in Clients : task'[d] # "idle" => task[d] # "idle"
      /\ task' \in [Clients -> Task]
      /\ failures' \in 0..MaxFailures
      /\ UNCHANGED <<refs, subscribed, step, stopped, joined, sent, out, got, losses>>
  <2>1. CASE Publish(c)
    <3>1. failures' \in 0..MaxFailures
      BY <2>1, PublishEffect DEF BaseInv, ClusterTypeOK, TypeOK
    <3>2. c \in Clients /\ task[c] # "idle" /\ Then(c)
      BY <2>1, PublishEffect
    <3>3. task' \in [Clients -> Task] /\ \A d \in Clients \ {c} : task'[d] = task[d]
      BY <3>2, ThenEffect
    <3> QED
      BY <2>1, <3>1, <3>2, <3>3, PublishEffect DEF calls
  <2>2. CASE PublishFails(c)
    BY <2>2, PublishFailsEffect
  <2> QED
    BY <2>1, <2>2
<1>2. PICK J : Owe(c, J)
  BY <1>1
<1>3. due' \in [Clients -> SUBSET Messages]
  BY <1>1, <1>2, OweEffect
<1>4. relay' \in [Nodes -> Seq(Delivery)]
      /\ \A n \in Nodes : relay'[n] \in {relay[n], Append(relay[n], Copy(c))}
  BY <1>1, CopyFacts, QueueTypes, RelayedEffect
<1>5. ClusterTypeOK'
  <2>1. {tries, late}' \subseteq [Delivery -> 0..(MaxRetries + 1)]
    BY <1>1, NoAnswerEffect
  <2> QED
    BY <1>1, <1>3, <1>4, <2>1 DEF BaseInv, ClusterTypeOK, TypeOK
<1>6. \A d \in Clients : d \notin joined => due'[d] = {}
  <2>1. \A d \in Clients : d \in joined \/ due'[d] = due[d]
    <3>1. PICK I \in SUBSET joined : Owe(c, I)
      <4>1. CASE Publish(c)
        <5>1. Owe(c, {d \in joined : UserOf[d] \in subscribed})
          BY <4>1, PublishEffect
        <5> QED
          BY <5>1
      <4>2. CASE PublishFails(c)
        <5>1. Owe(c, {d \in joined : NodeAt(d) = NodeAt(c)})
          BY <4>2, PublishFailsEffect
        <5> QED
          BY <5>1
      <4> QED
        BY <4>1, <4>2
    <3> QED
      BY <1>1, <3>1, OweEffect
  <2> QED
    BY <2>1 DEF BaseInv, Lives
<1>7. \A d \in Clients : Lives(d)'
  BY <1>1, <1>6 DEF BaseInv, Lives
<1>8. \A n \in Nodes : RealAfter(relay'[n])
  <2> SUFFICES ASSUME NEW n \in Nodes PROVE RealAfter(relay'[n])
    OBVIOUS
  <2>1. RealAfter(relay[n]) /\ RealAfter(Append(relay[n], Copy(c)))
    BY <1>1, QuietReal, QueueTypes, RealCopy DEF BaseInv
  <2> QED
    BY <1>4, <2>1
<1>9. /\ \A d \in Clients : RealAfter(got'[d])
      /\ \A n \in Nodes : RealAfter(out'[n])
  BY <1>1, QuietReal
<1>10. \A d \in Delivery : Tried(d)'
  BY <1>1, NoAnswerEffect
<1> QED
  BY <1>5, <1>7, <1>8, <1>9, <1>10, BaseStep

LEMMA BaseUnanswered ==
  ASSUME BaseInv, NEW c \in Senders, Unanswered(c)
  PROVE  BaseInv'
<1>1. /\ c \in Clients /\ task[c] # "idle" /\ NoAnswer(c)
      /\ UNCHANGED <<refs, subscribed, step, stopped, failures, joined, task, sent,
                     relay, out, got, due, losses>>
  BY UnansweredEffect
<1>2. /\ {tries, late}' \subseteq [Delivery -> 0..(MaxRetries + 1)]
      /\ \A d \in Delivery : Tried(d)'
  BY <1>1, NoAnswerEffect
<1>3. ClusterTypeOK'
  BY <1>1, <1>2 DEF BaseInv, ClusterTypeOK, TypeOK
<1>4. \A d \in Clients : Lives(d)'
  BY <1>1 DEF BaseInv, Lives
<1> QED
  BY <1>1, <1>2, <1>3, <1>4, QuietReal, BaseStep

LEMMA BaseLate == ASSUME BaseInv, NEW d \in Delivery, Late(d) PROVE BaseInv'
<1>1. relay' \in [Nodes -> Seq(Delivery)]
      /\ \A n \in Nodes : relay'[n] \in {relay[n], Append(relay[n], d)}
  BY LateEffect, RelayedEffect
<1>2. ClusterTypeOK'
  BY <1>1, LateEffect DEF BaseInv, ClusterTypeOK, TypeOK
<1>3. \A c \in Clients : Lives(c)'
  BY LateEffect DEF BaseInv, Lives
<1>4. \A n \in Nodes : RealAfter(relay'[n])
  <2> SUFFICES ASSUME NEW n \in Nodes PROVE RealAfter(relay'[n])
    OBVIOUS
  <2>1. sent' = sent /\ d.msg[2] <= sent'[d.msg[1]]
    BY LateEffect
  <2>2. RealAfter(relay[n]) /\ RealAfter(Append(relay[n], d))
    BY <2>1, QuietReal, QueueTypes, SentSame, RealAppended DEF BaseInv
  <2> QED
    BY <1>1, <2>2
<1> QED
  BY <1>2, <1>3, <1>4, LateEffect, QuietReal, BaseStep

LEMMA BaseDeliverLocal ==
  ASSUME BaseInv, NEW c \in Senders, DeliverLocal(c)
  PROVE  BaseInv'
<1>1. c \in Clients /\ task[c] # "idle" /\ Then(c) /\ sent' = sent
  BY DeliverLocalEffect
<1>2. task' \in [Clients -> Task]
      /\ \A d \in Clients : task'[d] # "idle" => task[d] # "idle"
  BY <1>1, ThenEffect
<1>3. ClusterTypeOK'
  BY <1>2, DeliverLocalEffect DEF BaseInv, ClusterTypeOK, TypeOK
<1>4. \A d \in Clients : Lives(d)'
  BY <1>2, DeliverLocalEffect DEF BaseInv, Lives
<1>5. \A n \in Nodes : RealAfter(out'[n])
  <2> SUFFICES ASSUME NEW n \in Nodes PROVE RealAfter(out'[n])
    OBVIOUS
  <2>1. RealAfter(out[n]) /\ RealAfter(Append(out[n], Copy(c)))
    BY <1>1, QuietReal, QueueTypes, RealCopy DEF BaseInv
  <2> QED
    BY <2>1, DeliverLocalEffect
<1>6. /\ \A d \in Clients : RealAfter(got'[d])
      /\ \A n \in Nodes : RealAfter(relay'[n])
  BY <1>1, QuietReal, DeliverLocalEffect
<1>7. \A d \in Delivery : Tried(d)'
  BY <1>1, QuietReal, DeliverLocalEffect
<1> QED
  BY <1>3, <1>4, <1>5, <1>6, <1>7, BaseStep

(* What moves from one queue to the next was real there. *)
LEMMA RealMoved ==
  ASSUME BaseInv, sent' = sent, NEW q \in Seq(Delivery), Real(q), q # <<>>,
         NEW r \in Seq(Delivery), Real(r)
  PROVE  RealAfter(Tail(q)) /\ RealAfter(Append(r, Head(q)))
<1>1. /\ Head(q) \in Delivery /\ Head(q) \in ToSet(q)
      /\ ToSet(Tail(q)) \subseteq ToSet(q)
  BY TailFacts
<1>2. Head(q).msg[2] <= sent'[Head(q).msg[1]]
  BY <1>1 DEF Real
<1> QED
  BY <1>1, <1>2, SentSame, RealKept, RealAppended

LEMMA BaseForward == ASSUME BaseInv, NEW n \in Nodes, Forward(n) PROVE BaseInv'
<1>1. ClusterTypeOK' /\ sent' = sent
  BY ForwardEffect DEF BaseInv, ClusterTypeOK, TypeOK
<1>2. \A d \in Clients : Lives(d)'
  BY ForwardEffect DEF BaseInv, Lives
<1>3. RealAfter(Tail(relay[n])) /\ RealAfter(Append(out[n], Head(relay[n])))
  BY <1>1, ForwardEffect, QueueTypes, RealMoved DEF BaseInv
<1>4. \A k \in Nodes : RealAfter(relay'[k]) /\ RealAfter(out'[k])
  BY <1>1, <1>3, QuietReal, ForwardEffect
<1>5. /\ \A d \in Clients : RealAfter(got'[d])
      /\ \A d \in Delivery : Tried(d)'
  BY <1>1, QuietReal, ForwardEffect
<1> QED
  BY <1>1, <1>2, <1>4, <1>5, BaseStep

LEMMA BaseLose == ASSUME BaseInv, NEW n \in Nodes, Lose(n) PROVE BaseInv'
<1>1. ClusterTypeOK' /\ sent' = sent
  BY LoseEffect DEF BaseInv, ClusterTypeOK, TypeOK
<1>2. \A d \in Clients : Lives(d)'
  BY LoseEffect DEF BaseInv, Lives
<1>3. RealAfter(relay'[n])
  <2>1. ToSet(relay'[n]) \subseteq ToSet(relay[n])
    BY LoseEffect, ThinnedSet
  <2> QED
    BY <1>1, <2>1, SentSame, QueueTypes, RealKept DEF BaseInv
<1>4. \A k \in Nodes : RealAfter(relay'[k])
  BY <1>1, <1>3, QuietReal, LoseEffect
<1>5. /\ \A d \in Clients : RealAfter(got'[d])
      /\ \A k \in Nodes : RealAfter(out'[k])
      /\ \A d \in Delivery : Tried(d)'
  BY <1>1, QuietReal, LoseEffect
<1> QED
  BY <1>1, <1>2, <1>4, <1>5, BaseStep

LEMMA BaseDispatch == ASSUME BaseInv, NEW n \in Nodes, Dispatch(n) PROVE BaseInv'
<1>1. ClusterTypeOK' /\ sent' = sent
  BY DispatchEffect DEF BaseInv, ClusterTypeOK, TypeOK
<1>2. \A d \in Clients : Lives(d)'
  BY DispatchEffect DEF BaseInv, Lives
<1>3. RealAfter(Tail(out[n])) /\ \A d \in Clients : RealAfter(Append(got[d], Head(out[n])))
  BY <1>1, DispatchEffect, QueueTypes, RealMoved DEF BaseInv
<1>4. \A k \in Nodes : RealAfter(out'[k])
  BY <1>1, <1>3, QuietReal, DispatchEffect
<1>5. /\ \A d \in Clients : RealAfter(got'[d])
      /\ \A k \in Nodes : RealAfter(relay'[k])
      /\ \A d \in Delivery : Tried(d)'
  BY <1>1, <1>3, QuietReal, DispatchEffect
<1> QED
  BY <1>1, <1>2, <1>4, <1>5, BaseStep

LEMMA BaseNext == BaseInv /\ [ClusterNext]_clusterVars => BaseInv'
<1> SUFFICES ASSUME BaseInv, [ClusterNext]_clusterVars PROVE BaseInv'
  OBVIOUS
<1>1. CASE ClusterTerminated \/ UNCHANGED clusterVars
  <2>1. UNCHANGED <<refs, subscribed, step, stopped, failures, joined, task, sent,
                    tries, late, relay, out, got, due, losses>>
    BY <1>1 DEF ClusterTerminated, clusterVars, subs, flow, calls
  <2>2. ClusterTypeOK'
    BY <2>1 DEF BaseInv, ClusterTypeOK, TypeOK
  <2> QED
    BY <2>1, <2>2 DEF BaseInv, Lives, Real, Tried
<1> QED
  BY <1>1, BaseJoin, BaseLeave, BaseResubscribe, BaseAccept, BaseUnanswered, BasePublish,
     BaseLate, BaseDeliverLocal, BaseForward, BaseLose, BaseDispatch
     DEF ClusterNext, Handle

LEMMA BaseInvariance == ClusterSpec => []BaseInv
<1>1. ClusterInit => BaseInv
  BY BaseInit
<1> QED
  BY <1>1, BaseNext, PTL DEF ClusterSpec

(* Types of the whole, of the subscriptions of all the nodes too. *)
THEOREM TypeCorrect == ClusterSpec => []ClusterTypeOK
<1>1. BaseInv => ClusterTypeOK
  BY DEF BaseInv
<1> QED
  BY <1>1, BaseInvariance, PTL

-----------------------------------------------------------------------------
(***************************************************************************)
(* NothingLost.                                                            *)
(***************************************************************************)
Carries(q, m)   == \E d \in ToSet(q) : d.kind = "message" /\ d.msg = m
Brings(q, u, m) == \E d \in ToSet(q) : d.kind = "message" /\ d.msg = m /\ d.user = u

Pending(c, m) ==
  /\ Current(m[1]) = m /\ task[m[1]] \in {"to_local", "from_local"}
  /\ NodeAt(c) = NodeAt(m[1]) /\ Target(m[1]) = UserAt(c)

Owed(c, m) ==
  \/ Carries(got[c], m)
  \/ Brings(relay[NodeAt(c)], UserAt(c), m) \/ Brings(out[NodeAt(c)], UserAt(c), m)
  \/ Pending(c, m)

LossInv == losses = 0 => \A c \in joined : \A m \in due[c] : Owed(c, m)

LEMMA LossInit == ASSUME ClusterInit PROVE LossInv
  BY DEF ClusterInit, LossInv

LEMMA DueFacts ==
  ASSUME BaseInv, NEW c \in joined, NEW m \in due[c]
  PROVE  c \in Clients /\ m \in Messages /\ m[1] \in Senders /\ m[1] \in Clients
BY Shape DEF BaseInv, ClusterTypeOK, Messages

LEMMA LossJoin ==
  ASSUME BaseInv, LossInv, NEW c \in Clients, Join(c) \/ Leave(c) \/ Resubscribe(c)
  PROVE  LossInv'
<1>1. UNCHANGED <<task, sent, relay, out, losses>>
  BY DEF Join, Leave, Resubscribe, flow
<1>2. \A d \in joined' : due'[d] # {} => d \in joined /\ due'[d] = due[d] /\ got'[d] = got[d]
  <2>1. CASE Join(c)
    BY <2>1 DEF Join, flow, BaseInv, Lives
  <2>2. CASE Leave(c)
    BY <2>2 DEF Leave, BaseInv, ClusterTypeOK
  <2>3. CASE Resubscribe(c)
    BY <2>3 DEF Resubscribe, flow
  <2> QED
    BY <2>1, <2>2, <2>3
<1>3. ASSUME losses = 0, NEW d \in joined', NEW m \in due'[d] PROVE Owed(d, m)'
  <2>1. d \in joined /\ m \in due[d] /\ got'[d] = got[d]
    BY <1>2
  <2>2. Owed(d, m)
    BY <1>3, <2>1 DEF LossInv
  <2> QED
    BY <1>1, <2>1, <2>2 DEF Owed, Pending, Current, Target
<1> QED
  BY <1>1, <1>3 DEF LossInv

LEMMA LossAccept ==
  ASSUME BaseInv, LossInv, NEW c \in Senders, Accept(c)
  PROVE  LossInv'
<1>1. ASSUME losses = 0, NEW d \in joined, NEW m \in due[d] PROVE Owed(d, m)'
  <2>1. Owed(d, m) /\ d \in Clients /\ m[1] \in Clients /\ NodeAt(d) \in Nodes
    BY <1>1, DueFacts, Shape DEF LossInv
  <2>2. Brings(out[NodeAt(d)], UserAt(d), m) => Brings(out'[NodeAt(d)], UserAt(d), m)
    <3>1. ToSet(out[NodeAt(d)]) \subseteq ToSet(out'[NodeAt(d)])
      <4>1. ToSet(Append(out[NodeAt(d)], Ack(c))) = ToSet(out[NodeAt(d)]) \cup {Ack(c)}
        BY <2>1, AcceptEffect, QueueTypes, AppendFacts
      <4> QED
        BY <2>1, <4>1, AcceptEffect
    <3> QED
      BY <3>1 DEF Brings
  <2>3. Pending(d, m) => Pending(d, m)'
    <3> SUFFICES ASSUME Pending(d, m) PROVE Pending(d, m)'
      OBVIOUS
    <3>1. m[1] # c
      BY AcceptEffect DEF Pending
    <3>2. sent'[m[1]] = sent[m[1]] /\ task'[m[1]] = task[m[1]]
      BY <2>1, <3>1, AcceptEffect
    <3> QED
      BY <3>2 DEF Pending, Current, Target
  <2>4. got' = got /\ relay' = relay
    BY AcceptEffect
  <2> QED
    BY <2>1, <2>2, <2>3, <2>4 DEF Owed, Carries, Brings
<1> QED
  BY <1>1, AcceptEffect DEF LossInv

(* Whoever is reachable has the copy on its way. *)
LEMMA LossPublish ==
  ASSUME BaseInv, LossInv, NEW c \in Senders, Publish(c) \/ PublishFails(c)
  PROVE  LossInv'
<1>1. /\ c \in Clients /\ task[c] \in {"to", "from"}
      /\ relay' = relay \/ relay' = Relayed(Copy(c))
      /\ \A d \in Clients \ {c} : task'[d] = task[d]
      /\ UNCHANGED <<joined, sent, out, got, losses>>
  <2>1. CASE Publish(c)
    <3>1. c \in Clients /\ task[c] \in {"to", "from"} /\ Then(c)
      BY <2>1, PublishEffect
    <3>2. \A d \in Clients \ {c} : task'[d] = task[d]
      BY <3>1, ThenEffect
    <3> QED
      BY <2>1, <3>1, <3>2, PublishEffect
  <2>2. CASE PublishFails(c)
    BY <2>2, PublishFailsEffect
  <2> QED
    BY <2>1, <2>2
<1>2. \A n \in Nodes : /\ ToSet(relay[n]) \subseteq ToSet(relay'[n])
                       /\ relay'[n] = Append(relay[n], Copy(c)) => Copy(c) \in ToSet(relay'[n])
  <2>1. \A n \in Nodes :
          ToSet(Append(relay[n], Copy(c))) = ToSet(relay[n]) \cup {Copy(c)}
    BY <1>1, CopyFacts, QueueTypes, AppendFacts
  <2>2. \A n \in Nodes : ToSet(relay[n]) \subseteq ToSet(relay'[n])
    BY <1>1, CopyFacts, RelayedEffect
  <2> QED
    BY <2>1, <2>2
<1>3. ASSUME NEW d \in joined, NEW m \in due[d], Owed(d, m) PROVE Owed(d, m)'
  <2>1. d \in Clients /\ m[1] \in Clients /\ NodeAt(d) \in Nodes
    BY DueFacts, Shape
  <2>2. Pending(d, m) => Pending(d, m)'
    <3> SUFFICES ASSUME Pending(d, m) PROVE Pending(d, m)'
      OBVIOUS
    <3>1. m[1] # c
      BY <1>1 DEF Pending
    <3>2. task'[m[1]] = task[m[1]]
      BY <1>1, <2>1, <3>1
    <3> QED
      BY <1>1, <3>2 DEF Pending, Current, Target
  <2>3. Brings(relay[NodeAt(d)], UserAt(d), m) => Brings(relay'[NodeAt(d)], UserAt(d), m)
    BY <1>2, <2>1 DEF Brings
  <2> QED
    BY <1>1, <1>3, <2>2, <2>3 DEF Owed, Carries, Brings
<1>4. ASSUME NEW d \in joined, NEW m \in due'[d], m \notin due[d] PROVE Owed(d, m)'
  <2>1. d \in Clients /\ NodeAt(d) \in Nodes /\ UserOf[d] = <<NodeAt(d), UserAt(d)>>
    BY Shape DEF BaseInv, ClusterTypeOK
  <2>2. CASE Publish(c)
    <3> DEFINE J == {e \in joined : UserOf[e] \in subscribed}
    <3>1. Owe(c, J) /\ relay' = Relayed(Copy(c)) /\ Copy(c).user = Target(c)
          /\ Copy(c) \in Delivery
      BY <1>1, <2>2, PublishEffect, CopyFacts
    <3>2. d \in J => UserOf[d] \in subscribed
      OBVIOUS
    <3> HIDE DEF J
    <3>3. d \in J /\ UserAt(d) = Target(c) /\ m = Current(c)
      BY <1>1, <1>4, <2>1, <3>1, OweEffect
    <3>4. relay'[NodeAt(d)] = Append(relay[NodeAt(d)], Copy(c))
      BY <1>1, <2>1, <3>1, <3>2, <3>3, RelayedEffect
    <3>5. Copy(c) \in ToSet(relay'[NodeAt(d)]) /\ Copy(c).kind = "message"
          /\ Copy(c).msg = m /\ Copy(c).user = UserAt(d)
      BY <1>1, <1>2, <2>1, <3>3, <3>4, CopyFacts
    <3>6. Brings(relay'[NodeAt(d)], UserAt(d), m)
      BY <3>5 DEF Brings
    <3> QED
      BY <3>6 DEF Owed, Brings
  <2>3. CASE PublishFails(c)
    <3> DEFINE J == {e \in joined : NodeAt(e) = NodeAt(c)}
    <3>1. Owe(c, J)
      BY <2>3, PublishFailsEffect
    <3>2. d \in J => NodeAt(d) = NodeAt(c)
      OBVIOUS
    <3> HIDE DEF J
    <3>3. d \in J /\ UserAt(d) = Target(c) /\ m = Current(c)
      BY <1>1, <1>4, <2>1, <3>1, OweEffect
    <3>4. m[1] = c /\ Current(c)' = m
      BY <1>1, <3>3, CopyFacts DEF Current
    <3>5. \/ task[c] = "to" /\ task'[c] = "to_local"
          \/ task[c] = "from" /\ task'[c] = "from_local"
      BY <2>3, PublishFailsEffect
    <3>6. Target(c)' = Target(c)
      BY <3>5 DEF Target
    <3>7. Pending(d, m)'
      BY <3>2, <3>3, <3>4, <3>5, <3>6 DEF Pending
    <3> QED
      BY <3>7 DEF Owed
  <2> QED
    BY <2>2, <2>3
<1> QED
  BY <1>1, <1>3, <1>4 DEF LossInv

LEMMA LossDeliverLocal ==
  ASSUME BaseInv, LossInv, NEW c \in Senders, DeliverLocal(c)
  PROVE  LossInv'
<1>1. c \in Clients /\ task[c] # "idle" /\ Then(c)
  BY DeliverLocalEffect
<1>2. ASSUME losses = 0, NEW d \in joined, NEW m \in due[d] PROVE Owed(d, m)'
  <2> DEFINE n == NodeAt(d)
  <2>1. Owed(d, m) /\ d \in Clients /\ m[1] \in Clients /\ n \in Nodes
    BY <1>2, DueFacts, Shape DEF LossInv
  <2>2. ToSet(Append(out[n], Copy(c))) = ToSet(out[n]) \cup {Copy(c)}
    BY <1>1, <2>1, CopyFacts, QueueTypes, AppendFacts
  <2>3. out'[n] = IF n = NodeAt(c) THEN Append(out[n], Copy(c)) ELSE out[n]
    BY <2>1, DeliverLocalEffect
  <2>4. Brings(out[n], UserAt(d), m) => Brings(out'[n], UserAt(d), m)
    BY <2>2, <2>3 DEF Brings
  <2>5. Pending(d, m) => Pending(d, m)' \/ Brings(out'[n], UserAt(d), m)
    <3>1. CASE m[1] = c /\ Pending(d, m)
      <4>1. Copy(c).kind = "message" /\ Copy(c).msg = m /\ Copy(c).user = UserAt(d)
        BY <1>1, <3>1, CopyFacts DEF Pending
      <4>2. Copy(c) \in ToSet(out'[n])
        BY <2>2, <2>3, <3>1 DEF Pending
      <4> QED
        BY <4>1, <4>2 DEF Brings
    <3>2. CASE m[1] # c /\ Pending(d, m)
      <4>1. task'[m[1]] = task[m[1]] /\ sent' = sent
        BY <1>1, <2>1, <3>2, ThenEffect, DeliverLocalEffect
      <4> QED
        BY <3>2, <4>1 DEF Pending, Current, Target
    <3> QED
      BY <3>1, <3>2
  <2>6. got' = got /\ relay' = relay
    BY DeliverLocalEffect
  <2> QED
    BY <2>1, <2>4, <2>5, <2>6 DEF Owed, Carries, Brings
<1> QED
  BY <1>2, DeliverLocalEffect DEF LossInv

LEMMA LossLate ==
  ASSUME BaseInv, LossInv, NEW e \in Delivery, Late(e)
  PROVE  LossInv'
<1>1. \A n \in Nodes : ToSet(relay[n]) \subseteq ToSet(relay'[n])
  BY LateEffect, RelayedEffect
<1>2. ASSUME losses = 0, NEW d \in joined, NEW m \in due[d] PROVE Owed(d, m)'
  <2>1. Owed(d, m) /\ NodeAt(d) \in Nodes
    BY <1>2, DueFacts, Shape DEF LossInv
  <2>2. UNCHANGED <<task, sent, out, got>>
    BY LateEffect
  <2> QED
    BY <1>1, <2>1, <2>2 DEF Owed, Carries, Brings, Pending, Current, Target
<1> QED
  BY <1>2, LateEffect DEF LossInv

LEMMA LossForward ==
  ASSUME BaseInv, LossInv, NEW n \in Nodes, Forward(n)
  PROVE  LossInv'
<1> DEFINE e == Head(relay[n])
<1>1. /\ ToSet(relay[n]) = ToSet(Tail(relay[n])) \cup {e}
      /\ ToSet(Append(out[n], e)) = ToSet(out[n]) \cup {e}
  BY ForwardEffect, QueueTypes, TailFacts, AppendFacts
<1>2. ToSet(relay'[n]) \cup {e} = ToSet(relay[n]) /\ ToSet(out'[n]) = ToSet(out[n]) \cup {e}
  BY <1>1, ForwardEffect
<1>3. \A k \in Nodes : k # n => relay'[k] = relay[k] /\ out'[k] = out[k]
  BY ForwardEffect
<1> HIDE DEF e
<1>4. ASSUME losses = 0, NEW d \in joined, NEW m \in due[d] PROVE Owed(d, m)'
  <2> DEFINE k == NodeAt(d)
             u == UserAt(d)
  <2>1. Owed(d, m) /\ k \in Nodes
    BY <1>4, DueFacts, Shape DEF LossInv
  <2>2. Brings(relay[k], u, m) \/ Brings(out[k], u, m)
          => Brings(relay'[k], u, m) \/ Brings(out'[k], u, m)
    <3>1. CASE k = n
      BY <1>2, <3>1 DEF Brings
    <3>2. CASE k # n
      BY <1>3, <2>1, <3>2
    <3> QED
      BY <3>1, <3>2
  <2>3. Pending(d, m) => Pending(d, m)'
    BY ForwardEffect DEF Pending, Current, Target
  <2>4. got' = got
    BY ForwardEffect
  <2> QED
    BY <2>1, <2>2, <2>3, <2>4 DEF Owed, Carries, Brings
<1> QED
  BY <1>4, ForwardEffect DEF LossInv

LEMMA LossDispatch ==
  ASSUME BaseInv, LossInv, NEW n \in Nodes, Dispatch(n)
  PROVE  LossInv'
<1> DEFINE e == Head(out[n])
<1>1. /\ ToSet(out[n]) = ToSet(Tail(out[n])) \cup {e}
      /\ \A c \in Clients : ToSet(Append(got[c], e)) = ToSet(got[c]) \cup {e}
  BY DispatchEffect, QueueTypes, TailFacts, AppendFacts
<1>2. ToSet(out'[n]) \cup {e} = ToSet(out[n])
  BY <1>1, DispatchEffect
<1>3. \A k \in Nodes : k # n => out'[k] = out[k]
  BY DispatchEffect
<1>4. \A c \in Clients : ToSet(got[c]) \subseteq ToSet(got'[c])
        /\ (c \in joined /\ UserOf[c] = <<n, e.user>> => e \in ToSet(got'[c]))
  BY <1>1, DispatchEffect
<1> HIDE DEF e
<1>5. ASSUME losses = 0, NEW d \in joined, NEW m \in due[d] PROVE Owed(d, m)'
  <2> DEFINE k == NodeAt(d)
             u == UserAt(d)
  <2>1. Owed(d, m) /\ k \in Nodes /\ d \in Clients /\ UserOf[d] = <<k, u>>
    BY <1>5, DueFacts, Shape DEF LossInv
  <2>2. Brings(out[k], u, m) => Brings(out'[k], u, m) \/ Carries(got'[d], m)
    <3>1. CASE k = n
      BY <1>2, <1>4, <2>1, <3>1 DEF Brings, Carries
    <3>2. CASE k # n
      BY <1>3, <2>1, <3>2
    <3> QED
      BY <3>1, <3>2
  <2>3. Pending(d, m) => Pending(d, m)'
    BY DispatchEffect DEF Pending, Current, Target
  <2>4. Carries(got[d], m) => Carries(got'[d], m)
    BY <1>4, <2>1 DEF Carries
  <2>5. relay' = relay
    BY DispatchEffect
  <2> QED
    BY <2>1, <2>2, <2>3, <2>4, <2>5 DEF Owed, Carries, Brings
<1> QED
  BY <1>5, DispatchEffect DEF LossInv

LEMMA LossNext == BaseInv /\ LossInv /\ [ClusterNext]_clusterVars => LossInv'
<1> SUFFICES ASSUME BaseInv, LossInv, [ClusterNext]_clusterVars PROVE LossInv'
  OBVIOUS
<1>1. CASE UNCHANGED <<joined, task, sent, relay, out, got, due, losses>>
  BY <1>1 DEF LossInv, Owed, Carries, Brings, Pending, Current, Target
<1>2. ASSUME NEW n \in Nodes, Lose(n) PROVE LossInv'
  BY <1>2, LoseEffect DEF LossInv
<1>3. ASSUME NEW c \in Senders, Unanswered(c) PROVE LossInv'
  BY <1>1, <1>3, UnansweredEffect
<1>4. CASE ClusterTerminated \/ UNCHANGED clusterVars
  BY <1>1, <1>4 DEF ClusterTerminated, clusterVars, flow
<1> QED
  BY <1>2, <1>3, <1>4, LossJoin, LossAccept, LossPublish, LossLate, LossDeliverLocal,
     LossForward, LossDispatch DEF ClusterNext, Handle

(* As long as no node loses its Redis connection, whoever was reachable when
   a message was sent its way has it or will get it, on any number of nodes
   and whatever calls fail.                                                *)
THEOREM NothingIsLost == ClusterSpec => []NothingLost
<1>1. ClusterInit => LossInv
  BY LossInit
<1>2. BaseInv /\ LossInv => NothingLost
  <2> SUFFICES ASSUME BaseInv, LossInv, losses = 0, NEW c \in joined, NEW m \in due[c]
               PROVE  Copies(got[c], m) # {} \/ Coming(c, m)
    BY DEF NothingLost
  <2>1. Owed(c, m)
    BY DEF LossInv
  <2>2. Carries(got[c], m) => Copies(got[c], m) # {}
    BY DEF Carries, Copies, ToSet
  <2>3. \A q : Brings(q, UserAt(c), m) => \E i \in Copies(q, m) : q[i].user = UserAt(c)
    BY DEF Brings, Copies, ToSet
  <2> QED
    BY <2>1, <2>2, <2>3 DEF Owed, Coming, Pending
<1> QED
  BY <1>1, <1>2, BaseInvariance, LossNext, PTL DEF ClusterSpec

-----------------------------------------------------------------------------
(***************************************************************************)
(* AckFirst.                                                               *)
(***************************************************************************)

(* The acknowledgement of m, for user u, is ahead of all copies of m. *)
Led(q, u, m) == \E j \in Acks(q, m) : q[j].user = u /\ \A i \in Copies(q, m) : j < i

(* It was given to the connection, or comes before the copies at the shard. *)
Told(c, m) ==
  \/ Led(got[c], UserAt(c), m)
  \/ Copies(got[c], m) = {} /\ Led(out[NodeAt(c)], UserAt(c), m)

AckInv == \A m \in Messages :
  m[1] \in joined /\ m[2] <= sent[m[1]] => Told(m[1], m)

LEMMA LedAppend ==
  ASSUME NEW q \in Seq(Delivery), NEW e \in Delivery, NEW u, NEW m
  PROVE  /\ Led(q, u, m) => Led(Append(q, e), u, m)
         /\ Copies(q, m) = {} /\ e.kind = "ack" /\ e.msg = m /\ e.user = u
              => Led(Append(q, e), u, m)
         /\ Copies(q, m) = {} /\ ~(e.kind = "message" /\ e.msg = m)
              => Copies(Append(q, e), m) = {}
<1> DEFINE r == Append(q, e)
<1>1. /\ DOMAIN r = 1..(Len(q) + 1) /\ DOMAIN q = 1..Len(q) /\ Len(q) \in Nat
      /\ \A i \in DOMAIN q : r[i] = q[i]
      /\ r[Len(q) + 1] = e
  BY AppendFacts
<1> HIDE DEF r
<1>2. \A i \in DOMAIN r : i \in DOMAIN q \/ i = Len(q) + 1
  BY <1>1
<1>3. \A i \in Copies(r, m) : i \in Copies(q, m) \/ (i = Len(q) + 1 /\ r[i] = e)
  BY <1>1, <1>2 DEF Copies
<1>4. ASSUME Led(q, u, m) PROVE Led(r, u, m)
  <2>1. PICK j \in Acks(q, m) : q[j].user = u /\ \A i \in Copies(q, m) : j < i
    BY <1>4 DEF Led
  <2>2. j \in Acks(r, m) /\ r[j].user = u /\ j < Len(q) + 1
    BY <1>1, <2>1 DEF Acks
  <2> QED
    BY <1>3, <2>1, <2>2 DEF Led
<1>5. ASSUME Copies(q, m) = {}, e.kind = "ack", e.msg = m, e.user = u PROVE Led(r, u, m)
  <2>1. Copies(r, m) = {}
    BY <1>3, <1>5 DEF Copies
  <2>2. Len(q) + 1 \in Acks(r, m)
    BY <1>1, <1>5 DEF Acks
  <2> QED
    BY <1>1, <1>5, <2>1, <2>2 DEF Led
<1>6. Copies(q, m) = {} /\ ~(e.kind = "message" /\ e.msg = m) => Copies(r, m) = {}
  BY <1>3 DEF Copies
<1> QED
  BY <1>4, <1>5, <1>6 DEF r

LEMMA LedTail ==
  ASSUME NEW q \in Seq(Delivery), q # <<>>, NEW u, NEW m, Led(q, u, m)
  PROVE  /\ ~(Head(q).kind = "message" /\ Head(q).msg = m)
         /\ \/ Head(q).kind = "ack" /\ Head(q).msg = m /\ Head(q).user = u
            \/ Led(Tail(q), u, m)
<1>1. PICK j \in Acks(q, m) : q[j].user = u /\ \A i \in Copies(q, m) : j < i
  BY DEF Led
<1>2. /\ Head(q) = q[1] /\ 1 \in DOMAIN q /\ DOMAIN q \subseteq Nat \ {0}
      /\ \A i \in DOMAIN Tail(q) : i \in Nat /\ i + 1 \in DOMAIN q /\ Tail(q)[i] = q[i + 1]
      /\ \A i \in DOMAIN q : i # 1 => i - 1 \in DOMAIN Tail(q)
  BY TailFacts
<1>3. j \in DOMAIN q /\ q[j].kind = "ack" /\ q[j].msg = m
  BY <1>1 DEF Acks
<1>4. 1 \notin Copies(q, m)
  BY <1>1, <1>2, <1>3
<1>5. ~(Head(q).kind = "message" /\ Head(q).msg = m)
  BY <1>2, <1>4 DEF Copies
<1>6. CASE j = 1
  BY <1>1, <1>2, <1>3, <1>5, <1>6
<1>7. CASE j # 1
  <2>1. j - 1 \in DOMAIN Tail(q) /\ Tail(q)[j - 1] = q[j]
    <3>1. j - 1 \in DOMAIN Tail(q)
      BY <1>2, <1>3, <1>7
    <3>2. Tail(q)[j - 1] = q[(j - 1) + 1] /\ (j - 1) + 1 = j
      BY <1>2, <1>3, <3>1
    <3> QED
      BY <3>1, <3>2
  <2>2. j - 1 \in Acks(Tail(q), m) /\ Tail(q)[j - 1].user = u
    BY <1>1, <1>3, <2>1 DEF Acks
  <2>3. ASSUME NEW i \in Copies(Tail(q), m) PROVE j - 1 < i
    <3>1. i \in Nat /\ i + 1 \in Copies(q, m)
      BY <1>2 DEF Copies
    <3> QED
      BY <1>1, <1>2, <1>3, <3>1
  <2> QED
    BY <1>5, <2>2, <2>3 DEF Led
<1> QED
  BY <1>6, <1>7

LEMMA UnsentHasNoCopies ==
  ASSUME NEW m \in Messages, m[2] > sent[m[1]], NEW q, Real(q), sent[m[1]] \in Nat
  PROVE  Copies(q, m) = {}
<1> SUFFICES ASSUME NEW i \in DOMAIN q, q[i].msg = m PROVE FALSE
  BY DEF Copies
<1>1. q[i] \in ToSet(q)
  BY DEF ToSet
<1>2. m[2] \in Nat
  BY Shape DEF Messages
<1> QED
  BY <1>1, <1>2 DEF Real

LEMMA AckInit == ASSUME ClusterInit PROVE AckInv
  BY DEF ClusterInit, AckInv

(* Steps that leave the sender's queue, or only add to it. *)
LEMMA AckKept ==
  ASSUME BaseInv, AckInv, sent' = sent, got' = got, joined' = joined,
         \A n \in Nodes : \/ out'[n] = out[n]
                          \/ \E e \in Delivery : out'[n] = Append(out[n], e)
  PROVE  AckInv'
<1> SUFFICES ASSUME NEW m \in Messages, m[1] \in joined, m[2] <= sent[m[1]]
             PROVE  Told(m[1], m)'
  BY DEF AckInv
<1>1. Told(m[1], m) /\ NodeAt(m[1]) \in Nodes
  BY Shape DEF AckInv, Messages
<1>2. Led(out[NodeAt(m[1])], UserAt(m[1]), m) => Led(out'[NodeAt(m[1])], UserAt(m[1]), m)
  <2> DEFINE n == NodeAt(m[1])
             u == UserAt(m[1])
  <2>1. out[n] \in Seq(Delivery)
    BY <1>1, QueueTypes
  <2>2. \A e \in Delivery : Led(out[n], u, m) => Led(Append(out[n], e), u, m)
    BY <2>1, LedAppend
  <2> QED
    BY <1>1, <2>2
<1> QED
  BY <1>1, <1>2 DEF Told, Led, Acks, Copies

LEMMA AckJoin ==
  ASSUME BaseInv, AckInv, NEW c \in Clients, Join(c) \/ Leave(c) \/ Resubscribe(c)
  PROVE  AckInv'
<1>1. sent' = sent /\ out' = out
  BY DEF Join, Leave, Resubscribe, flow
<1> SUFFICES ASSUME NEW m \in Messages, m[1] \in joined', m[2] <= sent[m[1]]
             PROVE  Told(m[1], m)'
  BY <1>1 DEF AckInv
<1>2. m[1] \in joined /\ got'[m[1]] = got[m[1]]
  <2>1. CASE Join(c)
    <3>1. sent[c] = 0 /\ m[2] \in 1..MaxSends
      BY <2>1 DEF Join, BaseInv, Lives, Messages
    <3>2. m[1] # c
      BY <3>1, Shape
    <3> QED
      BY <2>1, <3>2 DEF Join, flow
  <2>2. CASE Leave(c)
    BY <2>2 DEF Leave, BaseInv, ClusterTypeOK
  <2>3. CASE Resubscribe(c)
    BY <2>3 DEF Resubscribe, flow
  <2> QED
    BY <2>1, <2>2, <2>3
<1> QED
  BY <1>1, <1>2 DEF AckInv, Told, Led, Acks, Copies

LEMMA AckAccept ==
  ASSUME BaseInv, AckInv, NEW c \in Senders, Accept(c)
  PROVE  AckInv'
<1> SUFFICES ASSUME NEW m \in Messages, m[1] \in joined', m[2] <= sent'[m[1]]
             PROVE  Told(m[1], m)'
  BY DEF AckInv
<1> DEFINE s == m[1]
           n == NodeAt(s)
           u == UserAt(s)
<1>1. /\ s \in Clients /\ s \in joined /\ n \in Nodes /\ got' = got
      /\ m[2] \in Nat /\ sent[s] \in Nat
      /\ sent'[s] = IF s = c THEN sent[s] + 1 ELSE sent[s]
      /\ out'[n] = IF n = NodeAt(c) THEN Append(out[n], Ack(c)) ELSE out[n]
      /\ Ack(c) \in Delivery
  BY AcceptEffect, QueueTypes, Shape DEF Messages
<1>2. CASE m[2] <= sent[s]
  <2>1. Told(s, m)
    BY <1>1, <1>2 DEF AckInv
  <2>2. Led(out[n], u, m) => Led(out'[n], u, m)
    BY <1>1, QueueTypes, LedAppend
  <2> QED
    BY <1>1, <2>1, <2>2 DEF Told, Led, Acks, Copies
<1>3. CASE m[2] > sent[s]
  <2>1. s = c /\ m[2] = sent[s] + 1
    BY <1>1, <1>3
  <2>2. Copies(got[s], m) = {} /\ Copies(out[n], m) = {}
    BY <1>1, <1>3, UnsentHasNoCopies DEF BaseInv
  <2>3. Ack(c).kind = "ack" /\ Ack(c).msg = m /\ Ack(c).user = u
    BY <2>1 DEF Ack, Messages
  <2>4. Led(out'[n], u, m)
    <3>1. out[n] \in Seq(Delivery) /\ out'[n] = Append(out[n], Ack(c))
      BY <1>1, <2>1, QueueTypes
    <3>2. Led(Append(out[n], Ack(c)), u, m)
      BY <1>1, <2>2, <2>3, <3>1, LedAppend
    <3> QED
      BY <3>1, <3>2
  <2> QED
    BY <1>1, <2>2, <2>4 DEF Told
<1> QED
  BY <1>1, <1>2, <1>3

LEMMA AckDispatch ==
  ASSUME BaseInv, AckInv, NEW n \in Nodes, Dispatch(n)
  PROVE  AckInv'
<1> DEFINE e == Head(out[n])
<1> SUFFICES ASSUME NEW m \in Messages, m[1] \in joined', m[2] <= sent'[m[1]]
             PROVE  Told(m[1], m)'
  BY DEF AckInv
<1> DEFINE s == m[1]
           u == UserAt(s)
<1>1. /\ s \in Clients /\ s \in joined /\ NodeAt(s) \in Nodes /\ UserOf[s] = <<NodeAt(s), u>>
      /\ e \in Delivery /\ out[n] # <<>> /\ Told(s, m)
  BY DispatchEffect, Shape DEF AckInv, Messages
<1>2. got'[s] = IF NodeAt(s) = n /\ u = e.user THEN Append(got[s], e) ELSE got[s]
  <2>1. got'[s] = IF s \in joined /\ UserOf[s] = <<n, e.user>> THEN Append(got[s], e)
                                                          ELSE got[s]
    BY <1>1, DispatchEffect
  <2> HIDE DEF e
  <2>2. UserOf[s] = <<n, e.user>> <=> NodeAt(s) = n /\ u = e.user
    BY <1>1
  <2> QED
    BY <1>1, <2>1, <2>2
<1>3. out'[n] = Tail(out[n]) /\ \A k \in Nodes : k # n => out'[k] = out[k]
  BY DispatchEffect
<1>4. out[n] \in Seq(Delivery) /\ got[s] \in Seq(Delivery)
  BY <1>1, QueueTypes
<1> HIDE DEF e
<1>5. CASE Led(got[s], u, m)
  <2>1. Led(got'[s], u, m)
    BY <1>1, <1>2, <1>4, <1>5, LedAppend
  <2> QED
    BY <2>1 DEF Told, Led, Acks, Copies
<1>6. CASE Copies(got[s], m) = {} /\ Led(out[NodeAt(s)], u, m)
  <2>1. CASE NodeAt(s) # n
    BY <1>1, <1>2, <1>3, <1>6, <2>1 DEF Told, Led, Acks, Copies
  <2>2. CASE NodeAt(s) = n
    <3>1. /\ ~(e.kind = "message" /\ e.msg = m)
          /\ (e.kind = "ack" /\ e.msg = m /\ e.user = u) \/ Led(Tail(out[n]), u, m)
      BY <1>1, <1>4, <1>6, <2>2, LedTail DEF e
    <3>2. CASE e.kind = "ack" /\ e.msg = m /\ e.user = u
      <4>1. Led(got'[s], u, m)
        BY <1>1, <1>2, <1>4, <1>6, <2>2, <3>2, LedAppend
      <4> QED
        BY <4>1 DEF Told, Led, Acks, Copies
    <3>3. CASE Led(Tail(out[n]), u, m)
      <4>1. Copies(got'[s], m) = {}
        BY <1>1, <1>2, <1>4, <1>6, <3>1, LedAppend
      <4>2. Led(out'[NodeAt(s)], u, m)
        BY <1>3, <2>2, <3>3
      <4> QED
        BY <4>1, <4>2 DEF Told, Led, Acks, Copies
    <3> QED
      BY <3>1, <3>2, <3>3
  <2> QED
    BY <2>1, <2>2
<1> QED
  BY <1>1, <1>5, <1>6 DEF Told

LEMMA AckNext == BaseInv /\ AckInv /\ [ClusterNext]_clusterVars => AckInv'
<1> SUFFICES ASSUME BaseInv, AckInv, [ClusterNext]_clusterVars PROVE AckInv'
  OBVIOUS
<1>1. CASE ClusterTerminated \/ UNCHANGED clusterVars
  BY <1>1, AckKept DEF ClusterTerminated, clusterVars, flow
<1>2. ASSUME NEW c \in Senders, Unanswered(c) \/ Publish(c) \/ PublishFails(c) PROVE AckInv'
  <2>1. UNCHANGED <<joined, sent, out, got>>
    BY <1>2, UnansweredEffect, PublishEffect, PublishFailsEffect
  <2> QED
    BY <2>1, AckKept
<1>3. ASSUME NEW c \in Senders, DeliverLocal(c) PROVE AckInv'
  <2>1. UNCHANGED <<joined, sent, got>> /\ Copy(c) \in Delivery
        /\ \A n \in Nodes : out'[n] \in {out[n], Append(out[n], Copy(c))}
    BY <1>3, DeliverLocalEffect, CopyFacts
  <2> QED
    BY <2>1, AckKept
<1>4. ASSUME NEW n \in Nodes, Forward(n) \/ Lose(n) PROVE AckInv'
  <2>1. CASE Forward(n)
    BY <2>1, ForwardEffect, AckKept
  <2>2. CASE Lose(n)
    BY <2>2, LoseEffect, AckKept
  <2> QED
    BY <1>4, <2>1, <2>2
<1>5. ASSUME NEW d \in Delivery, Late(d) PROVE AckInv'
  <2>1. UNCHANGED <<joined, sent, out, got>>
    BY <1>5, LateEffect
  <2> QED
    BY <2>1, AckKept
<1> QED
  BY <1>1, <1>2, <1>3, <1>4, <1>5, AckJoin, AckAccept, AckDispatch DEF ClusterNext, Handle

(* A connection is told that its message was accepted before it gets its
   copy, although the two go different ways, whatever calls fail.          *)
THEOREM AckComesFirst == ClusterSpec => []AckFirst
<1>1. ClusterInit => AckInv
  BY AckInit
<1>2. BaseInv /\ AckInv => AckFirst
  <2> SUFFICES ASSUME BaseInv, AckInv, NEW m \in Messages,
                      NEW i \in Copies(got[m[1]], m)
               PROVE  \E j \in Acks(got[m[1]], m) : j < i
    BY DEF AckFirst
  <2>1. m[1] \in Clients /\ sent[m[1]] \in Nat /\ m[2] \in Nat
    BY Shape, QueueTypes DEF Messages
  <2>2. m[1] \in joined
    BY <2>1 DEF BaseInv, Lives, Copies
  <2>3. m[2] <= sent[m[1]]
    BY <2>1, UnsentHasNoCopies DEF BaseInv
  <2> QED
    BY <2>2, <2>3 DEF AckInv, Told, Led
<1> QED
  BY <1>1, <1>2, BaseInvariance, AckNext, PTL DEF ClusterSpec

-----------------------------------------------------------------------------
(***************************************************************************)
(* InOrder, while no call fails.                                           *)
(***************************************************************************)

(* Two messages of one sender to one user: in the order they were sent,
   unless the second was sent to Redis again.                              *)
Before(A, d, e) ==
  d.kind = "message" /\ e.kind = "message" /\ d.msg[1] = e.msg[1] /\ d.user = e.user
    => d.msg[2] < e.msg[2] \/ e \in A

Again == {d \in Delivery : tries[d] > 0}

Ordered(A, q) == \A i, j \in DOMAIN q : i < j => Before(A, q[i], q[j])
Precedes(A, q, r) == \A d \in ToSet(q), e \in ToSet(r) : Before(A, d, e)

(* The copy that is next to be published is nowhere yet, if not by a PUBLISH
   that was not answered.                                                  *)
Fresh(d) ==
  LET s == d.msg[1]
      pending == task[s] = "to" \/ (task[s] = "from" /\ d.user = UserAt(s))
  IN  d.kind = "message" /\ pending => d.msg[2] < sent[s] \/ d \in Again

In(d) == \/ \E n \in Nodes : d \in ToSet(relay[n]) \/ d \in ToSet(out[n])
         \/ \E c \in Clients : d \in ToSet(got[c])

(* From Redis to the shards to the connections, first in first out. *)
Along(n) == /\ Ordered(Again, out[n]) /\ Ordered(Again, relay[n])
            /\ Precedes(Again, out[n], relay[n])
UpTo(c)  == /\ Ordered(Again, got[c]) /\ Precedes(Again, got[c], out[NodeAt(c)])
            /\ Precedes(Again, got[c], relay[NodeAt(c)])

OrderInv == failures = 0 =>
  /\ \A c \in Clients : task[c] \notin {"to_local", "from_local"}
  /\ \A d : In(d) => Fresh(d)
  /\ \A n \in Nodes : Along(n)
  /\ \A c \in Clients : UpTo(c)

(* A connection is given what is meant for its user. *)
OwnInv == \A c \in Clients : \A d \in ToSet(got[c]) : d.user = UserAt(c)

LEMMA OrderedAppend ==
  ASSUME NEW A, NEW q \in Seq(Delivery), NEW e \in Delivery, Ordered(A, q),
         \A d \in ToSet(q) : Before(A, d, e)
  PROVE  Ordered(A, Append(q, e))
<1> DEFINE r == Append(q, e)
<1>1. /\ DOMAIN r = 1..(Len(q) + 1) /\ DOMAIN q = 1..Len(q) /\ Len(q) \in Nat
      /\ \A i \in DOMAIN q : r[i] = q[i] /\ q[i] \in ToSet(q)
      /\ r[Len(q) + 1] = e
  BY AppendFacts DEF ToSet
<1> HIDE DEF r
<1> SUFFICES ASSUME NEW i \in DOMAIN r, NEW j \in DOMAIN r, i < j PROVE Before(A, r[i], r[j])
  BY DEF Ordered, r
<1>2. CASE j \in DOMAIN q
  <2>1. i \in DOMAIN q
    BY <1>1, <1>2
  <2> QED
    BY <1>1, <1>2, <2>1 DEF Ordered
<1>3. CASE j = Len(q) + 1
  <2>1. i \in DOMAIN q
    BY <1>1, <1>3
  <2> QED
    BY <1>1, <1>3, <2>1
<1> QED
  BY <1>1, <1>2, <1>3

LEMMA OrderedTail ==
  ASSUME NEW A, NEW q \in Seq(Delivery), Ordered(A, q), q # <<>>
  PROVE  Ordered(A, Tail(q)) /\ \A d \in ToSet(Tail(q)) : Before(A, Head(q), d)
<1>1. /\ Head(q) = q[1] /\ 1 \in DOMAIN q
      /\ \A i \in DOMAIN Tail(q) : i \in Nat \ {0} /\ i + 1 \in DOMAIN q
                                   /\ Tail(q)[i] = q[i + 1]
  BY TailFacts
<1>2. ASSUME NEW i \in DOMAIN Tail(q), NEW j \in DOMAIN Tail(q), i < j
      PROVE  Before(A, Tail(q)[i], Tail(q)[j])
  <2>1. i + 1 < j + 1
    BY <1>1, <1>2
  <2> QED
    BY <1>1, <2>1 DEF Ordered
<1>3. ASSUME NEW i \in DOMAIN Tail(q) PROVE Before(A, Head(q), Tail(q)[i])
  <2>1. 1 < i + 1
    BY <1>1
  <2> QED
    BY <1>1, <2>1 DEF Ordered
<1> QED
  BY <1>2, <1>3 DEF Ordered, ToSet

LEMMA OrderedThinned ==
  ASSUME NEW A, NEW q, NEW r, Ordered(A, q), Thinned(q, r)
  PROVE  Ordered(A, r)
<1>1. PICK f \in [DOMAIN r -> DOMAIN q] :
        /\ \A i \in DOMAIN r : r[i] = q[f[i]]
        /\ \A i, j \in DOMAIN r : i < j => f[i] < f[j]
  BY DEF Thinned
<1> SUFFICES ASSUME NEW i \in DOMAIN r, NEW j \in DOMAIN r, i < j
             PROVE  Before(A, r[i], r[j])
  BY DEF Ordered
<1> QED
  BY <1>1 DEF Ordered

(* More was sent again: less has an order. *)
LEMMA MoreAgain ==
  ASSUME NEW A, NEW B, A \subseteq B
  PROVE  /\ \A q : Ordered(A, q) => Ordered(B, q)
         /\ \A q, r : Precedes(A, q, r) => Precedes(B, q, r)
<1>1. \A d, e : Before(A, d, e) => Before(B, d, e)
  BY DEF Before
<1> QED
  BY <1>1 DEF Ordered, Precedes

LEMMA PrecedesLess ==
  ASSUME NEW A, NEW q, NEW r, NEW p, NEW s, Precedes(A, q, r),
         ToSet(p) \subseteq ToSet(q), ToSet(s) \subseteq ToSet(r)
  PROVE  Precedes(A, p, s)
BY DEF Precedes

(* An acknowledgement has no place in the order of the messages. *)
LEMMA AckAnywhere ==
  ASSUME NEW A, NEW e, e.kind = "ack"
  PROVE  \A d : Before(A, d, e) /\ Before(A, e, d)
BY DEF Before

LEMMA OrderInit == ASSUME ClusterInit PROVE OrderInv /\ OwnInv
<1>1. ToSet(<<>>) = {}
  BY DEF ToSet
<1>2. \A c \in Clients : got[c] = <<>> /\ task[c] = "idle"
  BY DEF ClusterInit
<1>3. \A n \in Nodes : relay[n] = <<>> /\ out[n] = <<>>
  BY DEF ClusterInit
<1>4. Ordered(Again, <<>>)
  BY DEF Ordered
<1>5. \A d : ~In(d)
  BY <1>1, <1>2, <1>3 DEF In
<1>6. \A n \in Nodes : Along(n)
  BY <1>1, <1>3, <1>4 DEF Along, Precedes
<1>7. \A c \in Clients : UpTo(c)
  BY <1>1, <1>2, <1>4 DEF UpTo, Precedes
<1>8. OwnInv
  BY <1>1, <1>2 DEF OwnInv
<1> QED
  BY <1>2, <1>5, <1>6, <1>7, <1>8 DEF OrderInv

LEMMA OwnNext == BaseInv /\ OwnInv /\ [ClusterNext]_clusterVars => OwnInv'
<1> SUFFICES ASSUME BaseInv, OwnInv, [ClusterNext]_clusterVars PROVE OwnInv'
  OBVIOUS
<1>1. CASE UNCHANGED got
  BY <1>1 DEF OwnInv
<1>2. ASSUME NEW c \in Clients, Leave(c) PROVE OwnInv'
  <2>1. \A d \in Clients : got'[d] = IF d = c THEN <<>> ELSE got[d]
    BY <1>2, QueueTypes DEF Leave
  <2>2. ToSet(<<>>) = {}
    BY DEF ToSet
  <2> QED
    BY <2>1, <2>2 DEF OwnInv
<1>3. ASSUME NEW n \in Nodes, Dispatch(n) PROVE OwnInv'
  <2> DEFINE e == Head(out[n])
  <2>1. \A c \in Clients : /\ ToSet(Append(got[c], e)) = ToSet(got[c]) \cup {e}
                           /\ UserOf[c] = <<NodeAt(c), UserAt(c)>>
    BY <1>3, DispatchEffect, QueueTypes, AppendFacts, Shape
  <2>2. \A c \in Clients : got'[c] = IF c \in joined /\ UserOf[c] = <<n, e.user>>
                                       THEN Append(got[c], e) ELSE got[c]
    BY <1>3, DispatchEffect
  <2> HIDE DEF e
  <2> QED
    BY <2>1, <2>2 DEF OwnInv
<1>4. ASSUME NEW c \in Clients, Join(c) \/ Resubscribe(c) PROVE UNCHANGED got
  BY <1>4 DEF Join, Resubscribe, flow
<1>5. ASSUME NEW c \in Senders, Handle(c) PROVE UNCHANGED got
  BY <1>5 DEF Handle, Accept, Unanswered, Publish, PublishFails, DeliverLocal
<1>6. ASSUME NEW n \in Nodes, Forward(n) \/ Lose(n) PROVE UNCHANGED got
  BY <1>6 DEF Forward, Lose
<1>7. ASSUME NEW d \in Delivery, Late(d) PROVE UNCHANGED got
  BY <1>7 DEF Late
<1>8. CASE ClusterTerminated \/ UNCHANGED clusterVars
  BY <1>1, <1>8 DEF ClusterTerminated, clusterVars, flow
<1> QED
  BY <1>1, <1>2, <1>3, <1>4, <1>5, <1>6, <1>8, <1>7 DEF ClusterNext

LEMMA InFacts ==
  ASSUME BaseInv, NEW d, In(d)
  PROVE  d \in Delivery /\ d.msg[2] <= sent[d.msg[1]]
BY QueueTypes DEF In, BaseInv, Real

LEMMA OrderJoin ==
  ASSUME BaseInv, OrderInv, NEW c \in Clients, Join(c) \/ Leave(c) \/ Resubscribe(c)
  PROVE  OrderInv'
<1>1. UNCHANGED <<task, sent, relay, out>> /\ Again' = Again
  BY DEF Join, Leave, Resubscribe, flow, calls, Again
<1>2. failures' = 0 => failures = 0
  <2>1. CASE Resubscribe(c)
    <3>1. TypeOK /\ SubsStep(c) /\ failures \in 0..MaxFailures
      BY <2>1 DEF BaseInv, ClusterTypeOK, TypeOK, Resubscribe, SubsStep
    <3> QED
      BY <3>1, SubsMoves, Shape
  <2>2. CASE Join(c) \/ Leave(c)
    BY <2>2 DEF Join, Leave
  <2> QED
    BY <2>1, <2>2
<1>3. \A d \in Clients : got'[d] = got[d] \/ got'[d] = <<>>
  BY QueueTypes DEF Join, Leave, Resubscribe, flow
<1>4. ToSet(<<>>) = {} /\ Ordered(Again, <<>>)
  BY DEF ToSet, Ordered
<1>5. ASSUME failures' = 0, NEW d \in Clients PROVE UpTo(d)'
  <2>1. UpTo(d)
    BY <1>2, <1>5 DEF OrderInv
  <2> QED
    BY <1>1, <1>3, <1>4, <2>1 DEF UpTo, Precedes
<1>6. ASSUME failures' = 0, NEW d, In(d)' PROVE Fresh(d)'
  <2>1. In(d)
    BY <1>1, <1>3, <1>4, <1>6 DEF In
  <2> QED
    BY <1>1, <1>2, <1>6, <2>1 DEF OrderInv, Fresh
<1> QED
  BY <1>1, <1>2, <1>5, <1>6 DEF OrderInv, Along

LEMMA OrderAccept ==
  ASSUME BaseInv, OrderInv, NEW c \in Senders, Accept(c)
  PROVE  OrderInv'
<1> SUFFICES ASSUME failures' = 0 PROVE OrderInv'
  BY DEF OrderInv
<1> DEFINE e == Ack(c)
<1>1. /\ c \in Clients /\ failures = 0 /\ got' = got /\ relay' = relay /\ Again' = Again
      /\ e \in Delivery /\ e.kind = "ack"
      /\ \A n \in Nodes : out'[n] = IF n = NodeAt(c) THEN Append(out[n], e) ELSE out[n]
      /\ \A d \in Clients : /\ sent'[d] = IF d = c THEN sent[d] + 1 ELSE sent[d]
                            /\ task'[d] = IF d = c THEN "to" ELSE task[d]
                            /\ sent[d] \in Nat
  BY AcceptEffect, QueueTypes DEF Ack, Again
<1>2. \A n \in Nodes : ToSet(Append(out[n], e)) = ToSet(out[n]) \cup {e}
  BY <1>1, QueueTypes, AppendFacts
<1> HIDE DEF e
<1>3. \A d : Before(Again, d, e) /\ Before(Again, e, d)
  BY <1>1, AckAnywhere
<1>4. ASSUME NEW n \in Nodes PROVE Along(n)'
  <2>1. Along(n)
    BY <1>1 DEF OrderInv
  <2>2. Ordered(Again, Append(out[n], e))
    BY <1>1, <1>3, <2>1, QueueTypes, OrderedAppend DEF Along
  <2> QED
    BY <1>1, <1>2, <1>3, <2>1, <2>2 DEF Along, Precedes
<1>5. ASSUME NEW d \in Clients PROVE UpTo(d)'
  <2>1. UpTo(d) /\ NodeAt(d) \in Nodes
    BY <1>1, Shape DEF OrderInv
  <2> QED
    BY <1>1, <1>2, <1>3, <2>1 DEF UpTo, Precedes
<1>6. ASSUME NEW d, In(d)' PROVE Fresh(d)'
  <2>1. In(d) \/ d = e
    BY <1>1, <1>2, <1>6 DEF In
  <2>2. CASE d = e
    BY <1>1, <2>2 DEF Fresh
  <2>3. CASE In(d)
    <3>1. /\ d.msg[1] \in Clients /\ d.msg[2] \in Nat /\ d.msg[2] <= sent[d.msg[1]]
      BY <2>3, InFacts, DeliveryFacts
    <3>2. Fresh(d)
      BY <1>1, <2>3 DEF OrderInv
    <3>3. CASE d.msg[1] = c
      <4>1. d.msg[2] < sent'[d.msg[1]]
        BY <1>1, <3>1, <3>3
      <4> QED
        BY <4>1 DEF Fresh
    <3>4. CASE d.msg[1] # c
      BY <1>1, <3>1, <3>2, <3>4 DEF Fresh
    <3> QED
      BY <3>3, <3>4
  <2> QED
    BY <2>1, <2>2, <2>3
<1>7. \A d \in Clients : task'[d] \notin {"to_local", "from_local"}
  BY <1>1 DEF OrderInv
<1> QED
  BY <1>4, <1>5, <1>6, <1>7 DEF OrderInv

(* What is everywhere was sent before what is published now, or is of a call
   that went unanswered.                                                   *)
LEMMA OrderPublish ==
  ASSUME BaseInv, OrderInv, NEW c \in Senders, Publish(c)
  PROVE  OrderInv'
<1> SUFFICES ASSUME failures' = 0 PROVE OrderInv'
  BY DEF OrderInv
<1> DEFINE e == Copy(c)
<1>1. /\ c \in Clients /\ task[c] \in {"to", "from"} /\ Then(c)
      /\ relay' = Relayed(e) /\ e \in Delivery
      /\ failures = 0 /\ got' = got /\ out' = out /\ sent' = sent /\ Again' = Again
  BY PublishEffect DEF Again
<1>2. /\ \A n \in Nodes : relay'[n] \in {relay[n], Append(relay[n], e)}
      /\ \A n \in Nodes : ToSet(Append(relay[n], e)) = ToSet(relay[n]) \cup {e}
  <2>1. \A n \in Nodes : relay'[n] \in {relay[n], Append(relay[n], e)}
    BY <1>1, RelayedEffect
  <2>2. \A n \in Nodes : ToSet(Append(relay[n], e)) = ToSet(relay[n]) \cup {e}
    BY <1>1, QueueTypes, AppendFacts
  <2> QED
    BY <2>1, <2>2
<1>3. /\ e = CopyFor(Target(c), <<c, sent[c]>>) /\ e.kind = "message"
      /\ e.user = Target(c) /\ e.msg[1] = c /\ e.msg[2] = sent[c] /\ sent[c] \in Nat
  BY <1>1, CopyFacts, QueueTypes DEF Copy, Current
<1>4. /\ \A d \in Clients \ {c} : task'[d] = task[d]
      /\ \/ task[c] = "to" /\ task'[c] = "from" /\ Target(c) # UserAt(c)
         \/ task[c] = "from" /\ task'[c] = "idle" /\ Target(c) = UserAt(c)
  BY <1>1, ThenEffect
<1> HIDE DEF e
<1>5. ASSUME NEW d, In(d) PROVE Before(Again, d, e)
  <2>1. Fresh(d) /\ d \in Delivery /\ d.msg[2] <= sent[d.msg[1]]
    BY <1>1, <1>5, InFacts DEF OrderInv
  <2> SUFFICES ASSUME d.kind = "message", d.msg[1] = c, d.user = Target(c)
               PROVE  d.msg[2] < sent[c] \/ e \in Again
    BY <1>3 DEF Before
  <2>2. d.msg[2] < sent[c] \/ d \in Again
    BY <1>4, <2>1 DEF Fresh
  <2>3. d.msg[2] \in Nat /\ d.msg = <<d.msg[1], d.msg[2]>>
    BY <2>1, DeliveryFacts
  <2>4. d = CopyFor(d.user, d.msg)
    BY <2>1 DEF Delivery, CopyFor
  <2>5. d.msg[2] < sent[c] \/ d.msg[2] = sent[c]
    BY <1>3, <2>1, <2>3
  <2>6. CASE d.msg[2] = sent[c]
    <3>1. d = e
      BY <1>3, <2>3, <2>4, <2>6
    <3> QED
      BY <1>3, <2>2, <2>3, <2>6, <3>1
  <2> QED
    BY <2>5, <2>6
<1>6. ASSUME NEW n \in Nodes PROVE Along(n)'
  <2>1. Along(n)
    BY <1>1 DEF OrderInv
  <2>2. \A d : d \in ToSet(relay[n]) \/ d \in ToSet(out[n]) => Before(Again, d, e)
    BY <1>5 DEF In
  <2>3. Ordered(Again, Append(relay[n], e))
    BY <1>1, <2>1, <2>2, QueueTypes, OrderedAppend DEF Along
  <2>4. Precedes(Again, out[n], relay'[n])
    BY <1>2, <2>1, <2>2 DEF Along, Precedes
  <2>5. Ordered(Again, relay'[n])
    BY <1>2, <2>1, <2>3 DEF Along
  <2> QED
    BY <1>1, <2>1, <2>4, <2>5 DEF Along
<1>7. ASSUME NEW d \in Clients PROVE UpTo(d)'
  <2>1. UpTo(d) /\ NodeAt(d) \in Nodes
    BY <1>1, Shape DEF OrderInv
  <2>2. \A x \in ToSet(got[d]) : Before(Again, x, e)
    BY <1>5 DEF In
  <2> DEFINE n == NodeAt(d)
  <2>3. Precedes(Again, got[d], relay[n]) /\ Precedes(Again, got[d], Append(relay[n], e))
    BY <1>2, <2>1, <2>2 DEF UpTo, Precedes
  <2>4. Precedes(Again, got[d], relay'[n])
    BY <1>2, <2>1, <2>3
  <2> QED
    BY <1>1, <2>1, <2>4 DEF UpTo
<1>8. ASSUME NEW d, In(d)' PROVE Fresh(d)'
  <2>1. \A n \in Nodes : ToSet(relay'[n]) \subseteq ToSet(relay[n]) \cup {e}
    BY <1>2
  <2>2. In(d) \/ d = e
    BY <1>1, <1>8, <2>1 DEF In
  <2>3. CASE d = e
    BY <1>3, <1>4, <2>3 DEF Fresh
  <2>4. CASE In(d)
    <3>1. Fresh(d) /\ d.msg[1] \in Clients
      BY <1>1, <2>4, InFacts, DeliveryFacts DEF OrderInv
    <3> QED
      BY <1>1, <1>4, <3>1 DEF Fresh
  <2> QED
    BY <2>2, <2>3, <2>4
<1>9. \A d \in Clients : task'[d] \notin {"to_local", "from_local"}
  BY <1>1, <1>4 DEF OrderInv
<1> QED
  BY <1>6, <1>7, <1>8, <1>9 DEF OrderInv

LEMMA OrderUnanswered ==
  ASSUME BaseInv, OrderInv, NEW c \in Senders, Unanswered(c)
  PROVE  OrderInv'
<1> SUFFICES ASSUME failures' = 0 PROVE OrderInv'
  BY DEF OrderInv
<1>1. /\ c \in Clients /\ task[c] # "idle" /\ NoAnswer(c) /\ failures = 0
      /\ UNCHANGED <<task, sent, relay, out, got>>
  BY UnansweredEffect
<1>2. Again \subseteq Again'
  <2> SUFFICES ASSUME NEW d \in Delivery, tries[d] > 0 PROVE tries'[d] > 0
    BY DEF Again
  <2> QED
    BY <1>1, NoAnswerEffect
<1>3. \A n \in Nodes : Along(n)'
  BY <1>1, <1>2, MoreAgain DEF OrderInv, Along
<1>4. \A d \in Clients : UpTo(d)'
  BY <1>1, <1>2, MoreAgain DEF OrderInv, UpTo
<1>5. \A d : In(d)' => Fresh(d)'
  BY <1>1, <1>2 DEF OrderInv, In, Fresh
<1> QED
  BY <1>1, <1>3, <1>4, <1>5 DEF OrderInv

(* A late copy comes after anything, as it was sent again. *)
LEMMA OrderLate ==
  ASSUME BaseInv, OrderInv, NEW e \in Delivery, Late(e)
  PROVE  OrderInv'
<1> SUFFICES ASSUME failures' = 0 PROVE OrderInv'
  BY DEF OrderInv
<1>1. /\ failures = 0 /\ UNCHANGED <<task, sent, out, got>> /\ Again' = Again
      /\ e \in Again /\ relay' = Relayed(e)
  BY LateEffect DEF Again
<1>2. \A d : Before(Again, d, e)
  BY <1>1 DEF Before
<1>3. \A n \in Nodes : /\ relay'[n] \in {relay[n], Append(relay[n], e)}
                       /\ ToSet(relay'[n]) \subseteq ToSet(relay[n]) \cup {e}
  BY <1>1, RelayedEffect
<1>4. ASSUME NEW n \in Nodes PROVE Along(n)'
  <2>1. Along(n)
    BY <1>1 DEF OrderInv
  <2>2. Ordered(Again, Append(relay[n], e))
    BY <1>2, <2>1, QueueTypes, OrderedAppend DEF Along
  <2>3. Ordered(Again, relay'[n])
    BY <1>3, <2>1, <2>2 DEF Along
  <2>4. Precedes(Again, out[n], relay'[n])
    BY <1>2, <1>3, <2>1 DEF Along, Precedes
  <2> QED
    BY <1>1, <2>1, <2>3, <2>4 DEF Along
<1>5. ASSUME NEW d \in Clients PROVE UpTo(d)'
  <2>1. UpTo(d) /\ NodeAt(d) \in Nodes
    BY <1>1, Shape DEF OrderInv
  <2>2. Precedes(Again, got[d], relay'[NodeAt(d)])
    BY <1>2, <1>3, <2>1 DEF UpTo, Precedes
  <2> QED
    BY <1>1, <2>1, <2>2 DEF UpTo
<1>6. ASSUME NEW d, In(d)' PROVE Fresh(d)'
  <2>1. In(d) \/ d = e
    BY <1>1, <1>3, <1>6 DEF In
  <2> QED
    BY <1>1, <2>1 DEF OrderInv, Fresh
<1> QED
  BY <1>1, <1>4, <1>5, <1>6 DEF OrderInv

(* Queues move on: nothing new, and each element behind those before it. *)
LEMMA OrderMove ==
  ASSUME OrderInv, failures = 0, task' = task, sent' = sent, Again' = Again,
         \A d : In(d)' => In(d),
         \A n \in Nodes : Along(n)', \A c \in Clients : UpTo(c)'
  PROVE  OrderInv'
BY DEF OrderInv, Fresh

LEMMA OrderForward ==
  ASSUME BaseInv, OrderInv, NEW n \in Nodes, Forward(n)
  PROVE  OrderInv'
<1> SUFFICES ASSUME failures' = 0 PROVE OrderInv'
  BY DEF OrderInv
<1> DEFINE e == Head(relay[n])
<1>1. /\ failures = 0 /\ task' = task /\ sent' = sent /\ got' = got /\ Again' = Again
      /\ relay[n] # <<>> /\ e \in Delivery
      /\ relay'[n] = Tail(relay[n]) /\ out'[n] = Append(out[n], e)
      /\ \A k \in Nodes : k # n => relay'[k] = relay[k] /\ out'[k] = out[k]
  BY ForwardEffect DEF Again
<1>2. /\ ToSet(relay[n]) = ToSet(relay'[n]) \cup {e}
      /\ ToSet(out'[n]) = ToSet(out[n]) \cup {e}
  BY <1>1, QueueTypes, TailFacts, AppendFacts
<1>3. Along(n) /\ \A c \in Clients : UpTo(c)
  BY <1>1 DEF OrderInv
<1>4. Ordered(Again, relay'[n]) /\ \A d \in ToSet(relay'[n]) : Before(Again, e, d)
  BY <1>1, <1>3, QueueTypes, OrderedTail DEF Along
<1> HIDE DEF e
<1>5. \A d \in ToSet(out[n]) : Before(Again, d, e)
  BY <1>2, <1>3 DEF Along, Precedes
<1>6. Ordered(Again, out'[n])
  BY <1>1, <1>3, <1>5, QueueTypes, OrderedAppend DEF Along
<1>7. Precedes(Again, out'[n], relay'[n])
  BY <1>2, <1>3, <1>4 DEF Along, Precedes
<1>8. \A k \in Nodes : Along(k)'
  BY <1>1, <1>4, <1>6, <1>7 DEF OrderInv, Along
<1>9. ASSUME NEW c \in Clients PROVE UpTo(c)'
  <2>1. CASE NodeAt(c) = n
    BY <1>1, <1>2, <1>3, <2>1 DEF UpTo, Precedes
  <2>2. CASE NodeAt(c) # n
    BY <1>1, <1>3, <2>2, Shape DEF UpTo
  <2> QED
    BY <2>1, <2>2
<1>10. \A d : In(d)' => In(d)
  BY <1>1, <1>2 DEF In
<1> QED
  BY <1>1, <1>8, <1>9, <1>10, OrderMove

LEMMA OrderLose ==
  ASSUME BaseInv, OrderInv, NEW n \in Nodes, Lose(n)
  PROVE  OrderInv'
<1> SUFFICES ASSUME failures' = 0 PROVE OrderInv'
  BY DEF OrderInv
<1>1. /\ failures = 0 /\ task' = task /\ sent' = sent /\ got' = got /\ out' = out
      /\ Again' = Again /\ \A k \in Nodes : k # n => relay'[k] = relay[k]
  BY LoseEffect DEF Again
<1>2. Thinned(relay[n], relay'[n])
  BY LoseEffect
<1>3. Along(n) /\ \A c \in Clients : UpTo(c)
  BY <1>1 DEF OrderInv
<1>4. ToSet(relay'[n]) \subseteq ToSet(relay[n])
  BY <1>2, ThinnedSet
<1>5. Ordered(Again, relay'[n])
  BY <1>2, <1>3, OrderedThinned DEF Along
<1>6. \A m \in Nodes : Along(m)'
  BY <1>1, <1>3, <1>4, <1>5 DEF OrderInv, Along, Precedes
<1>7. ASSUME NEW c \in Clients PROVE UpTo(c)'
  <2>1. CASE NodeAt(c) = n
    BY <1>1, <1>3, <1>4, <2>1 DEF UpTo, Precedes
  <2>2. CASE NodeAt(c) # n
    BY <1>1, <1>3, <2>2, Shape DEF UpTo
  <2> QED
    BY <2>1, <2>2
<1>8. \A d : In(d)' => In(d)
  BY <1>1, <1>4 DEF In
<1> QED
  BY <1>1, <1>6, <1>7, <1>8, OrderMove

LEMMA OrderDispatch ==
  ASSUME BaseInv, OrderInv, NEW n \in Nodes, Dispatch(n)
  PROVE  OrderInv'
<1> SUFFICES ASSUME failures' = 0 PROVE OrderInv'
  BY DEF OrderInv
<1> DEFINE e == Head(out[n])
<1>1. /\ failures = 0 /\ task' = task /\ sent' = sent /\ relay' = relay /\ Again' = Again
      /\ out[n] # <<>> /\ e \in Delivery
      /\ out'[n] = Tail(out[n])
      /\ \A k \in Nodes : k # n => out'[k] = out[k]
  BY DispatchEffect DEF Again
<1>2. ToSet(out[n]) = ToSet(out'[n]) \cup {e}
  BY <1>1, QueueTypes, TailFacts
<1>3. Along(n) /\ \A c \in Clients : UpTo(c)
  BY <1>1 DEF OrderInv
<1>4. Ordered(Again, out'[n]) /\ \A d \in ToSet(out'[n]) : Before(Again, e, d)
  BY <1>1, <1>3, QueueTypes, OrderedTail DEF Along
<1>5. \A c \in Clients :
        got'[c] = got[c] \/ (NodeAt(c) = n /\ got'[c] = Append(got[c], e))
  <2>1. \A c \in Clients : UserOf[c] = <<NodeAt(c), UserAt(c)>>
    BY Shape
  <2>2. \A c \in Clients : got'[c] = IF c \in joined /\ UserOf[c] = <<n, e.user>>
                                       THEN Append(got[c], e) ELSE got[c]
    BY DispatchEffect
  <2> HIDE DEF e
  <2>3. \A c \in Clients : UserOf[c] = <<n, e.user>> => NodeAt(c) = n
    BY <2>1
  <2> QED
    BY <2>2, <2>3
<1> HIDE DEF e
<1>6. \A k \in Nodes : Along(k)'
  BY <1>1, <1>2, <1>3, <1>4 DEF OrderInv, Along, Precedes
<1>7. \A c \in Clients : ToSet(Append(got[c], e)) = ToSet(got[c]) \cup {e}
  BY <1>1, QueueTypes, AppendFacts
<1>8. ASSUME NEW c \in Clients PROVE UpTo(c)'
  <2>1. CASE NodeAt(c) # n
    BY <1>1, <1>3, <1>5, <2>1, Shape DEF UpTo
  <2>2. CASE NodeAt(c) = n /\ got'[c] = got[c]
    BY <1>1, <1>2, <1>3, <2>2 DEF UpTo, Precedes
  <2>3. CASE NodeAt(c) = n /\ got'[c] = Append(got[c], e)
    <3>1. \A d \in ToSet(got[c]) : Before(Again, d, e)
      BY <1>2, <1>3, <2>3 DEF UpTo, Precedes
    <3>2. Ordered(Again, got'[c])
      BY <1>1, <1>3, <2>3, <3>1, QueueTypes, OrderedAppend DEF UpTo
    <3>3. Precedes(Again, got'[c], out'[n])
      BY <1>2, <1>3, <1>4, <1>7, <2>3 DEF UpTo, Precedes
    <3>4. Precedes(Again, got'[c], relay'[n])
      BY <1>1, <1>2, <1>3, <1>7, <2>3 DEF UpTo, Along, Precedes
    <3> QED
      BY <1>1, <2>3, <3>2, <3>3, <3>4 DEF UpTo
  <2> QED
    BY <1>5, <2>1, <2>2, <2>3
<1>9. \A d : In(d)' => In(d)
  BY <1>1, <1>2, <1>5, <1>7 DEF In
<1> QED
  BY <1>1, <1>6, <1>8, <1>9, OrderMove

LEMMA OrderNext == BaseInv /\ OrderInv /\ [ClusterNext]_clusterVars => OrderInv'
<1> SUFFICES ASSUME BaseInv, OrderInv, [ClusterNext]_clusterVars PROVE OrderInv'
  OBVIOUS
<1>1. CASE ClusterTerminated \/ UNCHANGED clusterVars
  BY <1>1 DEF ClusterTerminated, clusterVars, flow, calls, OrderInv, In, Fresh, Along, UpTo, Again
<1>2. ASSUME NEW c \in Senders, PublishFails(c) PROVE OrderInv'
  <2>1. failures \in Nat /\ failures' = failures + 1
    BY <1>2, PublishFailsEffect
  <2> QED
    BY <2>1 DEF OrderInv
<1>3. ASSUME NEW c \in Senders, DeliverLocal(c) PROVE OrderInv'
  <2>1. failures' # 0
    BY <1>3, DeliverLocalEffect DEF OrderInv
  <2> QED
    BY <2>1 DEF OrderInv
<1> QED
  BY <1>1, <1>2, <1>3, OrderJoin, OrderAccept, OrderUnanswered, OrderPublish, OrderLate,
     OrderForward, OrderLose, OrderDispatch DEF ClusterNext, Handle

-----------------------------------------------------------------------------
(***************************************************************************)
(* InOrder, how often: the copies of a message on the way to one user      *)
(* through one queue.                                                      *)
(***************************************************************************)
Hit(d, u, m)  == d.kind = "message" /\ d.msg = m /\ d.user = u
Hits(q, u, m) == {i \in DOMAIN q : Hit(q[i], u, m)}
Count(q, u, m) == Cardinality(Hits(q, u, m))
One(d, u, m)  == IF Hit(d, u, m) THEN 1 ELSE 0

LEMMA CountType ==
  ASSUME NEW q \in Seq(Delivery), NEW u, NEW m
  PROVE  IsFiniteSet(Hits(q, u, m)) /\ Count(q, u, m) \in Nat
<1>1. DOMAIN q = 1..Len(q) /\ Len(q) \in Nat
  OBVIOUS
<1>2. IsFiniteSet(DOMAIN q)
  BY <1>1, FS_Interval
<1>3. Hits(q, u, m) \in SUBSET DOMAIN q
  BY DEF Hits
<1> QED
  BY <1>2, <1>3, FS_Subset, FS_CardinalityType DEF Count

LEMMA CountAppend ==
  ASSUME NEW q \in Seq(Delivery), NEW e \in Delivery, NEW u, NEW m
  PROVE  Count(Append(q, e), u, m) = Count(q, u, m) + One(e, u, m)
<1> DEFINE r == Append(q, e)
           l == Len(q) + 1
<1>1. /\ DOMAIN r = 1..l /\ DOMAIN q = 1..Len(q) /\ Len(q) \in Nat
      /\ \A i \in DOMAIN q : r[i] = q[i]
      /\ r[l] = e
  BY AppendFacts
<1>2. DOMAIN r = DOMAIN q \cup {l} /\ l \notin DOMAIN q
  BY <1>1
<1> HIDE DEF r, l
<1>3. CASE Hit(e, u, m)
  <2>1. Hits(r, u, m) = Hits(q, u, m) \cup {l} /\ l \notin Hits(q, u, m)
    BY <1>1, <1>2, <1>3 DEF Hits
  <2> QED
    BY <1>3, <2>1, CountType, FS_AddElement DEF Count, One, r
<1>4. CASE ~Hit(e, u, m)
  <2>1. Hits(r, u, m) = Hits(q, u, m)
    BY <1>1, <1>2, <1>4 DEF Hits
  <2> QED
    BY <1>4, <2>1, CountType DEF Count, One, r
<1> QED
  BY <1>3, <1>4

LEMMA CountTail ==
  ASSUME NEW q \in Seq(Delivery), q # <<>>, NEW u, NEW m
  PROVE  Count(q, u, m) = Count(Tail(q), u, m) + One(Head(q), u, m)
<1> DEFINE r == Tail(q)
           R == Hits(r, u, m)
           Q == Hits(q, u, m)
           f == [i \in R |-> i + 1]
<1>1. /\ r \in Seq(Delivery) /\ Head(q) = q[1] /\ 1 \in DOMAIN q
      /\ \A i \in DOMAIN r : i \in Nat \ {0} /\ i + 1 \in DOMAIN q /\ r[i] = q[i + 1]
      /\ \A i \in DOMAIN q : i \in Nat /\ (i # 1 => i - 1 \in DOMAIN r)
  BY TailFacts
<1>2. IsFiniteSet(R) /\ Cardinality(R) \in Nat
  BY <1>1, CountType DEF Count
<1> HIDE DEF r
<1>3. f \in [R -> Q \ {1}]
  BY <1>1 DEF Hits
<1>4. \A i, j \in R : f[i] = f[j] => i = j
  BY <1>1 DEF Hits
<1>5. ASSUME NEW j \in Q \ {1} PROVE \E i \in R : f[i] = j
  <2>1. j \in DOMAIN q /\ j # 1 /\ Hit(q[j], u, m) /\ j \in Nat
    BY <1>1 DEF Hits
  <2>2. j - 1 \in DOMAIN r /\ (j - 1) + 1 = j
    BY <1>1, <2>1
  <2>3. r[j - 1] = q[j]
    BY <1>1, <2>2
  <2>4. j - 1 \in R
    BY <2>1, <2>2, <2>3 DEF Hits
  <2> QED
    BY <2>2, <2>4
<1>6. ExistsBijection(R, Q \ {1})
  <2> HIDE DEF R, Q, f
  <2>1. f \in Bijection(R, Q \ {1})
    BY <1>3, <1>4, <1>5, Fun_IsBij
  <2> QED
    BY <2>1, Fun_ExistsBij
<1>7. IsFiniteSet(Q \ {1}) /\ Cardinality(Q \ {1}) = Cardinality(R)
  <2> HIDE DEF R, Q, f
  <2> QED
    BY <1>2, <1>6, FS_Bijection
<1>8. CASE Hit(Head(q), u, m)
  <2>1. Q = (Q \ {1}) \cup {1}
    BY <1>1, <1>8 DEF Hits
  <2>2. Cardinality(Q) = Cardinality(R) + 1
    <3> HIDE DEF R, Q
    <3> QED
      BY <1>7, <2>1, FS_AddElement
  <2> QED
    BY <1>8, <2>2 DEF Count, One, r
<1>9. CASE ~Hit(Head(q), u, m)
  <2>1. 1 \notin Q
    BY <1>1, <1>9 DEF Hits
  <2>2. Cardinality(Q) = Cardinality(R) + 0
    <3> HIDE DEF R, Q
    <3>1. Q = Q \ {1}
      BY <2>1
    <3>2. Cardinality(Q) = Cardinality(R)
      BY <1>7, <3>1
    <3> QED
      BY <1>2, <3>2
  <2> QED
    BY <1>9, <2>2 DEF Count, One, r
<1> QED
  BY <1>8, <1>9

LEMMA CountThinned ==
  ASSUME NEW q \in Seq(Delivery), NEW r \in Seq(Delivery), Thinned(q, r), NEW u, NEW m
  PROVE  Count(r, u, m) <= Count(q, u, m)
<1> DEFINE R == Hits(r, u, m)
           Q == Hits(q, u, m)
<1>1. PICK f \in [DOMAIN r -> DOMAIN q] :
        /\ \A i \in DOMAIN r : r[i] = q[f[i]]
        /\ \A i, j \in DOMAIN r : i < j => f[i] < f[j]
  BY DEF Thinned
<1>2. R \subseteq DOMAIN r /\ DOMAIN r \subseteq Nat /\ DOMAIN q \subseteq Nat
  BY DEF Hits
<1> DEFINE g == [i \in R |-> f[i]]
<1>3. g \in [R -> Q]
  BY <1>1 DEF Hits
<1>4. \A i, j \in R : g[i] = g[j] => i = j
  <2> SUFFICES ASSUME NEW i \in R, NEW j \in R, g[i] = g[j], i # j PROVE FALSE
    OBVIOUS
  <2>1. i \in DOMAIN r /\ j \in DOMAIN r /\ f[i] = f[j] /\ f[i] \in Nat /\ f[j] \in Nat
    BY <1>1, <1>2
  <2>2. i < j \/ j < i
    BY <1>2, <2>1
  <2>3. f[i] < f[j] \/ f[j] < f[i]
    BY <1>1, <2>1, <2>2
  <2> QED
    BY <2>1, <2>3
<1>5. IsFiniteSet(Q) /\ IsFiniteSet(R)
  BY CountType
<1>6. Cardinality(R) <= Cardinality(Q)
  <2> HIDE DEF R, Q, g
  <2>1. g \in Injection(R, Q)
    BY <1>3, <1>4, Fun_IsInj
  <2> QED
    BY <1>5, <2>1, FS_Injection
<1> QED
  BY <1>6 DEF Count

LEMMA CountNone ==
  ASSUME NEW q, NEW u, NEW m, \A d \in ToSet(q) : ~Hit(d, u, m)
  PROVE  Count(q, u, m) = 0
<1>1. Hits(q, u, m) = {}
  BY DEF Hits, ToSet
<1> QED
  BY <1>1, FS_EmptySet DEF Count

(* The copies of m that connection c has and those on their way to it. *)
Flow(c, m) == Count(got[c], UserAt(c), m) + Count(out[NodeAt(c)], UserAt(c), m)
                + Count(relay[NodeAt(c)], UserAt(c), m)

(* With those that Redis may yet carry out. *)
For(c, m)  == CopyFor(UserAt(c), m)
Load(c, m) == Flow(c, m) + late[For(c, m)]

(* The handler is not done with the copy for user u. *)
Unsent(u, m) ==
  LET s == m[1]
  IN  \/ m[2] > sent[s]
      \/ m[2] = sent[s] /\ (\/ task[s] \in {"to", "to_local"}
                            \/ task[s] \in {"from", "from_local"} /\ u = UserAt(s))

(* Once by the answered PUBLISH or without Redis, and once for each PUBLISH
   that was not answered.                                                  *)
Allowed(c, m) ==
  /\ Load(c, m) <= tries[For(c, m)] + 1
  /\ Unsent(UserAt(c), m) => Load(c, m) <= tries[For(c, m)]

CountInv == \A c \in Clients, m \in Messages : Allowed(c, m)

LEMMA FlowFacts ==
  ASSUME BaseInv, NEW c \in Clients, NEW m
  PROVE  /\ Count(got[c], UserAt(c), m) \in Nat
         /\ Count(out[NodeAt(c)], UserAt(c), m) \in Nat
         /\ Count(relay[NodeAt(c)], UserAt(c), m) \in Nat
         /\ Flow(c, m) \in Nat
<1>1. /\ Count(got[c], UserAt(c), m) \in Nat
      /\ Count(out[NodeAt(c)], UserAt(c), m) \in Nat
      /\ Count(relay[NodeAt(c)], UserAt(c), m) \in Nat
  BY QueueTypes, CountType, Shape
<1> QED
  BY <1>1 DEF Flow

LEMMA FlowNextFacts ==
  ASSUME BaseInv', NEW c \in Clients, NEW m
  PROVE  Flow(c, m)' \in Nat
<1>1. /\ got'[c] \in Seq(Delivery) /\ out'[NodeAt(c)] \in Seq(Delivery)
      /\ relay'[NodeAt(c)] \in Seq(Delivery)
  BY Shape DEF BaseInv, ClusterTypeOK
<1>2. /\ Count(got'[c], UserAt(c), m) \in Nat
      /\ Count(out'[NodeAt(c)], UserAt(c), m) \in Nat
      /\ Count(relay'[NodeAt(c)], UserAt(c), m) \in Nat
  BY <1>1, CountType
<1> QED
  BY <1>2 DEF Flow

LEMMA ForFacts ==
  ASSUME BaseInv, BaseInv', NEW c \in Clients, NEW m \in Messages
  PROVE  /\ For(c, m) \in Delivery /\ For(c, m).user = UserAt(c)
         /\ For(c, m).kind = "message" /\ For(c, m).msg = m
         /\ tries[For(c, m)] \in Nat /\ tries'[For(c, m)] \in Nat
         /\ late[For(c, m)] \in Nat /\ late'[For(c, m)] \in Nat
         /\ m[1] \in Clients /\ m[2] \in Nat /\ m = <<m[1], m[2]>>
         /\ sent[m[1]] \in Nat
<1>1. /\ For(c, m) \in Delivery /\ For(c, m).user = UserAt(c)
      /\ For(c, m).kind = "message" /\ For(c, m).msg = m
  BY Shape DEF For, CopyFor, Delivery
<1>2. /\ {tries, late} \subseteq [Delivery -> 0..(MaxRetries + 1)]
      /\ {tries, late}' \subseteq [Delivery -> 0..(MaxRetries + 1)]
      /\ MaxRetries \in Nat
  BY Shape DEF BaseInv, ClusterTypeOK
<1>3. m[1] \in Clients /\ m[2] \in Nat /\ m = <<m[1], m[2]>>
  BY Shape DEF Messages
<1> HIDE DEF For
<1> QED
  BY <1>1, <1>2, <1>3, QueueTypes

LEMMA CountInit == ASSUME ClusterInit PROVE CountInv
<1> SUFFICES ASSUME NEW c \in Clients, NEW m \in Messages PROVE Allowed(c, m)
  BY DEF CountInv
<1>1. \A u : Count(<<>>, u, m) = 0
  BY CountNone DEF ToSet
<1>2. got[c] = <<>> /\ out[NodeAt(c)] = <<>> /\ relay[NodeAt(c)] = <<>>
  BY Shape DEF ClusterInit
<1>3. Flow(c, m) = 0
  BY <1>1, <1>2 DEF Flow
<1>4. For(c, m) \in Delivery
  BY Shape DEF For, CopyFor, Delivery
<1>5. tries[For(c, m)] = 0 /\ late[For(c, m)] = 0
  BY <1>4 DEF ClusterInit
<1> QED
  BY <1>3, <1>5 DEF Allowed, Load

(* Steps after which there are no more copies than before, but for calls
   that were not answered meanwhile.                                       *)
LEMMA CountKept ==
  ASSUME CountInv, BaseInv, BaseInv', NEW c \in Clients, NEW m \in Messages,
         Unsent(UserAt(c), m)' => Unsent(UserAt(c), m),
         Load(c, m)' + tries[For(c, m)] <= Load(c, m) + tries'[For(c, m)]
  PROVE  Allowed(c, m)'
<1> DEFINE x == For(c, m)
<1>1. /\ tries[x] \in Nat /\ tries'[x] \in Nat /\ late[x] \in Nat /\ late'[x] \in Nat
      /\ Flow(c, m) \in Nat /\ Flow(c, m)' \in Nat
  BY ForFacts, FlowFacts, FlowNextFacts
<1>2. Load(c, m) \in Nat /\ Load(c, m)' \in Nat
  <2>1. Load(c, m)' = Flow(c, m)' + late'[x]
    BY DEF Load, For
  <2> QED
    BY <1>1, <2>1 DEF Load
<1>3. /\ Load(c, m) <= tries[x] + 1
      /\ Unsent(UserAt(c), m) => Load(c, m) <= tries[x]
  BY DEF CountInv, Allowed
<1> HIDE DEF x
<1>4. /\ Load(c, m)' <= tries'[x] + 1
      /\ Unsent(UserAt(c), m)' => Load(c, m)' <= tries'[x]
  BY <1>1, <1>2, <1>3 DEF x
<1> QED
  BY <1>4 DEF Allowed, For, x

LEMMA CountLess ==
  ASSUME CountInv, BaseInv, BaseInv', task' = task, sent' = sent,
         UNCHANGED <<tries, late>>,
         NEW c \in Clients, NEW m \in Messages, Flow(c, m)' <= Flow(c, m)
  PROVE  Allowed(c, m)'
<1>1. Unsent(UserAt(c), m)' => Unsent(UserAt(c), m)
  BY DEF Unsent
<1>2. Load(c, m)' = Flow(c, m)' + late[For(c, m)]
  BY DEF Load, For
<1>3. Load(c, m)' + tries[For(c, m)] <= Load(c, m) + tries'[For(c, m)]
  BY <1>2, ForFacts, FlowFacts, FlowNextFacts DEF Load
<1> QED
  BY <1>1, <1>3, CountKept

(* What of a message the step of a handler may add to the way to c. *)
Adds(c, m, s) == IF UserAt(c) = Target(s) /\ m = Current(s) THEN 1 ELSE 0

(* A handler is done with one copy, and it is on its way, once. *)
LEMMA CountThen ==
  ASSUME CountInv, BaseInv, BaseInv', NEW s \in Clients, task[s] # "idle", Then(s),
         sent' = sent, UNCHANGED <<tries, late>>,
         NEW c \in Clients, NEW m \in Messages,
         Flow(c, m)' <= Flow(c, m) + Adds(c, m, s)
  PROVE  Allowed(c, m)'
<1> DEFINE x == For(c, m)
<1>1. /\ tries[x] \in Nat /\ late[x] \in Nat /\ Flow(c, m) \in Nat /\ Flow(c, m)' \in Nat
      /\ m[1] \in Clients /\ m[2] \in Nat /\ m = <<m[1], m[2]>> /\ sent[s] \in Nat
  BY ForFacts, FlowFacts, FlowNextFacts, QueueTypes
<1>2. /\ \A d \in Clients \ {s} : task'[d] = task[d]
      /\ \/ /\ task[s] \in {"to", "to_local"} /\ task'[s] = "from"
            /\ Target(s) # UserAt(s)
         \/ /\ task[s] \in {"from", "from_local"} /\ task'[s] = "idle"
            /\ Target(s) = UserAt(s)
  BY ThenEffect
<1>3. Load(c, m)' = Flow(c, m)' + late[x] /\ Load(c, m) = Flow(c, m) + late[x]
  BY DEF Load, For
<1>4. Unsent(UserAt(c), m)' => Unsent(UserAt(c), m)
  BY <1>1, <1>2 DEF Unsent
<1>5. CASE ~(UserAt(c) = Target(s) /\ m = Current(s))
  <2>1. Flow(c, m)' <= Flow(c, m)
    BY <1>1, <1>5 DEF Adds
  <2>2. Load(c, m)' + tries[x] <= Load(c, m) + tries'[x]
    BY <1>1, <1>3, <2>1
  <2> QED
    BY <1>4, <2>2, CountKept
<1>6. CASE UserAt(c) = Target(s) /\ m = Current(s)
  <2>1. m[1] = s /\ m[2] = sent[s]
    BY <1>6 DEF Current
  <2>2. Unsent(UserAt(c), m)
    BY <1>2, <1>6, <2>1 DEF Unsent
  <2>3. ~Unsent(UserAt(c), m)'
    BY <1>1, <1>2, <1>6, <2>1 DEF Unsent
  <2>4. Load(c, m) <= tries[x] /\ Flow(c, m)' <= Flow(c, m) + 1
    BY <1>6, <2>2 DEF CountInv, Allowed, Adds
  <2>5. Load(c, m)' <= tries[x] + 1
    BY <1>1, <1>3, <2>4
  <2> QED
    BY <2>3, <2>5 DEF Allowed, For
<1> QED
  BY <1>5, <1>6

LEMMA RelayedCount ==
  ASSUME BaseInv, BaseInv', NEW e \in Delivery, relay' = Relayed(e),
         got' = got, out' = out, NEW c \in Clients, NEW m \in Messages
  PROVE  Flow(c, m)' <= Flow(c, m) + One(e, UserAt(c), m)
<1> DEFINE n == NodeAt(c)
           u == UserAt(c)
<1>1. relay'[n] \in {relay[n], Append(relay[n], e)}
  BY RelayedEffect, Shape
<1>2. Count(Append(relay[n], e), u, m) = Count(relay[n], u, m) + One(e, u, m)
  BY QueueTypes, CountAppend, Shape
<1>3. One(e, u, m) \in {0, 1}
  BY DEF One
<1>4. /\ Count(got[c], u, m) \in Nat /\ Count(out[n], u, m) \in Nat
      /\ Count(relay[n], u, m) \in Nat
  BY FlowFacts
<1>5. \/ Count(relay'[n], u, m) = Count(relay[n], u, m)
      \/ Count(relay'[n], u, m) = Count(relay[n], u, m) + One(e, u, m)
  BY <1>1, <1>2
<1> QED
  BY <1>3, <1>4, <1>5 DEF Flow

(* The copy a handler is sending counts for the connections of its target. *)
LEMMA CopyCounts ==
  ASSUME BaseInv, NEW s \in Clients, task[s] # "idle", NEW c \in Clients,
         NEW m \in Messages
  PROVE  One(Copy(s), UserAt(c), m) = Adds(c, m, s)
<1>1. /\ Copy(s).kind = "message" /\ Copy(s).user = Target(s)
      /\ Copy(s).msg = Current(s)
  BY CopyFacts
<1> QED
  BY <1>1 DEF One, Hit, Adds

LEMMA CountPublish ==
  ASSUME CountInv, BaseInv, BaseInv', NEW s \in Senders, Publish(s)
  PROVE  CountInv'
<1> SUFFICES ASSUME NEW c \in Clients, NEW m \in Messages PROVE Allowed(c, m)'
  BY DEF CountInv
<1>1. /\ s \in Clients /\ task[s] # "idle" /\ Then(s)
      /\ relay' = Relayed(Copy(s)) /\ Copy(s) \in Delivery
      /\ UNCHANGED <<got, out, sent, tries, late>>
  BY PublishEffect
<1>2. Flow(c, m)' <= Flow(c, m) + Adds(c, m, s)
  BY <1>1, RelayedCount, CopyCounts
<1> QED
  BY <1>1, <1>2, CountThen

(* A call that was not answered: one more may come of it. *)
LEMMA CountNoAnswer ==
  ASSUME CountInv, BaseInv, BaseInv', NEW s \in Senders,
         Unanswered(s) \/ PublishFails(s)
  PROVE  CountInv'
<1> SUFFICES ASSUME NEW c \in Clients, NEW m \in Messages PROVE Allowed(c, m)'
  BY DEF CountInv
<1> DEFINE x == For(c, m)
<1>1. /\ s \in Clients /\ task[s] # "idle" /\ (NoAnswer(s) \/ UNCHANGED calls)
      /\ UNCHANGED <<relay, got, out, sent>>
      /\ \A d \in Clients \ {s} : task'[d] = task[d]
      /\ \/ task' = task
         \/ task[s] = "to" /\ task'[s] = "to_local"
         \/ task[s] = "from" /\ task'[s] = "from_local"
  BY UnansweredEffect, PublishFailsEffect
<1>2. Unsent(UserAt(c), m)' => Unsent(UserAt(c), m)
  <2>1. m[1] \in Clients
    BY ForFacts
  <2> QED
    BY <1>1, <2>1 DEF Unsent
<1>3. /\ x \in Delivery /\ tries[x] \in Nat /\ late[x] \in Nat
      /\ Flow(c, m) \in Nat /\ Flow(c, m)' = Flow(c, m)
  BY <1>1, ForFacts, FlowFacts DEF Flow
<1>4. \/ tries'[x] = tries[x] /\ late'[x] = late[x]
      \/ tries'[x] = tries[x] + 1 /\ late'[x] = late[x] + 1
  BY <1>1, <1>3, NoAnswerEffect
<1>5. Load(c, m)' = Flow(c, m)' + late'[x] /\ Load(c, m) = Flow(c, m) + late[x]
  BY DEF Load, For
<1>6. Load(c, m)' + tries[x] <= Load(c, m) + tries'[x]
  BY <1>3, <1>4, <1>5
<1> QED
  BY <1>2, <1>6, CountKept

(* What comes late is no longer to come. *)
LEMMA CountLate ==
  ASSUME CountInv, BaseInv, BaseInv', NEW e \in Delivery, Late(e)
  PROVE  CountInv'
<1> SUFFICES ASSUME NEW c \in Clients, NEW m \in Messages PROVE Allowed(c, m)'
  BY DEF CountInv
<1> DEFINE x == For(c, m)
<1>1. /\ UNCHANGED <<task, sent, tries, got, out>> /\ relay' = Relayed(e)
      /\ \A d \in Delivery : late'[d] = IF d = e THEN late[d] - 1 ELSE late[d]
  BY LateEffect
<1>2. Flow(c, m)' <= Flow(c, m) + One(e, UserAt(c), m)
  BY <1>1, RelayedCount
<1>3. Unsent(UserAt(c), m)' => Unsent(UserAt(c), m)
  BY <1>1 DEF Unsent
<1>4. /\ x \in Delivery /\ tries[x] \in Nat /\ late[x] \in Nat /\ late'[x] \in Nat
      /\ Flow(c, m) \in Nat /\ Flow(c, m)' \in Nat
  BY ForFacts, FlowFacts, FlowNextFacts
<1>5. Hit(e, UserAt(c), m) => e = x
  BY DEF Hit, For, CopyFor, Delivery
<1>6. Load(c, m)' = Flow(c, m)' + late'[x] /\ Load(c, m) = Flow(c, m) + late[x]
  BY DEF Load, For
<1>7. Load(c, m)' <= Load(c, m)
  <2>1. CASE Hit(e, UserAt(c), m)
    BY <1>1, <1>2, <1>4, <1>5, <1>6, <2>1 DEF One
  <2>2. CASE ~Hit(e, UserAt(c), m)
    BY <1>1, <1>2, <1>4, <1>6, <2>2 DEF One
  <2> QED
    BY <2>1, <2>2
<1>8. Load(c, m)' + tries[x] <= Load(c, m) + tries'[x]
  BY <1>1, <1>4, <1>6, <1>7
<1> QED
  BY <1>3, <1>8, CountKept

LEMMA CountDeliverLocal ==
  ASSUME CountInv, BaseInv, BaseInv', NEW s \in Senders, DeliverLocal(s)
  PROVE  CountInv'
<1> SUFFICES ASSUME NEW c \in Clients, NEW m \in Messages PROVE Allowed(c, m)'
  BY DEF CountInv
<1> DEFINE e == Copy(s)
           n == NodeAt(c)
           u == UserAt(c)
<1>1. /\ s \in Clients /\ task[s] # "idle" /\ Then(s) /\ e \in Delivery
      /\ out'[n] \in {out[n], Append(out[n], e)}
      /\ UNCHANGED <<got, relay, sent, tries, late>>
  <2>1. /\ s \in Clients /\ task[s] # "idle" /\ Then(s)
        /\ UNCHANGED <<got, relay, sent, tries, late>>
    BY DeliverLocalEffect
  <2>2. e \in Delivery
    BY <2>1, CopyFacts
  <2>3. out'[n] \in {out[n], Append(out[n], e)}
    BY DeliverLocalEffect, Shape
  <2> QED
    BY <2>1, <2>2, <2>3
<1>2. Count(Append(out[n], e), u, m) = Count(out[n], u, m) + One(e, u, m)
  <2>1. out[n] \in Seq(Delivery)
    BY QueueTypes, Shape
  <2> HIDE DEF e, n, u
  <2> QED
    BY <1>1, <2>1, CountAppend
<1>3. One(e, u, m) = Adds(c, m, s) /\ Adds(c, m, s) \in {0, 1}
  BY <1>1, CopyCounts DEF Adds
<1>4. /\ Count(got[c], u, m) \in Nat /\ Count(out[n], u, m) \in Nat
      /\ Count(relay[n], u, m) \in Nat
  BY FlowFacts
<1> HIDE DEF e
<1>5. \/ Count(out'[n], u, m) = Count(out[n], u, m)
      \/ Count(out'[n], u, m) = Count(out[n], u, m) + Adds(c, m, s)
  BY <1>1, <1>2, <1>3
<1>6. Flow(c, m)' <= Flow(c, m) + Adds(c, m, s)
  BY <1>1, <1>3, <1>4, <1>5 DEF Flow
<1> QED
  BY <1>1, <1>6, CountThen

LEMMA CountJoin ==
  ASSUME CountInv, BaseInv, BaseInv', NEW d \in Clients,
         Join(d) \/ Leave(d) \/ Resubscribe(d)
  PROVE  CountInv'
<1> SUFFICES ASSUME NEW c \in Clients, NEW m \in Messages PROVE Allowed(c, m)'
  BY DEF CountInv
<1>1. UNCHANGED <<task, sent, tries, late, relay, out>>
  BY DEF Join, Leave, Resubscribe, flow, calls
<1>2. got'[c] = got[c] \/ got'[c] = <<>>
  BY QueueTypes DEF Join, Leave, Resubscribe, flow
<1>3. Count(<<>>, UserAt(c), m) = 0
  BY CountNone DEF ToSet
<1>4. /\ Count(got[c], UserAt(c), m) \in Nat
      /\ Count(out[NodeAt(c)], UserAt(c), m) \in Nat
      /\ Count(relay[NodeAt(c)], UserAt(c), m) \in Nat
  BY FlowFacts
<1>5. Count(got'[c], UserAt(c), m) \in Nat
      /\ Count(got'[c], UserAt(c), m) <= Count(got[c], UserAt(c), m)
  BY <1>2, <1>3, <1>4
<1>6. Flow(c, m)' <= Flow(c, m)
  BY <1>1, <1>4, <1>5 DEF Flow
<1> QED
  BY <1>1, <1>6, CountLess

(* An acknowledgement is no copy. *)
LEMMA CountAccept ==
  ASSUME CountInv, BaseInv, BaseInv', NEW s \in Senders, Accept(s)
  PROVE  CountInv'
<1> SUFFICES ASSUME NEW c \in Clients, NEW m \in Messages PROVE Allowed(c, m)'
  BY DEF CountInv
<1> DEFINE e == Ack(s)
           n == NodeAt(c)
           u == UserAt(c)
<1>1. /\ s \in Clients /\ UNCHANGED <<tries, late, got, relay>>
      /\ e \in Delivery /\ e.kind = "ack"
      /\ out'[n] \in {out[n], Append(out[n], e)}
      /\ \A d \in Clients : /\ sent'[d] = IF d = s THEN sent[d] + 1 ELSE sent[d]
                            /\ task'[d] = IF d = s THEN "to" ELSE task[d]
                            /\ sent[d] \in Nat
  <2>1. s \in Clients /\ e \in Delivery /\ UNCHANGED <<tries, late, got, relay>>
    BY AcceptEffect
  <2>2. e.kind = "ack"
    BY DEF Ack
  <2>3. out'[n] \in {out[n], Append(out[n], e)}
    BY AcceptEffect, Shape
  <2>4. \A d \in Clients : /\ sent'[d] = IF d = s THEN sent[d] + 1 ELSE sent[d]
                           /\ task'[d] = IF d = s THEN "to" ELSE task[d]
                           /\ sent[d] \in Nat
    BY AcceptEffect, QueueTypes
  <2> QED
    BY <2>1, <2>2, <2>3, <2>4
<1>2. Count(Append(out[n], e), u, m) = Count(out[n], u, m) + One(e, u, m)
  <2>1. out[n] \in Seq(Delivery)
    BY QueueTypes, Shape
  <2> HIDE DEF e, n, u
  <2> QED
    BY <1>1, <2>1, CountAppend
<1>3. One(e, u, m) = 0
  BY <1>1 DEF One, Hit
<1>4. Count(out[n], u, m) \in Nat
  BY FlowFacts
<1> HIDE DEF e
<1>5. Count(out'[n], u, m) = Count(out[n], u, m)
  <2>1. CASE out'[n] = out[n]
    BY <2>1
  <2>2. CASE out'[n] = Append(out[n], e)
    BY <1>2, <1>3, <1>4, <2>2
  <2> QED
    BY <1>1, <2>1, <2>2
<1>6. Load(c, m)' = Load(c, m)
  BY <1>1, <1>5 DEF Load, Flow, For
<1>7. Unsent(u, m)' => Unsent(u, m)
  <2>1. m[1] \in Clients /\ m[2] \in Nat
    BY ForFacts
  <2>2. CASE m[1] = s
    BY <1>1, <2>1, <2>2 DEF Unsent
  <2>3. CASE m[1] # s
    BY <1>1, <2>1, <2>3 DEF Unsent
  <2> QED
    BY <2>2, <2>3
<1>8. Load(c, m) \in Nat /\ tries[For(c, m)] \in Nat
  BY ForFacts, FlowFacts DEF Load
<1>9. Load(c, m)' + tries[For(c, m)] <= Load(c, m) + tries'[For(c, m)]
  BY <1>1, <1>6, <1>8
<1> QED
  BY <1>7, <1>9, CountKept

LEMMA CountForward ==
  ASSUME CountInv, BaseInv, BaseInv', NEW n \in Nodes, Forward(n)
  PROVE  CountInv'
<1> SUFFICES ASSUME NEW c \in Clients, NEW m \in Messages PROVE Allowed(c, m)'
  BY DEF CountInv
<1> DEFINE e == Head(relay[n])
           k == NodeAt(c)
           u == UserAt(c)
<1>1. /\ UNCHANGED <<task, sent, tries, late, got>>
      /\ relay[n] # <<>> /\ e \in Delivery /\ k \in Nodes
      /\ k = n => relay'[k] = Tail(relay[n]) /\ out'[k] = Append(out[n], e)
      /\ k # n => relay'[k] = relay[k] /\ out'[k] = out[k]
  BY ForwardEffect, Shape
<1>2. Count(Append(out[n], e), u, m) = Count(out[n], u, m) + One(e, u, m)
  BY <1>1, QueueTypes, CountAppend
<1>3. Count(relay[n], u, m) = Count(Tail(relay[n]), u, m) + One(e, u, m)
  BY <1>1, QueueTypes, CountTail
<1>4. Tail(relay[n]) \in Seq(Delivery)
  BY <1>1, QueueTypes, TailFacts
<1>5. /\ Count(Tail(relay[n]), u, m) \in Nat /\ One(e, u, m) \in Nat
      /\ Count(out[k], u, m) \in Nat /\ Count(got[c], u, m) \in Nat
      /\ Count(relay[k], u, m) \in Nat
  BY <1>4, CountType, FlowFacts DEF One
<1> HIDE DEF e
<1>6. \/ /\ Count(out'[k], u, m) = Count(out[k], u, m) + One(e, u, m)
         /\ Count(relay[k], u, m) = Count(relay'[k], u, m) + One(e, u, m)
         /\ Count(relay'[k], u, m) \in Nat
      \/ Count(out'[k], u, m) = Count(out[k], u, m)
           /\ Count(relay'[k], u, m) = Count(relay[k], u, m)
  <2>1. CASE k = n
    BY <1>1, <1>2, <1>3, <1>5, <2>1
  <2>2. CASE k # n
    BY <1>1, <2>2
  <2> QED
    BY <2>1, <2>2
<1>7. Count(out'[k], u, m) + Count(relay'[k], u, m)
        = Count(out[k], u, m) + Count(relay[k], u, m)
  BY <1>5, <1>6
<1>8. Count(out'[k], u, m) \in Nat /\ Count(relay'[k], u, m) \in Nat
  BY <1>5, <1>6
<1>9. Flow(c, m)' <= Flow(c, m)
  BY <1>1, <1>5, <1>7, <1>8 DEF Flow
<1> QED
  BY <1>1, <1>9, CountLess

LEMMA CountLose ==
  ASSUME CountInv, BaseInv, BaseInv', NEW n \in Nodes, Lose(n)
  PROVE  CountInv'
<1> SUFFICES ASSUME NEW c \in Clients, NEW m \in Messages PROVE Allowed(c, m)'
  BY DEF CountInv
<1> DEFINE k == NodeAt(c)
           u == UserAt(c)
<1>1. /\ UNCHANGED <<task, sent, tries, late, got, out>>
      /\ k \in Nodes /\ (k # n => relay'[k] = relay[k])
      /\ relay'[n] \in Seq(Delivery) /\ Thinned(relay[n], relay'[n])
  BY LoseEffect, Shape
<1>2. Count(relay'[n], u, m) <= Count(relay[n], u, m) /\ Count(relay'[n], u, m) \in Nat
  BY <1>1, QueueTypes, CountThinned, CountType
<1>3. /\ Count(out[k], u, m) \in Nat /\ Count(got[c], u, m) \in Nat
      /\ Count(relay[k], u, m) \in Nat
  BY FlowFacts
<1>4. Count(relay'[k], u, m) \in Nat /\ Count(relay'[k], u, m) <= Count(relay[k], u, m)
  <2>1. CASE k = n
    BY <1>2, <2>1
  <2>2. CASE k # n
    BY <1>1, <1>3, <2>2
  <2> QED
    BY <2>1, <2>2
<1>5. Flow(c, m)' <= Flow(c, m)
  BY <1>1, <1>3, <1>4 DEF Flow
<1> QED
  BY <1>1, <1>5, CountLess

LEMMA CountDispatch ==
  ASSUME CountInv, BaseInv, BaseInv', NEW n \in Nodes, Dispatch(n)
  PROVE  CountInv'
<1> SUFFICES ASSUME NEW c \in Clients, NEW m \in Messages PROVE Allowed(c, m)'
  BY DEF CountInv
<1> DEFINE e == Head(out[n])
           k == NodeAt(c)
           u == UserAt(c)
<1>1. /\ UNCHANGED <<task, sent, tries, late, relay>>
      /\ out[n] # <<>> /\ e \in Delivery /\ k \in Nodes
      /\ k = n => out'[k] = Tail(out[n])
      /\ k # n => out'[k] = out[k]
  BY DispatchEffect, Shape
<1>2. got'[c] = got[c] \/ (k = n /\ got'[c] = Append(got[c], e))
  <2>1. got'[c] = IF c \in joined /\ UserOf[c] = <<n, e.user>> THEN Append(got[c], e)
                                                           ELSE got[c]
    BY DispatchEffect
  <2>2. UserOf[c] = <<n, e.user>> => k = n
    BY Shape
  <2> HIDE DEF e
  <2> QED
    BY <2>1, <2>2
<1>3. Count(Append(got[c], e), u, m) = Count(got[c], u, m) + One(e, u, m)
  BY <1>1, QueueTypes, CountAppend
<1>4. Count(out[n], u, m) = Count(Tail(out[n]), u, m) + One(e, u, m)
  BY <1>1, QueueTypes, CountTail
<1>5. Tail(out[n]) \in Seq(Delivery)
  BY <1>1, QueueTypes, TailFacts
<1>6. /\ Count(Tail(out[n]), u, m) \in Nat /\ One(e, u, m) \in Nat
      /\ Count(out[k], u, m) \in Nat /\ Count(got[c], u, m) \in Nat
      /\ Count(relay[k], u, m) \in Nat
  BY <1>5, CountType, FlowFacts DEF One
<1> HIDE DEF e
<1>7. /\ \/ Count(got'[c], u, m) = Count(got[c], u, m)
         \/ k = n /\ Count(got'[c], u, m) = Count(got[c], u, m) + One(e, u, m)
      /\ \/ /\ Count(out[k], u, m) = Count(out'[k], u, m) + One(e, u, m)
            /\ Count(out'[k], u, m) \in Nat
         \/ k # n /\ Count(out'[k], u, m) = Count(out[k], u, m)
  <2>1. CASE k = n
    BY <1>1, <1>2, <1>3, <1>4, <1>6, <2>1
  <2>2. CASE k # n
    BY <1>1, <1>2, <2>2
  <2> QED
    BY <2>1, <2>2
<1>8. Count(got'[c], u, m) + Count(out'[k], u, m)
        <= Count(got[c], u, m) + Count(out[k], u, m)
  BY <1>6, <1>7
<1>9. Count(got'[c], u, m) \in Nat /\ Count(out'[k], u, m) \in Nat
  BY <1>6, <1>7
<1>10. Flow(c, m)' <= Flow(c, m)
  BY <1>1, <1>6, <1>8, <1>9 DEF Flow
<1> QED
  BY <1>1, <1>10, CountLess

LEMMA CountNext == BaseInv /\ BaseInv' /\ CountInv /\ [ClusterNext]_clusterVars => CountInv'
<1> SUFFICES ASSUME BaseInv, BaseInv', CountInv, [ClusterNext]_clusterVars PROVE CountInv'
  OBVIOUS
<1>1. CASE ClusterTerminated \/ UNCHANGED clusterVars
  <2>1. UNCHANGED <<task, sent, tries, late, relay, out, got>>
    BY <1>1 DEF ClusterTerminated, clusterVars, flow, calls
  <2>2. \A c \in Clients, m \in Messages : Flow(c, m)' <= Flow(c, m)
    BY <2>1, FlowFacts DEF Flow
  <2> QED
    BY <2>1, <2>2, CountLess DEF CountInv
<1> QED
  BY <1>1, CountJoin, CountAccept, CountNoAnswer, CountPublish, CountLate,
     CountDeliverLocal, CountForward, CountLose, CountDispatch DEF ClusterNext, Handle

-----------------------------------------------------------------------------
(***************************************************************************)
(* InOrder, what a connection is owed: while no call fails and no node     *)
(* loses messages, a message is ahead of all later ones of its sender,     *)
(* those sent again included.                                              *)
(***************************************************************************)
After(d, u, m)  == d.kind = "message" /\ d.user = u /\ d.msg[1] = m[1] /\ d.msg[2] > m[2]
Later(q, u, m)  == {i \in DOMAIN q : After(q[i], u, m)}
Free(q, u, m)   == Later(q, u, m) = {}
Leads(q, u, m)  == \E j \in Hits(q, u, m) : \A i \in Later(q, u, m) : j < i

(* It was given to c, or is ahead on its way through the node. *)
First(c, m) ==
  LET u == UserAt(c)
      n == NodeAt(c)
  IN  \/ Leads(got[c], u, m)
      \/ Free(got[c], u, m) /\ Leads(out[n], u, m)
      \/ Free(got[c], u, m) /\ Free(out[n], u, m) /\ Leads(relay[n], u, m)

FirstInv == failures = 0 /\ losses = 0 =>
  \A c \in Clients : \A m \in due[c] : First(c, m)

LEMMA LeadsAppend ==
  ASSUME NEW q \in Seq(Delivery), NEW e \in Delivery, NEW u, NEW m
  PROVE  /\ Leads(q, u, m) => Leads(Append(q, e), u, m)
         /\ Free(q, u, m) /\ Hit(e, u, m) => Leads(Append(q, e), u, m)
         /\ Free(q, u, m) /\ ~After(e, u, m) => Free(Append(q, e), u, m)
<1> DEFINE r == Append(q, e)
<1>1. /\ DOMAIN r = 1..(Len(q) + 1) /\ DOMAIN q = 1..Len(q) /\ Len(q) \in Nat
      /\ \A i \in DOMAIN q : r[i] = q[i]
      /\ r[Len(q) + 1] = e
  BY AppendFacts
<1> HIDE DEF r
<1>2. \A i \in DOMAIN r : i \in DOMAIN q \/ i = Len(q) + 1
  BY <1>1
<1>3. \A i \in Later(r, u, m) : i \in Later(q, u, m) \/ i = Len(q) + 1
  BY <1>1, <1>2 DEF Later
<1>4. ASSUME Leads(q, u, m) PROVE Leads(r, u, m)
  <2>1. PICK j \in Hits(q, u, m) : \A i \in Later(q, u, m) : j < i
    BY <1>4 DEF Leads
  <2>2. j \in Hits(r, u, m) /\ j < Len(q) + 1
    BY <1>1, <2>1 DEF Hits
  <2> QED
    BY <1>3, <2>1, <2>2 DEF Leads
<1>5. ASSUME Free(q, u, m), Hit(e, u, m) PROVE Leads(r, u, m)
  <2>1. ~After(e, u, m)
    <3>1. m[2] \in Nat
      BY <1>5, DeliveryFacts DEF Hit
    <3> QED
      BY <1>5, <3>1 DEF Hit, After
  <2>2. Later(r, u, m) = {}
    BY <1>1, <1>3, <1>5, <2>1 DEF Free, Later
  <2>3. Len(q) + 1 \in Hits(r, u, m)
    BY <1>1, <1>5 DEF Hits
  <2> QED
    BY <2>2, <2>3 DEF Leads
<1>6. Free(q, u, m) /\ ~After(e, u, m) => Free(r, u, m)
  BY <1>1, <1>3 DEF Free, Later
<1> QED
  BY <1>4, <1>5, <1>6 DEF r

LEMMA LeadsTail ==
  ASSUME NEW q \in Seq(Delivery), q # <<>>, NEW u, NEW m
  PROVE  /\ Leads(q, u, m) => ~After(Head(q), u, m)
                              /\ (Hit(Head(q), u, m) \/ Leads(Tail(q), u, m))
         /\ Free(q, u, m) => ~After(Head(q), u, m) /\ Free(Tail(q), u, m)
<1>1. /\ Head(q) = q[1] /\ 1 \in DOMAIN q /\ DOMAIN q \subseteq Nat \ {0}
      /\ \A i \in DOMAIN Tail(q) : i \in Nat /\ i + 1 \in DOMAIN q /\ Tail(q)[i] = q[i + 1]
      /\ \A i \in DOMAIN q : i # 1 => i - 1 \in DOMAIN Tail(q)
  BY TailFacts
<1>2. \A i \in Later(Tail(q), u, m) : i \in Nat /\ i + 1 \in Later(q, u, m)
  BY <1>1 DEF Later
<1>3. After(Head(q), u, m) => 1 \in Later(q, u, m)
  BY <1>1 DEF Later
<1>4. ASSUME Leads(q, u, m)
      PROVE  ~After(Head(q), u, m) /\ (Hit(Head(q), u, m) \/ Leads(Tail(q), u, m))
  <2>1. PICK j \in Hits(q, u, m) : \A i \in Later(q, u, m) : j < i
    BY <1>4 DEF Leads
  <2>2. j \in DOMAIN q /\ j \in Nat \ {0} /\ Hit(q[j], u, m)
    BY <1>1, <2>1 DEF Hits
  <2>3. ~After(Head(q), u, m)
    BY <1>3, <2>1, <2>2
  <2>4. CASE j = 1
    BY <1>1, <2>2, <2>3, <2>4
  <2>5. CASE j # 1
    <3>1. j - 1 \in DOMAIN Tail(q) /\ (j - 1) + 1 = j
      BY <1>1, <2>2, <2>5
    <3>2. Tail(q)[j - 1] = q[j]
      BY <1>1, <3>1
    <3>3. j - 1 \in Hits(Tail(q), u, m)
      BY <2>2, <3>1, <3>2 DEF Hits
    <3>4. \A i \in Later(Tail(q), u, m) : j - 1 < i
      BY <1>2, <2>1, <2>2
    <3> QED
      BY <2>3, <3>3, <3>4 DEF Leads
  <2> QED
    BY <2>4, <2>5
<1>5. Free(q, u, m) => ~After(Head(q), u, m) /\ Free(Tail(q), u, m)
  BY <1>2, <1>3 DEF Free
<1> QED
  BY <1>4, <1>5

(* Nothing of a sender is later than the last message it sent. *)
LEMMA LastHasNoLater ==
  ASSUME NEW s, sent[s] \in Nat, NEW q \in Seq(Delivery), Real(q), NEW u
  PROVE  Free(q, u, <<s, sent[s]>>)
<1> SUFFICES ASSUME NEW i \in DOMAIN q, q[i].msg[1] = s, q[i].msg[2] > sent[s]
             PROVE  FALSE
  BY DEF Free, Later, After
<1>1. q[i] \in ToSet(q) /\ q[i] \in Delivery
  BY DEF ToSet
<1>2. q[i].msg[2] <= sent[s] /\ q[i].msg[2] \in Nat
  BY <1>1, DeliveryFacts DEF Real
<1> QED
  BY <1>2

(* Steps that leave the connections what they have, and append to the queues
   if anything.                                                            *)
LEMMA FirstKept ==
  ASSUME BaseInv, FirstInv, got' = got, failures' = 0 => failures = 0, losses' = losses,
         \A n \in Nodes : \/ out'[n] = out[n] /\ (\/ relay'[n] = relay[n]
                                                  \/ \E e \in Delivery :
                                                       relay'[n] = Append(relay[n], e))
                          \/ /\ relay'[n] = relay[n]
                             /\ \E e \in Delivery : e.kind = "ack"
                                                    /\ out'[n] = Append(out[n], e),
         NEW c \in Clients, NEW m \in due[c], failures' = 0, losses' = 0
  PROVE  First(c, m)'
<1> DEFINE u == UserAt(c)
           n == NodeAt(c)
<1>1. First(c, m) /\ n \in Nodes /\ relay[n] \in Seq(Delivery) /\ out[n] \in Seq(Delivery)
  BY QueueTypes, Shape DEF FirstInv
<1>2. Leads(relay[n], u, m) => Leads(relay'[n], u, m)
  BY <1>1, LeadsAppend
<1>3. /\ Leads(out[n], u, m) => Leads(out'[n], u, m)
      /\ Free(out[n], u, m) => Free(out'[n], u, m)
  <2>1. \A e \in Delivery : e.kind = "ack" => ~After(e, u, m)
    BY DEF After
  <2> QED
    BY <1>1, <2>1, LeadsAppend
<1> QED
  BY <1>1, <1>2, <1>3 DEF First

LEMMA FirstInit == ASSUME ClusterInit PROVE FirstInv
  BY DEF ClusterInit, FirstInv

LEMMA FirstJoin ==
  ASSUME BaseInv, FirstInv, NEW c \in Clients, Join(c) \/ Leave(c) \/ Resubscribe(c)
  PROVE  FirstInv'
<1> SUFFICES ASSUME failures' = 0, losses' = 0, NEW d \in Clients, NEW m \in due'[d]
             PROVE  First(d, m)'
  BY DEF FirstInv
<1>1. UNCHANGED <<relay, out, losses>>
  BY DEF Join, Leave, Resubscribe, flow
<1>2. failures = 0
  <2>1. CASE Resubscribe(c)
    <3>1. TypeOK /\ SubsStep(c) /\ failures \in 0..MaxFailures
      BY <2>1 DEF BaseInv, ClusterTypeOK, TypeOK, Resubscribe, SubsStep
    <3> QED
      BY <3>1, SubsMoves, Shape
  <2>2. CASE Join(c) \/ Leave(c)
    BY <2>2 DEF Join, Leave
  <2> QED
    BY <2>1, <2>2
<1>3. m \in due[d] /\ got'[d] = got[d]
  <2>1. CASE Join(c) \/ Resubscribe(c)
    BY <2>1 DEF Join, Resubscribe, flow
  <2>2. CASE Leave(c)
    BY <2>2 DEF Leave, BaseInv, ClusterTypeOK
  <2> QED
    BY <2>1, <2>2
<1>4. First(d, m)
  BY <1>1, <1>2, <1>3 DEF FirstInv
<1> QED
  BY <1>1, <1>3, <1>4 DEF First

LEMMA FirstAccept ==
  ASSUME BaseInv, FirstInv, NEW c \in Senders, Accept(c)
  PROVE  FirstInv'
<1> SUFFICES ASSUME failures' = 0, losses' = 0, NEW d \in Clients, NEW m \in due'[d]
             PROVE  First(d, m)'
  BY DEF FirstInv
<1>1. /\ UNCHANGED <<failures, losses, relay, got, due>>
      /\ Ack(c) \in Delivery /\ Ack(c).kind = "ack"
      /\ \A n \in Nodes : out'[n] \in {out[n], Append(out[n], Ack(c))}
  BY AcceptEffect DEF Ack
<1> QED
  BY <1>1, FirstKept

(* What is published now is the last message of its sender: it is behind all
   that is there, and later than all of it.                                *)
LEMMA FirstPublish ==
  ASSUME BaseInv, FirstInv, NEW c \in Senders, Publish(c)
  PROVE  FirstInv'
<1> SUFFICES ASSUME failures' = 0, losses' = 0, NEW d \in Clients, NEW m \in due'[d]
             PROVE  First(d, m)'
  BY DEF FirstInv
<1> DEFINE e == Copy(c)
           n == NodeAt(d)
           u == UserAt(d)
<1>1. /\ c \in Clients /\ task[c] # "idle" /\ e \in Delivery /\ relay' = Relayed(e)
      /\ Owe(c, {x \in joined : UserOf[x] \in subscribed})
      /\ UNCHANGED <<failures, losses, out, got>>
  BY PublishEffect
<1>2. \A k \in Nodes : /\ relay'[k] \in {relay[k], Append(relay[k], e)}
                       /\ <<k, e.user>> \in subscribed => relay'[k] = Append(relay[k], e)
  BY <1>1, RelayedEffect
<1>3. CASE m \in due[d]
  BY <1>1, <1>2, <1>3, FirstKept
<1>4. CASE m \notin due[d]
  <2>1. UserOf[d] \in subscribed /\ u = Target(c) /\ m = Current(c)
    <3> DEFINE J == {x \in joined : UserOf[x] \in subscribed}
    <3>1. due'[d] = IF d \in J /\ UserAt(d) = Target(c)
                      THEN due[d] \cup {Current(c)} ELSE due[d]
      BY <1>1, OweEffect
    <3> QED
      BY <1>4, <3>1
  <2>2. n \in Nodes /\ UserOf[d] = <<n, u>> /\ sent[c] \in Nat /\ m = <<c, sent[c]>>
    BY <1>1, <2>1, Shape, QueueTypes DEF Current
  <2>3. Hit(e, u, m) /\ e.user = u
    BY <1>1, <2>1, CopyFacts DEF Hit
  <2>4. Free(got[d], u, m) /\ Free(out[n], u, m) /\ Free(relay[n], u, m)
    BY <2>2, QueueTypes, LastHasNoLater DEF BaseInv
  <2> HIDE DEF e, u, n
  <2>5. relay'[n] = Append(relay[n], e)
    BY <1>2, <2>1, <2>2, <2>3
  <2>6. Leads(relay'[n], u, m)
    BY <1>1, <2>2, <2>3, <2>4, <2>5, QueueTypes, LeadsAppend
  <2> QED
    BY <1>1, <2>4, <2>6 DEF First, u, n
<1> QED
  BY <1>3, <1>4

LEMMA FirstLate ==
  ASSUME BaseInv, FirstInv, NEW e \in Delivery, Late(e)
  PROVE  FirstInv'
<1> SUFFICES ASSUME failures' = 0, losses' = 0, NEW d \in Clients, NEW m \in due'[d]
             PROVE  First(d, m)'
  BY DEF FirstInv
<1>1. UNCHANGED <<failures, losses, out, got, due>> /\ relay' = Relayed(e)
  BY LateEffect
<1>2. \A n \in Nodes : relay'[n] \in {relay[n], Append(relay[n], e)}
  BY <1>1, RelayedEffect
<1> QED
  BY <1>1, <1>2, FirstKept

LEMMA FirstForward ==
  ASSUME BaseInv, FirstInv, NEW n \in Nodes, Forward(n)
  PROVE  FirstInv'
<1> SUFFICES ASSUME failures' = 0, losses' = 0, NEW d \in Clients, NEW m \in due'[d]
             PROVE  First(d, m)'
  BY DEF FirstInv
<1> DEFINE e == Head(relay[n])
           u == UserAt(d)
<1>1. /\ UNCHANGED <<failures, losses, got, due>> /\ relay[n] # <<>> /\ e \in Delivery
      /\ relay'[n] = Tail(relay[n]) /\ out'[n] = Append(out[n], e)
      /\ \A k \in Nodes : k # n => relay'[k] = relay[k] /\ out'[k] = out[k]
  BY ForwardEffect
<1>2. First(d, m) /\ NodeAt(d) \in Nodes
  BY <1>1, Shape DEF FirstInv
<1>3. CASE NodeAt(d) # n
  BY <1>1, <1>2, <1>3 DEF First
<1>4. CASE NodeAt(d) = n
  <2>1. /\ Leads(relay[n], u, m) => ~After(e, u, m) /\ (Hit(e, u, m) \/ Leads(relay'[n], u, m))
        /\ Leads(out[n], u, m) => Leads(out'[n], u, m)
        /\ Free(out[n], u, m) /\ Hit(e, u, m) => Leads(out'[n], u, m)
        /\ Free(out[n], u, m) /\ ~After(e, u, m) => Free(out'[n], u, m)
    BY <1>1, QueueTypes, LeadsTail, LeadsAppend
  <2> QED
    BY <1>1, <1>2, <1>4, <2>1 DEF First
<1> QED
  BY <1>3, <1>4

LEMMA FirstDispatch ==
  ASSUME BaseInv, FirstInv, NEW n \in Nodes, Dispatch(n)
  PROVE  FirstInv'
<1> SUFFICES ASSUME failures' = 0, losses' = 0, NEW d \in Clients, NEW m \in due'[d]
             PROVE  First(d, m)'
  BY DEF FirstInv
<1> DEFINE e == Head(out[n])
           u == UserAt(d)
<1>1. /\ UNCHANGED <<failures, losses, relay, due>> /\ out[n] # <<>> /\ e \in Delivery
      /\ out'[n] = Tail(out[n]) /\ \A k \in Nodes : k # n => out'[k] = out[k]
      /\ got'[d] = IF d \in joined /\ UserOf[d] = <<n, e.user>>
                     THEN Append(got[d], e) ELSE got[d]
  BY DispatchEffect
<1>2. /\ First(d, m) /\ NodeAt(d) \in Nodes /\ UserOf[d] = <<NodeAt(d), u>>
      /\ d \in joined
  BY <1>1, Shape DEF FirstInv, BaseInv, Lives
<1> HIDE DEF e
<1>3. CASE NodeAt(d) # n
  <2>1. got'[d] = got[d]
    BY <1>1, <1>2, <1>3
  <2> QED
    BY <1>1, <1>2, <1>3, <2>1 DEF First
<1>4. CASE NodeAt(d) = n
  <2>1. /\ Leads(out[n], u, m) => ~After(e, u, m) /\ (Hit(e, u, m) \/ Leads(out'[n], u, m))
        /\ Free(out[n], u, m) => ~After(e, u, m) /\ Free(out'[n], u, m)
    BY <1>1, QueueTypes, LeadsTail DEF e
  <2>2. got'[d] = IF e.user = u THEN Append(got[d], e) ELSE got[d]
    BY <1>1, <1>2, <1>4
  <2>3. /\ Leads(got[d], u, m) => Leads(got'[d], u, m)
        /\ Free(got[d], u, m) /\ Hit(e, u, m) => Leads(got'[d], u, m)
        /\ Free(got[d], u, m) /\ ~After(e, u, m) => Free(got'[d], u, m)
    <3>1. Hit(e, u, m) => e.user = u
      BY DEF Hit
    <3> HIDE DEF u
    <3> QED
      BY <1>1, <2>2, <3>1, QueueTypes, LeadsAppend
  <2> QED
    BY <1>1, <1>2, <1>4, <2>1, <2>3 DEF First
<1> QED
  BY <1>3, <1>4

LEMMA FirstNext ==
  BaseInv /\ OrderInv /\ FirstInv /\ [ClusterNext]_clusterVars => FirstInv'
<1> SUFFICES ASSUME BaseInv, OrderInv, FirstInv, [ClusterNext]_clusterVars PROVE FirstInv'
  OBVIOUS
<1>1. CASE ClusterTerminated \/ UNCHANGED clusterVars
  BY <1>1 DEF ClusterTerminated, clusterVars, flow, FirstInv, First
<1>2. ASSUME NEW c \in Senders, Unanswered(c) PROVE FirstInv'
  <2>1. UNCHANGED <<failures, losses, relay, out, got, due>>
    BY <1>2, UnansweredEffect
  <2> QED
    BY <2>1 DEF FirstInv, First
<1>3. ASSUME NEW c \in Senders, PublishFails(c) PROVE FirstInv'
  <2>1. failures \in Nat /\ failures' = failures + 1
    BY <1>3, PublishFailsEffect
  <2> QED
    BY <2>1 DEF FirstInv
<1>4. ASSUME NEW c \in Senders, DeliverLocal(c) PROVE FirstInv'
  <2>1. failures' # 0
    BY <1>4, DeliverLocalEffect DEF OrderInv
  <2> QED
    BY <2>1 DEF FirstInv
<1>5. ASSUME NEW n \in Nodes, Lose(n) PROVE FirstInv'
  <2>1. losses' # 0
    BY <1>5, LoseEffect
  <2> QED
    BY <2>1 DEF FirstInv
<1> QED
  BY <1>1, <1>2, <1>3, <1>4, <1>5, FirstJoin, FirstAccept, FirstPublish, FirstLate,
     FirstForward, FirstDispatch DEF ClusterNext, Handle

(* While no Redis call fails, only what the library sent to Redis again comes
   out of the order of its sender, or a second time, however the
   subscriptions of the user come and go on each node; and a connection that
   was reachable has each message before any later one, even so.  Whatever
   fails, a message comes once and at most once more for each time its
   PUBLISH was not answered.                                               *)
THEOREM MessagesKeepOrder == ClusterSpec => []InOrder
<1>1. ClusterInit => OrderInv /\ OwnInv /\ CountInv /\ FirstInv
  BY OrderInit, CountInit, FirstInit
<1>2. BaseInv /\ OrderInv /\ OwnInv /\ CountInv /\ FirstInv => InOrder
  <2> SUFFICES ASSUME BaseInv, OrderInv, OwnInv, CountInv, FirstInv, NEW c \in Clients
               PROVE  /\ failures = 0 => \A i, j \in DOMAIN got[c] :
                           i < j /\ Overtaken(got[c][j], got[c][i]) => tries[got[c][j]] > 0
                      /\ failures = 0 /\ losses = 0 =>
                           \A m \in due[c] : \A i \in DOMAIN got[c] :
                             got[c][i].kind = "message" /\ got[c][i].msg[1] = m[1]
                               /\ got[c][i].msg[2] > m[2]
                             => \E j \in Copies(got[c], m) : j < i
                      /\ \A m \in Messages :
                           Cardinality(Copies(got[c], m)) <= 1 + tries[CopyFor(UserAt(c), m)]
    BY DEF InOrder
  <2> DEFINE u == UserAt(c)
  <2>1. \A i \in DOMAIN got[c] : got[c][i].user = u /\ got[c][i] \in Delivery
    BY QueueTypes DEF OwnInv, ToSet
  <2>2. ASSUME failures = 0, NEW i \in DOMAIN got[c], NEW j \in DOMAIN got[c],
               i < j, Overtaken(got[c][j], got[c][i])
        PROVE  tries[got[c][j]] > 0
    <3>1. Before(Again, got[c][i], got[c][j])
      BY <2>2 DEF OrderInv, UpTo, Ordered
    <3>2. got[c][i].msg[2] \in Nat /\ got[c][j].msg[2] \in Nat
      BY <2>1, DeliveryFacts
    <3>3. got[c][j] \in Again
      BY <2>1, <2>2, <3>1, <3>2 DEF Before, Overtaken
    <3> QED
      BY <3>3 DEF Again
  <2>3. ASSUME failures = 0, losses = 0, NEW m \in due[c], NEW i \in DOMAIN got[c],
               got[c][i].kind = "message", got[c][i].msg[1] = m[1], got[c][i].msg[2] > m[2]
        PROVE  \E j \in Copies(got[c], m) : j < i
    <3>1. i \in Later(got[c], u, m)
      BY <2>1, <2>3 DEF Later, After
    <3>2. Leads(got[c], u, m)
      BY <2>3, <3>1 DEF FirstInv, First, Free
    <3> QED
      BY <3>1, <3>2 DEF Leads, Hits, Hit, Copies
  <2>4. ASSUME NEW m \in Messages
        PROVE  Cardinality(Copies(got[c], m)) <= 1 + tries[CopyFor(UserAt(c), m)]
    <3>1. Copies(got[c], m) = Hits(got[c], u, m)
      BY <2>1 DEF Copies, Hits, Hit
    <3>2. /\ Flow(c, m) + late[For(c, m)] <= tries[For(c, m)] + 1
          /\ For(c, m) = CopyFor(u, m)
      BY DEF CountInv, Allowed, Load, For
    <3>3. /\ For(c, m) \in Delivery
          /\ {tries, late} \subseteq [Delivery -> 0..(MaxRetries + 1)] /\ MaxRetries \in Nat
      BY Shape DEF For, CopyFor, Delivery, BaseInv, ClusterTypeOK
    <3> HIDE DEF u
    <3>4. tries[For(c, m)] \in Nat /\ late[For(c, m)] \in Nat
      BY <3>3
    <3>5. Count(got[c], u, m) <= Flow(c, m) /\ Count(got[c], u, m) \in Nat
      BY FlowFacts DEF Flow, u
    <3> QED
      BY <3>1, <3>2, <3>4, <3>5, FlowFacts DEF Count, u
  <2> QED
    BY <2>2, <2>3, <2>4
<1> QED
  BY <1>1, <1>2, BaseInvariance, BaseNext, OrderNext, OwnNext, CountNext, FirstNext, PTL
     DEF ClusterSpec

-----------------------------------------------------------------------------
(***************************************************************************)
(* Within the cluster.                                                     *)
(***************************************************************************)
(* What a step of the cluster is to Subscriptions: a step of it, or none but
   for a PUBLISH that was given up.                                        *)
LEMMA SubsOfCluster ==
  ASSUME [ClusterNext]_clusterVars
  PROVE  \/ [Next]_vars
         \/ UNCHANGED subs /\ failures' = failures + 1
<1> USE DEF subs
<1>1. ASSUME NEW c \in Clients, Join(c) \/ Leave(c) \/ Resubscribe(c)
      PROVE  [Next]_vars
  BY <1>1 DEF Join, Leave, Resubscribe, vars, Next, Connection
<1>2. ASSUME NEW c \in Senders, Handle(c)
      PROVE  UNCHANGED subs /\ failures' \in {failures, failures + 1}
  BY <1>2 DEF Handle, Accept, Unanswered, Publish, PublishFails, DeliverLocal
<1>3. ASSUME NEW n \in Nodes, Forward(n) \/ Lose(n) \/ Dispatch(n)
      PROVE  UNCHANGED <<subs, failures>>
  BY <1>3 DEF Forward, Lose, Dispatch
<1>4. ASSUME NEW d \in Delivery, Late(d) PROVE UNCHANGED <<subs, failures>>
  BY <1>4 DEF Late
<1>5. ClusterTerminated \/ UNCHANGED clusterVars => UNCHANGED <<subs, failures>>
  BY DEF ClusterTerminated, clusterVars
<1>6. UNCHANGED <<subs, failures>> => UNCHANGED vars
  BY DEF vars
<1> QED
  BY <1>1, <1>2, <1>3, <1>5, <1>6, <1>4 DEF ClusterNext

(* The same in the cluster, where handlers publish on the same Redis: on
   every node, a user's count is that of the connections that hold it, and
   no channel is left to a node that nobody of that user is on.            *)
THEOREM SubscriptionsHold == ClusterSpec => [](RefsCountHolders /\ NoLeak)
<1>1. ClusterInit => SubsInv
  BY SubsInvInit DEF ClusterInit
<1>2. ASSUME ClusterTypeOK, SubsInv, [ClusterNext]_clusterVars PROVE SubsInv'
  <2>1. TypeOK
    BY <1>2 DEF ClusterTypeOK
  <2>2. CASE [Next]_vars
    BY <1>2, <2>1, <2>2, SubsInvNext
  <2>3. CASE UNCHANGED subs /\ failures' = failures + 1
    <3>1. failures' # 0
      BY <2>1, <2>3, Shape DEF TypeOK
    <3> QED
      BY <1>2, <2>3, <3>1 DEF subs, SubsInv, Counted, Holders, ClientsAt
  <2> QED
    BY <1>2, <2>2, <2>3, SubsOfCluster
<1> QED
  BY <1>1, <1>2, TypeCorrect, SubsInvMeans, PTL DEF ClusterSpec
=============================================================================
