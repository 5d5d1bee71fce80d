---------------------------- MODULE Subscriptions ----------------------------
(***************************************************************************)
(* The reference-counted Redis subscriptions of one node                   *)
(* (internal/fanout/redis.go), as the hub drives them (Register and        *)
(* Unregister in internal/ws/hub.go).                                      *)
(*                                                                         *)
(* The goroutines of the connections share the map refs under a mutex; the *)
(* SUBSCRIBE and UNSUBSCRIBE they decide on are sent after the mutex is    *)
(* released, so another goroutine may run in between.  A connection calls  *)
(* Unsubscribe only after its Subscribe returned: the read loop that       *)
(* unregisters it starts after Register.                                   *)
(*                                                                         *)
(* Redis itself is outside the repository: a call that succeeds takes      *)
(* effect, one that fails may have taken effect or not.                    *)
(***************************************************************************)
EXTENDS Naturals, FiniteSets

CONSTANTS
  Clients,     \* the connections ever opened on this node
  Users,       \* user ids
  UserOf,      \* the user of each connection
  MaxFailures  \* bound: Redis calls that fail

ASSUME SubscriptionsAssumption ==
  /\ IsFiniteSet(Clients)
  /\ UserOf \in [Clients -> Users]
  /\ MaxFailures \in Nat

VARIABLES
  refs,        \* Redis.refs; 0 stands for an absent key
  subscribed,  \* users whose channel Redis delivers to this node
  step,        \* step[c]: where the connection is between its two calls
  stopped,     \* Hub.done is closed
  failures     \* Redis calls that have failed (bounded by MaxFailures)

vars == <<refs, subscribed, step, stopped, failures>>

(* "bare" is a connection served without a reference: its SUBSCRIBE failed,
   or the hub stopped before it was registered.                             *)
Step == {"out", "subscribing", "undo", "open", "bare", "unsubscribing", "closed"}

Init ==
  /\ refs = [u \in Users |-> 0]
  /\ subscribed = {}
  /\ step = [c \in Clients |-> "out"]
  /\ stopped = FALSE
  /\ failures = 0

Goto(c, state) == step' = [step EXCEPT ![c] = state]

-----------------------------------------------------------------------------
(* Register -> Subscribe, under the mutex: the first connection of a user
   has to SUBSCRIBE, the others return at once.                            *)
Subscribe(c) ==
  LET u == UserOf[c]
  IN  /\ step[c] = "out"
      /\ refs' = [refs EXCEPT ![u] = @ + 1]
      /\ Goto(c, IF refs[u] = 0 THEN "subscribing" ELSE "open")
      /\ UNCHANGED <<subscribed, stopped, failures>>

(* Register gives up because the hub has stopped; ServeWs goes on. *)
RegisterRefused(c) ==
  /\ step[c] = "out"
  /\ stopped
  /\ Goto(c, "bare")
  /\ UNCHANGED <<refs, subscribed, stopped, failures>>

SubscribeCall(c) ==
  /\ step[c] = "subscribing"
  /\ subscribed' = subscribed \cup {UserOf[c]}
  /\ Goto(c, "open")
  /\ UNCHANGED <<refs, stopped, failures>>

SubscribeFails(c) ==
  /\ step[c] = "subscribing"
  /\ failures < MaxFailures
  /\ failures' = failures + 1
  /\ subscribed' \in {subscribed, subscribed \cup {UserOf[c]}}
  /\ Goto(c, "undo")
  /\ UNCHANGED <<refs, stopped>>

(* Mutant: the count is decremented without a look at what is left. *)
SubscribeUndo_NoFloor(c) ==
  /\ step[c] = "undo"
  /\ refs' = [refs EXCEPT ![UserOf[c]] = @ - 1]
  /\ Goto(c, "bare")
  /\ UNCHANGED <<subscribed, stopped, failures>>

(* The mutex is taken again to give the reference back: a count that falls
   to zero or below is deleted.  Register only logs the error.             *)
SubscribeUndo(c) ==
  LET u == UserOf[c]
  IN  /\ step[c] = "undo"
      /\ refs' = [refs EXCEPT ![u] = IF @ > 1 THEN @ - 1 ELSE 0]
      /\ Goto(c, "bare")
      /\ UNCHANGED <<subscribed, stopped, failures>>

(* Mutant: a count of one still counts somebody else. *)
Unsubscribe_OffByOne(c) ==
  LET u == UserOf[c]
  IN  /\ step[c] \in {"open", "bare"}
      /\ IF refs[u] \in {0, 1}
           THEN Goto(c, "closed") /\ UNCHANGED refs
           ELSE /\ refs' = [refs EXCEPT ![u] = @ - 1]
                /\ Goto(c, IF refs[u] = 1 THEN "unsubscribing" ELSE "closed")
      /\ UNCHANGED <<subscribed, stopped, failures>>

(* Mutant: the reference is given back, the UNSUBSCRIBE is forgotten. *)
Unsubscribe_NoCall(c) ==
  LET u == UserOf[c]
  IN  /\ step[c] \in {"open", "bare"}
      /\ refs' = [refs EXCEPT ![u] = IF @ > 0 THEN @ - 1 ELSE 0]
      /\ Goto(c, "closed")
      /\ UNCHANGED <<subscribed, stopped, failures>>

(* Mutant: a reference is given back without a look whether there is one. *)
Unsubscribe_Unchecked(c) ==
  LET u == UserOf[c]
  IN  /\ step[c] \in {"open", "bare"}
      /\ refs' = [refs EXCEPT ![u] = @ - 1]
      /\ Goto(c, IF refs[u] > 1 THEN "closed" ELSE "unsubscribing")
      /\ UNCHANGED <<subscribed, stopped, failures>>

(* Unregister -> Unsubscribe, under the mutex: no reference, nothing to do;
   the last reference deletes the key and has to UNSUBSCRIBE.              *)
Unsubscribe(c) ==
  LET u == UserOf[c]
  IN  /\ step[c] \in {"open", "bare"}
      /\ IF refs[u] = 0
           THEN Goto(c, "closed") /\ UNCHANGED refs
           ELSE /\ refs' = [refs EXCEPT ![u] = @ - 1]
                /\ Goto(c, IF refs[u] = 1 THEN "unsubscribing" ELSE "closed")
      /\ UNCHANGED <<subscribed, stopped, failures>>

(* Unregister gives up because the hub has stopped. *)
UnregisterRefused(c) ==
  /\ step[c] \in {"open", "bare"}
  /\ stopped
  /\ Goto(c, "closed")
  /\ UNCHANGED <<refs, subscribed, stopped, failures>>

UnsubscribeCall(c) ==
  /\ step[c] = "unsubscribing"
  /\ subscribed' = subscribed \ {UserOf[c]}
  /\ Goto(c, "closed")
  /\ UNCHANGED <<refs, stopped, failures>>

(* The error is only logged: nothing is given back. *)
UnsubscribeFails(c) ==
  /\ step[c] = "unsubscribing"
  /\ failures < MaxFailures
  /\ failures' = failures + 1
  /\ subscribed' \in {subscribed, subscribed \ {UserOf[c]}}
  /\ Goto(c, "closed")
  /\ UNCHANGED <<refs, stopped>>

Stop ==
  /\ ~stopped
  /\ stopped' = TRUE
  /\ UNCHANGED <<refs, subscribed, step, failures>>

Connection(c) ==
  \/ Subscribe(c) \/ SubscribeCall(c) \/ SubscribeFails(c) \/ SubscribeUndo(c)
  \/ Unsubscribe(c) \/ UnsubscribeCall(c) \/ UnsubscribeFails(c)
  \/ RegisterRefused(c) \/ UnregisterRefused(c)

(* Every connection came and went. *)
Terminated ==
  /\ \A c \in Clients : step[c] = "closed"
  /\ UNCHANGED vars

Next == Stop \/ Terminated \/ \E c \in Clients : Connection(c)

Spec == Init /\ [][Next]_vars

-----------------------------------------------------------------------------
ClientsAt(u, S) == {c \in Clients : UserOf[c] = u /\ step[c] \in S}

(* The connections that took a reference and did not give it back. *)
Holders(u) == ClientsAt(u, {"subscribing", "undo", "open"})

(* No SUBSCRIBE or UNSUBSCRIBE for u is still to be sent or undone. *)
Quiet(u) == ClientsAt(u, {"subscribing", "undo", "unsubscribing"}) = {}

(* The count of a user is never negative (nor is a key kept with a count of
   zero, which this model does not tell from an absent key).               *)
TypeOK ==
  /\ refs \in [Users -> Nat]
  /\ subscribed \subseteq Users
  /\ step \in [Clients -> Step]
  /\ stopped \in BOOLEAN
  /\ failures \in 0..MaxFailures

(* While Redis answers, the count of a user is the number of connections
   that hold a reference, whatever the interleaving of their two-step
   subscribes and unsubscribes.  Failed calls and stolen references only
   ever lower it: once the last connection of a user is gone there is
   nothing left in the map, so the next one does SUBSCRIBE again.          *)
RefsCountHolders == ~stopped => \A u \in Users :
  /\ failures = 0 => refs[u] = Cardinality(Holders(u))
  /\ refs[u] <= Cardinality(Holders(u))

(* While Redis answers, the node is not left subscribed for a user who has
   no connection on it, in whatever order the calls reach Redis.           *)
NoLeak ==
  failures = 0 /\ ~stopped =>
    \A u \in Users : Quiet(u) /\ Holders(u) = {} => u \notin subscribed

(* The promise of TestRedis_SubscriptionIsRefCounted: the subscription is
   not dropped while a connection is still open (once the calls of that
   user's other connections have returned).  The mutex does not cover the
   calls, so an UNSUBSCRIBE decided on earlier may overtake the SUBSCRIBE
   of the next connection.                                                 *)
SubscribedWhileOpen ==
  ~stopped => \A u \in Users :
    Quiet(u) /\ ClientsAt(u, {"open"}) # {} => u \in subscribed

(* The same promise, of the count: it is not zero while a connection whose
   Subscribe succeeded is open.  A connection whose own Subscribe failed
   has no reference, and its Unsubscribe takes that of another.
   No run claims it: the code breaks it (README, section 3).               *)
CountedWhileOpen ==
  ~stopped => \A u \in Users : ClientsAt(u, {"open"}) # {} => refs[u] > 0

=============================================================================
