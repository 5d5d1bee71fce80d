------------------------------ MODULE Mailbox ------------------------------
(***************************************************************************)
(* What the hub promises the connections of a user, with no shards, no     *)
(* channels and no goroutines.                                             *)
(*                                                                         *)
(* A user's mailbox is a log, of which only the length matters: payload n  *)
(* is its n-th entry.  A connection reads consecutive entries from where   *)
(* it was attached.  It may be detached (it left, it was too slow, or the  *)
(* hub stopped) and is then still owed the entries up to end; it closes    *)
(* cleanly after the last of them, or breaks at any time.                  *)
(***************************************************************************)
EXTENDS Naturals

CONSTANTS
  Readers,  \* connections
  Boxes,    \* users
  BoxOf     \* BoxOf[r]: the user of connection r

VARIABLES
  length,   \* length[b]: entries in the log of b
  at,       \* at[r]: the last entry read by r, or where it was attached
  state,    \* state[r]: one of the four states below
  end       \* end[r]: the last entry a detached r is owed, otherwise 0

vars == <<length, at, state, end>>

State == {"absent", "attached", "detached", "closed"}

Init ==
  /\ length = [b \in Boxes |-> 0]
  /\ at = [r \in Readers |-> 0]
  /\ state = [r \in Readers |-> "absent"]
  /\ end = [r \in Readers |-> 0]

Publish(b) ==
  /\ length' = [length EXCEPT ![b] = @ + 1]
  /\ UNCHANGED <<at, state, end>>

(* A connection sees nothing of what was sent before it came. *)
Attach(r) ==
  /\ state[r] = "absent"
  /\ state' = [state EXCEPT ![r] = "attached"]
  /\ at' = [at EXCEPT ![r] = length[BoxOf[r]]]
  /\ UNCHANGED <<length, end>>

Read(r) ==
  /\ \/ state[r] = "attached" /\ at[r] < length[BoxOf[r]]
     \/ state[r] = "detached" /\ at[r] < end[r]
  /\ at' = [at EXCEPT ![r] = @ + 1]
  /\ UNCHANGED <<length, state, end>>

(* The readers of R are detached.  Each is owed all of its log, except that
   a slow one misses the last entry, for which there was no room.          *)
Detach(R, slow) ==
  /\ \A r \in R : state[r] = "attached"
  /\ \A r \in slow : at[r] < length[BoxOf[r]]
  /\ state' = [r \in Readers |-> IF r \in R THEN "detached" ELSE state[r]]
  /\ end' = [r \in Readers |->
               CASE r \in slow        -> length[BoxOf[r]] - 1
                 [] r \in R \ slow    -> length[BoxOf[r]]
                 [] r \in Readers \ R -> end[r]]
  /\ UNCHANGED <<length, at>>

(* A clean close, after the last entry owed. *)
Close(r) ==
  /\ state[r] = "detached"
  /\ at[r] = end[r]
  /\ state' = [state EXCEPT ![r] = "closed"]
  /\ end' = [end EXCEPT ![r] = 0]
  /\ UNCHANGED <<length, at>>

(* The peer is lost. *)
Break(r) ==
  /\ state[r] # "closed"
  /\ state' = [state EXCEPT ![r] = "closed"]
  /\ end' = [end EXCEPT ![r] = 0]
  /\ UNCHANGED <<length, at>>

Next ==
  \/ \E b \in Boxes : Publish(b)
  \/ \E r \in Readers : Attach(r) \/ Read(r) \/ Close(r) \/ Break(r)
  \/ \E R \in SUBSET Readers : \E slow \in SUBSET R : Detach(R, slow)

Spec == Init /\ [][Next]_vars

(* A reader reads on and, once detached, gets closed. *)
Fairness == \A r \in Readers : WF_vars(Read(r)) /\ WF_vars(Close(r))

FairSpec == Spec /\ Fairness
=============================================================================
