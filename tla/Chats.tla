-------------------------------- MODULE Chats --------------------------------
(***************************************************************************)
(* The list of conversations (TouchChats and ListChats in                  *)
(* internal/repository/message/scylla.go, Chats in                         *)
(* internal/usecase/message.go): every saved message is written to the     *)
(* user_chats row of both sides, by persist workers that finish in any     *)
(* order, with the time of the message as the write timestamp.             *)
(*                                                                         *)
(* Scylla keeps a timestamp for every cell: the later write wins, and of   *)
(* two with the same timestamp the greater value, cell by cell.  A message *)
(* is a number here, ordered as the previews compare; users are ordered as *)
(* their ids.  Write timestamps are in microseconds, the column            *)
(* last_activity, which the list is sorted by, in milliseconds.            *)
(***************************************************************************)
EXTENDS Integers, FiniteSets, SequencesExt

CONSTANTS
  Messages,     \* messages ever accepted, numbers
  From, To,     \* the sender and the recipient of each message, numbers
  Known,        \* users Postgres has a name for
  PerMilli,     \* clock readings in a millisecond
  ListLimit,    \* maxChatList (200)
  MaxTime,      \* bound: clock readings
  MaxFailures   \* bound: Scylla calls that fail

Users == {From[m] : m \in Messages} \cup {To[m] : m \in Messages}

ASSUME ChatsAssumption ==
  /\ Messages \subseteq Nat /\ Users \subseteq Nat /\ IsFiniteSet(Messages)
  /\ \A m \in Messages : From[m] # To[m]
  /\ {PerMilli, ListLimit} \subseteq Nat \ {0}
  /\ {MaxTime, MaxFailures} \subseteq Nat

VARIABLES
  clock,     \* what time.Now reads, on any node
  step,      \* step[m]: where message m is, from its acceptance to its save
  created,   \* created[m]: its created_at
  stored,    \* the messages in direct_messages
  row,       \* row[u][p]: the row of owner u and peer p in user_chats
  wrote,     \* wrote[u][p]: history, the messages whose write reached the row
  list,      \* the last list a user was given: the user, the peers in order
  failures   \* Scylla calls that have failed (bounded by MaxFailures)

vars == <<clock, step, created, stored, row, wrote, list, failures>>

Step == {"new", "queued", "first", "second", "done"}
NoRow == [at |-> -1, text |-> -1, by |-> -1]

Init ==
  /\ clock = 0
  /\ step = [m \in Messages |-> "new"]
  /\ created = [m \in Messages |-> 0]
  /\ stored = {}
  /\ row = [u \in Users |-> [p \in Users |-> NoRow]]
  /\ wrote = [u \in Users |-> [p \in Users |-> {}]]
  /\ list = [user |-> -1, peers |-> <<>>]
  /\ failures = 0

Goto(m, s) == step' = [step EXCEPT ![m] = s]
Fail == failures < MaxFailures /\ failures' = failures + 1

Tick ==
  /\ clock < MaxTime
  /\ clock' = clock + 1
  /\ UNCHANGED <<step, created, stored, row, wrote, list, failures>>

(* handleMessage stamps the message and queues it for a worker. *)
Accept(m) ==
  /\ step[m] = "new"
  /\ created' = [created EXCEPT ![m] = clock]
  /\ Goto(m, "queued")
  /\ UNCHANGED <<clock, stored, row, wrote, list, failures>>

-----------------------------------------------------------------------------
(* Repository.Save: the message itself, then the row of either side. *)

Store(m) ==
  /\ step[m] = "queued"
  /\ stored' = stored \cup {m}
  /\ Goto(m, "first")
  /\ UNCHANGED <<clock, created, row, wrote, list, failures>>

(* A failed save ends here; the row may have been written. *)
StoreFails(m) ==
  /\ step[m] = "queued"
  /\ Fail
  /\ stored' \in {stored, stored \cup {m}}
  /\ Goto(m, "done")
  /\ UNCHANGED <<clock, created, row, wrote, list>>

Owner(m) == IF step[m] = "first" THEN From[m] ELSE To[m]
Peer(m)  == IF step[m] = "first" THEN To[m] ELSE From[m]

Later(x, y) == IF x > y THEN x ELSE y

(* Mutant: the write goes without a timestamp of its own. *)
Upsert_Arrival(r, m) == [at |-> created[m], text |-> m, by |-> From[m]]

(* Mutant: the message comes to the worker without its created_at. *)
Upsert_ZeroTime(r, m) == [at |-> -1, text |-> m, by |-> From[m]]

(* INSERT ... USING TIMESTAMP, merged cell by cell. *)
Upsert(r, m) ==
  CASE created[m] > r.at -> [at |-> created[m], text |-> m, by |-> From[m]]
    [] created[m] = r.at -> [r EXCEPT !.text = Later(@, m), !.by = Later(@, From[m])]
    [] OTHER             -> r

Written(m) ==
  /\ row' = [row EXCEPT ![Owner(m)][Peer(m)] = Upsert(@, m)]
  /\ wrote' = [wrote EXCEPT ![Owner(m)][Peer(m)] = @ \cup {m}]

(* Mutant: only the sender's side is written. *)
Touch_OneSide(m) ==
  /\ step[m] \in {"first", "second"}
  /\ Written(m)
  /\ Goto(m, "done")
  /\ UNCHANGED <<clock, created, stored, list, failures>>

(* TouchChats: the sender's side, then the recipient's. *)
Touch(m) ==
  /\ step[m] \in {"first", "second"}
  /\ Written(m)
  /\ Goto(m, IF step[m] = "first" THEN "second" ELSE "done")
  /\ UNCHANGED <<clock, created, stored, list, failures>>

(* The first error ends it, and is only logged; the write may have been
   carried out.                                                            *)
TouchFails(m) ==
  /\ step[m] \in {"first", "second"}
  /\ Fail
  /\ Written(m) \/ UNCHANGED <<row, wrote>>
  /\ Goto(m, "done")
  /\ UNCHANGED <<clock, created, stored, list>>

-----------------------------------------------------------------------------
Activity(u, p) == row[u][p].at \div PerMilli
Peers(u) == {p \in Users : row[u][p] # NoRow}

(* Mutant: the rows are cut to the limit before they are sorted. *)
Pages_CutFirst(u) ==
  LET cut == {P \in SUBSET Peers(u) : P = Peers(u) \/ Cardinality(P) = ListLimit}
  IN  {s \in UNION {SetToSeqs(P) : P \in cut} :
         /\ Len(s) <= ListLimit
         /\ \A i, j \in DOMAIN s : i < j => Activity(u, s[i]) >= Activity(u, s[j])}

(* ListChats: the rows of the partition, the most recently active first
   (the sort is not stable: equal times come in any order), up to the
   limit.                                                                  *)
Pages(u) ==
  LET sorted == {s \in SetToSeqs(Peers(u)) : \A i, j \in DOMAIN s :
                   i < j => Activity(u, s[i]) >= Activity(u, s[j])}
  IN  {SubSeq(s, 1, IF Len(s) < ListLimit THEN Len(s) ELSE ListLimit) : s \in sorted}

(* The k-th of a set of positions. *)
Nth(K, k) == CHOOSE i \in K : Cardinality({j \in K : j <= i}) = k

(* hydratePeers leaves out the peers without a name: SelectSeq, without its
   recursion.                                                              *)
Named(page) ==
  LET kept == {i \in DOMAIN page : page[i] \in Known}
  IN  [k \in 1..Cardinality(kept) |-> page[Nth(kept, k)]]

(* MessageUseCase.Chats. *)
ListChats(u) ==
  /\ \E page \in Pages(u) : list' = [user |-> u, peers |-> Named(page)]
  /\ UNCHANGED <<clock, step, created, stored, row, wrote, failures>>

Save(m) == Store(m) \/ StoreFails(m) \/ Touch(m) \/ TouchFails(m)

Next ==
  \/ Tick
  \/ \E m \in Messages : Accept(m) \/ Save(m)
  \/ \E u \in Users : ListChats(u)

Spec == Init /\ [][Next]_vars

-----------------------------------------------------------------------------
Row == [at : 0..MaxTime, text : Messages, by : Users] \cup {NoRow}

TypeOK ==
  /\ clock \in 0..MaxTime
  /\ step \in [Messages -> Step]
  /\ created \in [Messages -> 0..MaxTime]
  /\ stored \subseteq Messages
  /\ row \in [Users -> [Users -> Row]]
  /\ wrote \in [Users -> [Users -> SUBSET Messages]]
  /\ list \in [user : Users \cup {-1}, peers : Seq(Users)]
  /\ failures \in 0..MaxFailures

(* README: "an out-of-order write cannot overwrite a newer one".  A row is
   always as recent as the newest of the messages written to it, in
   whatever order the workers finish; its preview is in the history, and
   its sender is the preview's, unless two of the messages written to it
   were created in the same microsecond.                                   *)
RowIsNewest == \A u, p \in Users :
  /\ wrote[u][p] = {} <=> row[u][p] = NoRow
  /\ \A m \in wrote[u][p] : created[m] <= row[u][p].at
  /\ row[u][p] # NoRow =>
       /\ row[u][p].text \in stored
       /\ \/ row[u][p].by = From[row[u][p].text]
          \/ \E m, k \in wrote[u][p] : m # k /\ created[m] = created[k]

(* Once the saves are over, both sides show the same message, unless a
   write failed.                                                           *)
SidesAgree ==
  failures = 0 /\ (\A m \in Messages : step[m] \in {"new", "queued", "done"}) =>
    \A u, p \in Users : row[u][p] = row[p][u]

(* README: "Most recently active first" (to the millisecond).  Nothing that
   was left out for the limit is more recent than what was kept.           *)
MostRecentFirst == [][\A u \in Users : ListChats(u) =>
  LET shown == list'.peers
  IN  \A i \in DOMAIN shown :
        /\ \A j \in DOMAIN shown :
             i < j => Activity(u, shown[i]) >= Activity(u, shown[j])
        /\ \A p \in Peers(u) \cap Known :
             Activity(u, p) > Activity(u, shown[i]) => p \in ToSet(shown)]_vars

=============================================================================
