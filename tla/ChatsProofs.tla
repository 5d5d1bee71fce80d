----------------------------- MODULE ChatsProofs -----------------------------
(* Theorems about Chats, for any messages, users and limits. *)
EXTENDS Chats, FiniteSetTheorems, FunctionTheorems, TLAPS

LEMMA Shape ==
  /\ Messages \subseteq Nat /\ Users \subseteq Nat /\ IsFiniteSet(Messages)
  /\ \A m \in Messages : /\ m \in Nat /\ From[m] # To[m]
                         /\ From[m] \in Users /\ From[m] \in Nat
                         /\ To[m] \in Users /\ To[m] \in Nat
  /\ PerMilli \in Nat \ {0} /\ ListLimit \in Nat \ {0}
  /\ MaxTime \in Nat /\ MaxFailures \in Nat
<1>1. /\ Messages \subseteq Nat /\ Users \subseteq Nat /\ IsFiniteSet(Messages)
      /\ \A m \in Messages : From[m] # To[m]
      /\ PerMilli \in Nat \ {0} /\ ListLimit \in Nat \ {0}
      /\ MaxTime \in Nat /\ MaxFailures \in Nat
  BY ChatsAssumption DEF ChatsAssumption
<1>2. \A m \in Messages : From[m] \in Users /\ To[m] \in Users
  BY DEF Users
<1> QED
  BY <1>1, <1>2

(***************************************************************************)
(* One row: what the cells hold is decided by the messages written to it,  *)
(* whatever their order.                                                   *)
(***************************************************************************)
Holds(r, W) ==
  /\ W = {} <=> r = NoRow
  /\ r # NoRow =>
       /\ \A m \in W : created[m] <= r.at
       /\ r.text \in W /\ created[r.text] = r.at
       /\ \A m \in W : created[m] = r.at => m <= r.text /\ From[m] <= r.by
       /\ \E m \in W : created[m] = r.at /\ From[m] = r.by

LEMMA RowFacts ==
  ASSUME NEW r \in Row
  PROVE  /\ NoRow.at = -1 /\ NoRow \in Row
         /\ r # NoRow => /\ r.at \in 0..MaxTime /\ r.at \in Nat
                         /\ r.text \in Messages /\ r.text \in Nat
                         /\ r.by \in Users /\ r.by \in Nat
                         /\ r = [at |-> r.at, text |-> r.text, by |-> r.by]
<1>1. NoRow.at = -1 /\ NoRow \in Row
  BY DEF Row, NoRow
<1>2. ASSUME r # NoRow
      PROVE  /\ r.at \in 0..MaxTime /\ r.text \in Messages /\ r.by \in Users
             /\ r = [at |-> r.at, text |-> r.text, by |-> r.by]
  <2>1. r \in [at : 0..MaxTime, text : Messages, by : Users]
    BY <1>2 DEF Row
  <2> QED
    BY <2>1
<1>3. \A n \in 0..MaxTime : n \in Nat
  BY Shape
<1> QED
  BY <1>1, <1>2, <1>3, Shape

LEMMA UpsertFacts ==
  ASSUME NEW r \in Row, NEW W \in SUBSET Messages, Holds(r, W),
         created \in [Messages -> 0..MaxTime], NEW m \in Messages
  PROVE  Upsert(r, m) \in Row /\ Upsert(r, m) # NoRow /\ Holds(Upsert(r, m), W \cup {m})
<1> DEFINE t == created[m]
           x == Upsert(r, m)
<1>1. t \in 0..MaxTime /\ t \in Nat /\ \A k \in W : created[k] \in Nat
  BY Shape
<1>2. r = NoRow \/ (r # NoRow /\ r.at \in Nat)
  BY RowFacts
<1>3. CASE r = NoRow \/ (r # NoRow /\ r.at \in Nat /\ t > r.at)
  <2>1. t > r.at
    BY <1>1, <1>3, RowFacts
  <2>2. x = [at |-> t, text |-> m, by |-> From[m]]
    BY <2>1 DEF Upsert
  <2> HIDE DEF x
  <2>3. x \in Row /\ x # NoRow /\ x.at = t /\ x.text = m /\ x.by = From[m]
    BY <1>1, <2>2, Shape DEF Row, NoRow
  <2>4. \A k \in W : created[k] < t
    BY <1>1, <1>2, <1>3, <2>1, RowFacts DEF Holds
  <2>5. Holds(x, W \cup {m})
    BY <1>1, <2>3, <2>4, Shape DEF Holds
  <2> QED
    BY <2>3, <2>5 DEF x
<1>4. CASE r # NoRow /\ r.at \in Nat /\ t = r.at
  <2>1. x = [r EXCEPT !.text = Later(@, m), !.by = Later(@, From[m])]
    BY <1>1, <1>4 DEF Upsert
  <2>2. /\ r.text \in Messages /\ r.text \in Nat /\ r.by \in Users /\ r.by \in Nat
        /\ r = [at |-> r.at, text |-> r.text, by |-> r.by]
    BY <1>4, RowFacts
  <2>3. x = [at |-> t, text |-> Later(r.text, m), by |-> Later(r.by, From[m])]
    BY <1>4, <2>1, <2>2
  <2> HIDE DEF x
  <2>4. x.at = t /\ x.text = Later(r.text, m) /\ x.by = Later(r.by, From[m])
    BY <2>3
  <2>5. /\ x.text \in {r.text, m} /\ x.text >= r.text /\ x.text >= m
        /\ x.by \in {r.by, From[m]} /\ x.by >= r.by /\ x.by >= From[m]
    BY <2>2, <2>4, Shape DEF Later
  <2>6. x \in Row /\ x # NoRow
    BY <1>1, <2>2, <2>3, <2>4, <2>5, Shape DEF Row, NoRow
  <2>7. \A k \in W : created[k] <= t
    BY <1>4 DEF Holds
  <2>8. x.text \in W \cup {m} /\ created[x.text] = t
    BY <1>4, <2>5 DEF Holds
  <2>9. \A k \in W \cup {m} : created[k] = t => k <= x.text /\ From[k] <= x.by
    <3>1. ASSUME NEW k \in W, created[k] = t PROVE k <= r.text /\ From[k] <= r.by
      BY <1>4, <3>1 DEF Holds
    <3> QED
      BY <2>2, <2>5, <3>1, Shape
  <2>10. \E k \in W \cup {m} : created[k] = t /\ From[k] = x.by
    BY <1>4, <2>5 DEF Holds
  <2>11. Holds(x, W \cup {m})
    BY <1>1, <2>4, <2>6, <2>7, <2>8, <2>9, <2>10 DEF Holds
  <2> QED
    BY <2>6, <2>11 DEF x
<1>5. CASE r # NoRow /\ r.at \in Nat /\ t < r.at
  <2>1. x = r
    BY <1>1, <1>5 DEF Upsert
  <2>2. Holds(r, W \cup {m})
    BY <1>1, <1>5 DEF Holds
  <2> QED
    BY <1>5, <2>1, <2>2
<1> QED
  BY <1>1, <1>2, <1>3, <1>4, <1>5

(* Two rows that the same messages were written to are the same. *)
LEMMA HoldsOnce ==
  ASSUME NEW r \in Row, NEW s \in Row, NEW W \in SUBSET Messages,
         created \in [Messages -> 0..MaxTime], Holds(r, W), Holds(s, W)
  PROVE  r = s
<1>1. CASE W = {}
  BY <1>1 DEF Holds
<1>2. CASE W # {}
  <2>1. r # NoRow /\ s # NoRow
    BY <1>2 DEF Holds
  <2>2. /\ r.at \in Nat /\ r.text \in Nat /\ r.by \in Nat
        /\ s.at \in Nat /\ s.text \in Nat /\ s.by \in Nat
        /\ r = [at |-> r.at, text |-> r.text, by |-> r.by]
        /\ s = [at |-> s.at, text |-> s.text, by |-> s.by]
    BY <2>1, RowFacts
  <2>3. r.at <= s.at /\ s.at <= r.at
    BY <2>1 DEF Holds
  <2>4. r.at = s.at
    BY <2>2, <2>3
  <2>5. r.text <= s.text /\ s.text <= r.text
    BY <2>1, <2>4 DEF Holds
  <2>6. r.by <= s.by /\ s.by <= r.by
    BY <2>1, <2>4 DEF Holds
  <2>7. r.text = s.text /\ r.by = s.by
    BY <2>2, <2>5, <2>6
  <2> QED
    BY <2>2, <2>4, <2>7
<1> QED
  BY <1>1, <1>2

(***************************************************************************)
(* The invariant: types, rows, and how far a save has come.                *)
(***************************************************************************)
Typed ==
  /\ clock \in 0..MaxTime
  /\ step \in [Messages -> Step]
  /\ created \in [Messages -> 0..MaxTime]
  /\ stored \subseteq Messages
  /\ row \in [Users -> [Users -> Row]]
  /\ wrote \in [Users -> [Users -> SUBSET Messages]]
  /\ failures \in 0..MaxFailures

Between(m, u, p) == (u = From[m] /\ p = To[m]) \/ (u = To[m] /\ p = From[m])

Rows == \A u, p \in Users : /\ Holds(row[u][p], wrote[u][p])
                            /\ \A m \in wrote[u][p] : Between(m, u, p)

AtSender(m)    == m \in wrote[From[m]][To[m]]
AtRecipient(m) == m \in wrote[To[m]][From[m]]

Saved(m) ==
  /\ step[m] \in {"first", "second"} => m \in stored
  /\ AtSender(m) => m \in stored /\ step[m] \in {"second", "done"}
  /\ AtRecipient(m) => m \in stored /\ step[m] = "done"
  /\ failures = 0 => /\ step[m] \in {"second", "done"} => AtSender(m)
                     /\ step[m] = "done" => AtRecipient(m)

ChatInv == Typed /\ Rows /\ \A m \in Messages : Saved(m)

LEMMA ChatInit == ASSUME Init PROVE ChatInv
<1>1. 0 \in 0..MaxTime /\ 0 \in 0..MaxFailures
  BY Shape
<1>2. Typed
  BY <1>1 DEF Init, Typed, Step, Row
<1>3. Rows
  BY DEF Init, Rows, Holds
<1>4. ASSUME NEW m \in Messages PROVE Saved(m)
  <2>1. wrote[From[m]][To[m]] = {} /\ wrote[To[m]][From[m]] = {} /\ step[m] = "new"
    BY Shape DEF Init
  <2> QED
    BY <2>1 DEF Saved, AtSender, AtRecipient
<1> QED
  BY <1>2, <1>3, <1>4 DEF ChatInv

(* The next step of a save does nothing to the others. *)
LEMMA SavedOthers ==
  ASSUME ChatInv, NEW m \in Messages, NEW k \in Messages, k # m,
         \A j \in Messages \ {m} : step'[j] = step[j],
         stored \subseteq stored', failures' = 0 => failures = 0,
         \A u, p \in Users : /\ wrote[u][p] \subseteq wrote'[u][p]
                             /\ wrote'[u][p] \subseteq wrote[u][p] \cup {m}
  PROVE  Saved(k)'
<1>1. Saved(k) /\ step'[k] = step[k] /\ From[k] \in Users /\ To[k] \in Users
  BY Shape DEF ChatInv
<1>2. AtSender(k)' = AtSender(k) /\ AtRecipient(k)' = AtRecipient(k)
  BY <1>1 DEF AtSender, AtRecipient
<1> QED
  BY <1>1, <1>2 DEF Saved

(* A message written to the row of one side. *)
LEMMA WrittenEffect ==
  ASSUME ChatInv, NEW m \in Messages, step[m] \in {"first", "second"}, Written(m),
         created' = created
  PROVE  /\ row' \in [Users -> [Users -> Row]]
         /\ wrote' \in [Users -> [Users -> SUBSET Messages]]
         /\ \A u, p \in Users : wrote'[u][p] = IF u = Owner(m) /\ p = Peer(m)
                                  THEN wrote[u][p] \cup {m} ELSE wrote[u][p]
         /\ Rows'
<1> DEFINE o == Owner(m)
           q == Peer(m)
           x == Upsert(row[o][q], m)
           W == wrote[o][q] \cup {m}
<1>1. o \in Users /\ q \in Users /\ Between(m, o, q)
  BY Shape DEF Owner, Peer, Between
<1>2. /\ row[o][q] \in Row /\ wrote[o][q] \in SUBSET Messages
      /\ Holds(row[o][q], wrote[o][q]) /\ created \in [Messages -> 0..MaxTime]
  BY <1>1 DEF ChatInv, Typed, Rows
<1>3. x \in Row /\ Holds(x, W)
  BY <1>2, UpsertFacts
<1>4. row' = [row EXCEPT ![o][q] = x] /\ wrote' = [wrote EXCEPT ![o][q] = W]
  BY DEF Written
<1>5. row \in [Users -> [Users -> Row]] /\ wrote \in [Users -> [Users -> SUBSET Messages]]
  BY DEF ChatInv, Typed
<1>6. W \in SUBSET Messages
  BY <1>2
<1> HIDE DEF x, o, q, W
<1>7. /\ row' \in [Users -> [Users -> Row]]
      /\ \A u, p \in Users : row'[u][p] = IF u = o /\ p = q THEN x ELSE row[u][p]
  BY <1>1, <1>3, <1>4, <1>5
<1>8. /\ wrote' \in [Users -> [Users -> SUBSET Messages]]
      /\ \A u, p \in Users : wrote'[u][p] = IF u = o /\ p = q THEN W ELSE wrote[u][p]
  BY <1>1, <1>4, <1>5, <1>6
<1>9. ASSUME NEW u \in Users, NEW p \in Users
      PROVE  /\ Holds(row[u][p], wrote[u][p])'
             /\ \A k \in wrote'[u][p] : Between(k, u, p)
  <2>1. Holds(row[u][p], wrote[u][p]) /\ \A k \in wrote[u][p] : Between(k, u, p)
    BY DEF ChatInv, Rows
  <2>2. CASE u = o /\ p = q
    <3>1. row'[u][p] = x /\ wrote'[u][p] = W
      BY <1>7, <1>8, <2>2
    <3>2. \A k \in W : Between(k, u, p)
      BY <1>1, <2>1, <2>2 DEF W
    <3>3. Holds(row[u][p], wrote[u][p])'
      BY <1>3, <3>1 DEF Holds
    <3> QED
      BY <3>1, <3>2, <3>3
  <2>3. CASE ~(u = o /\ p = q)
    BY <1>7, <1>8, <2>1, <2>3 DEF Holds
  <2> QED
    BY <2>2, <2>3
<1>10. Rows'
  BY <1>9 DEF Rows
<1> QED
  BY <1>7, <1>8, <1>10 DEF W, o, q

LEMMA RowsKept ==
  ASSUME ChatInv, UNCHANGED <<row, wrote>>,
         \A u, p \in Users : \A m \in wrote[u][p] : created'[m] = created[m]
  PROVE  Rows'
<1> SUFFICES ASSUME NEW u \in Users, NEW p \in Users
             PROVE  Holds(row[u][p], wrote[u][p])' /\ \A m \in wrote'[u][p] : Between(m, u, p)
  BY DEF Rows
<1>1. Holds(row[u][p], wrote[u][p]) /\ \A m \in wrote[u][p] : Between(m, u, p)
  BY DEF ChatInv, Rows
<1> QED
  BY <1>1 DEF Holds

LEMMA AcceptKeeps ==
  ASSUME ChatInv, NEW m \in Messages, Accept(m)
  PROVE  ChatInv'
<1>1. step \in [Messages -> Step] /\ created \in [Messages -> 0..MaxTime] /\ clock \in 0..MaxTime
  BY DEF ChatInv, Typed
<1>2. /\ step[m] = "new" /\ step' \in [Messages -> Step] /\ step'[m] = "queued"
      /\ \A k \in Messages \ {m} : step'[k] = step[k] /\ created'[k] = created[k]
      /\ created' \in [Messages -> 0..MaxTime]
      /\ UNCHANGED <<clock, stored, row, wrote, list, failures>>
  BY <1>1 DEF Accept, Goto, Step
<1>3. Saved(m) /\ ~AtSender(m) /\ ~AtRecipient(m)
  BY <1>2 DEF ChatInv, Saved
<1>4. \A u, p \in Users : \A k \in wrote[u][p] : k \in Messages /\ k # m
  BY <1>3 DEF ChatInv, Typed, Rows, Between, AtSender, AtRecipient
<1>5. Rows'
  BY <1>2, <1>4, RowsKept
<1>6. Saved(m)'
  BY <1>2, <1>3 DEF Saved, AtSender, AtRecipient
<1>7. \A k \in Messages \ {m} : Saved(k)'
  BY <1>2, SavedOthers
<1> QED
  BY <1>2, <1>5, <1>6, <1>7 DEF ChatInv, Typed

LEMMA StoreKeeps ==
  ASSUME ChatInv, NEW m \in Messages, Store(m) \/ StoreFails(m)
  PROVE  ChatInv'
<1>1. step \in [Messages -> Step] /\ stored \subseteq Messages /\ failures \in 0..MaxFailures
  BY DEF ChatInv, Typed
<1>2. /\ step[m] = "queued" /\ step' \in [Messages -> Step]
      /\ \A k \in Messages \ {m} : step'[k] = step[k]
      /\ stored \subseteq stored' /\ stored' \subseteq Messages
      /\ UNCHANGED <<clock, created, row, wrote, list>>
  BY <1>1 DEF Store, StoreFails, Goto, Step
<1>3. /\ failures' \in 0..MaxFailures /\ (failures' = 0 => failures = 0)
      /\ \/ step'[m] = "first" /\ m \in stored'
         \/ step'[m] = "done" /\ failures' # 0
  <2>1. CASE Store(m)
    BY <1>1, <2>1 DEF Store, Goto
  <2>2. CASE StoreFails(m)
    <3>1. failures < MaxFailures /\ failures' = failures + 1 /\ failures \in Nat
      BY <1>1, <2>2, Shape DEF StoreFails, Fail
    <3> QED
      BY <1>1, <2>2, <3>1, Shape DEF StoreFails, Goto
  <2> QED
    BY <2>1, <2>2
<1>4. Saved(m) /\ ~AtSender(m) /\ ~AtRecipient(m)
  BY <1>2 DEF ChatInv, Saved
<1>5. Rows'
  BY <1>2, RowsKept
<1>6. Saved(m)'
  BY <1>2, <1>3, <1>4 DEF Saved, AtSender, AtRecipient
<1>7. \A k \in Messages \ {m} : Saved(k)'
  BY <1>2, <1>3, SavedOthers
<1> QED
  BY <1>2, <1>3, <1>5, <1>6, <1>7 DEF ChatInv, Typed

LEMMA TouchKeeps ==
  ASSUME ChatInv, NEW m \in Messages, Touch(m) \/ TouchFails(m)
  PROVE  ChatInv'
<1>1. step \in [Messages -> Step] /\ failures \in 0..MaxFailures
  BY DEF ChatInv, Typed
<1>2. /\ step[m] \in {"first", "second"} /\ step' \in [Messages -> Step]
      /\ \A k \in Messages \ {m} : step'[k] = step[k]
      /\ UNCHANGED <<clock, created, stored, list>>
  BY <1>1 DEF Touch, TouchFails, Goto, Step
<1>3. /\ failures' \in 0..MaxFailures /\ (failures' = 0 => failures = 0)
      /\ \/ /\ Written(m)
            /\ step'[m] = IF step[m] = "first" THEN "second" ELSE "done"
         \/ /\ Written(m) \/ UNCHANGED <<row, wrote>>
            /\ step'[m] = "done" /\ failures' # 0
  <2>1. CASE Touch(m)
    BY <1>1, <2>1 DEF Touch, Goto
  <2>2. CASE TouchFails(m)
    <3>1. failures < MaxFailures /\ failures' = failures + 1 /\ failures \in Nat
      BY <1>1, <2>2, Shape DEF TouchFails, Fail
    <3> QED
      BY <1>1, <2>2, <3>1, Shape DEF TouchFails, Goto
  <2> QED
    BY <2>1, <2>2
<1>4. /\ From[m] # To[m] /\ From[m] \in Users /\ To[m] \in Users
      /\ Saved(m) /\ m \in stored
  BY <1>2, Shape DEF ChatInv, Saved
<1>5. CASE Written(m)
  <2>1. /\ row' \in [Users -> [Users -> Row]]
        /\ wrote' \in [Users -> [Users -> SUBSET Messages]]
        /\ \A u, p \in Users : wrote'[u][p] = IF u = Owner(m) /\ p = Peer(m)
                                 THEN wrote[u][p] \cup {m} ELSE wrote[u][p]
        /\ Rows'
    BY <1>2, <1>5, WrittenEffect
  <2>2. /\ stored \subseteq stored'
        /\ \A u, p \in Users : /\ wrote[u][p] \subseteq wrote'[u][p]
                               /\ wrote'[u][p] \subseteq wrote[u][p] \cup {m}
    BY <1>2, <2>1
  <2>3. \A k \in Messages \ {m} : Saved(k)'
    BY <1>2, <1>3, <2>2, SavedOthers
  <2>4. CASE step[m] = "first"
    <3>1. AtSender(m)' /\ (AtRecipient(m)' <=> AtRecipient(m))
      BY <1>4, <2>1, <2>4 DEF AtSender, AtRecipient, Owner, Peer
    <3>2. ~AtRecipient(m) /\ step'[m] \in {"second", "done"}
      BY <1>3, <1>4, <2>4 DEF Saved
    <3>3. failures' = 0 => step'[m] = "second"
      BY <1>3, <2>4
    <3>4. Saved(m)'
      BY <1>2, <1>4, <3>1, <3>2, <3>3 DEF Saved
    <3> QED
      BY <1>2, <1>3, <2>1, <2>3, <3>4 DEF ChatInv, Typed
  <2>5. CASE step[m] = "second"
    <3>1. AtRecipient(m)' /\ (AtSender(m)' <=> AtSender(m))
      BY <1>4, <2>1, <2>5 DEF AtSender, AtRecipient, Owner, Peer
    <3>2. step'[m] = "done" /\ (failures' = 0 => AtSender(m))
      BY <1>3, <1>4, <2>5 DEF Saved
    <3>3. failures' = 0 => AtSender(m)'
      BY <3>1, <3>2
    <3>4. Saved(m)'
      BY <1>2, <1>4, <3>1, <3>2, <3>3 DEF Saved
    <3> QED
      BY <1>2, <1>3, <2>1, <2>3, <3>4 DEF ChatInv, Typed
  <2> QED
    BY <1>2, <2>4, <2>5
<1>6. CASE UNCHANGED <<row, wrote>> /\ step'[m] = "done" /\ failures' # 0
  <2>1. Rows'
    BY <1>2, <1>6, RowsKept
  <2>2. Saved(m)'
    BY <1>2, <1>4, <1>6 DEF Saved, AtSender, AtRecipient
  <2>3. \A k \in Messages \ {m} : Saved(k)'
    BY <1>2, <1>3, <1>6, SavedOthers
  <2> QED
    BY <1>2, <1>3, <1>6, <2>1, <2>2, <2>3 DEF ChatInv, Typed
<1> QED
  BY <1>3, <1>5, <1>6

LEMMA ChatNext == ChatInv /\ [Next]_vars => ChatInv'
<1> SUFFICES ASSUME ChatInv, [Next]_vars PROVE ChatInv'
  OBVIOUS
<1>1. ASSUME UNCHANGED <<step, created, stored, row, wrote, failures>>,
             clock' \in 0..MaxTime
      PROVE  ChatInv'
  BY <1>1 DEF ChatInv, Typed, Rows, Holds, Saved, AtSender, AtRecipient
<1>2. clock \in 0..MaxTime /\ MaxTime \in Nat
  BY Shape DEF ChatInv, Typed
<1>3. CASE Tick
  <2>1. clock' \in 0..MaxTime
    BY <1>2, <1>3 DEF Tick
  <2> QED
    BY <1>1, <1>3, <2>1 DEF Tick
<1>4. CASE \E u \in Users : ListChats(u)
  BY <1>1, <1>2, <1>4 DEF ListChats
<1>5. CASE UNCHANGED vars
  BY <1>1, <1>2, <1>5 DEF vars
<1> QED
  BY <1>3, <1>4, <1>5, AcceptKeeps, StoreKeeps, TouchKeeps DEF Next, Save

LEMMA ChatInvariance == Spec => []ChatInv
  BY ChatInit, ChatNext, PTL DEF Spec

-----------------------------------------------------------------------------
(* A row is as recent as the newest message written to it, in whatever order
   the workers finish, and shows a message that is in the history.         *)
THEOREM RowsAreNewest == Spec => []RowIsNewest
<1>1. ChatInv => RowIsNewest
  <2> SUFFICES ASSUME ChatInv, NEW u \in Users, NEW p \in Users
               PROVE  /\ wrote[u][p] = {} <=> row[u][p] = NoRow
                      /\ \A m \in wrote[u][p] : created[m] <= row[u][p].at
                      /\ row[u][p] # NoRow =>
                           /\ row[u][p].text \in stored
                           /\ \/ row[u][p].by = From[row[u][p].text]
                              \/ \E m, k \in wrote[u][p] : m # k /\ created[m] = created[k]
    BY DEF RowIsNewest
  <2>1. Holds(row[u][p], wrote[u][p])
    BY DEF ChatInv, Rows
  <2>2. ASSUME NEW m \in wrote[u][p] PROVE m \in stored
    <3>1. m \in Messages /\ Between(m, u, p) /\ Saved(m)
      BY DEF ChatInv, Typed, Rows
    <3>2. AtSender(m) \/ AtRecipient(m)
      BY <3>1 DEF Between, AtSender, AtRecipient
    <3> QED
      BY <3>1, <3>2 DEF Saved
  <2>3. \A m \in wrote[u][p] : wrote[u][p] # {}
    OBVIOUS
  <2>4. ASSUME row[u][p] # NoRow, row[u][p].by # From[row[u][p].text]
        PROVE  \E m, k \in wrote[u][p] : m # k /\ created[m] = created[k]
    BY <2>1, <2>4 DEF Holds
  <2> QED
    BY <2>1, <2>2, <2>3, <2>4 DEF Holds
<1> QED
  BY <1>1, ChatInvariance, PTL

(* When every save is over and no write failed, the two sides show the same
   message.                                                                *)
THEOREM BothSidesAgree == Spec => []SidesAgree
<1>1. ChatInv => SidesAgree
  <2> SUFFICES ASSUME ChatInv, failures = 0, NEW u \in Users, NEW p \in Users,
                      \A m \in Messages : step[m] \in {"new", "queued", "done"}
               PROVE  row[u][p] = row[p][u]
    BY DEF SidesAgree
  <2>1. \A a, b \in Users : wrote[a][b] \subseteq wrote[b][a]
    <3> SUFFICES ASSUME NEW a \in Users, NEW b \in Users, NEW m \in wrote[a][b]
                 PROVE  m \in wrote[b][a]
      OBVIOUS
    <3>1. m \in Messages /\ Between(m, a, b) /\ Saved(m)
      BY DEF ChatInv, Typed, Rows
    <3>2. AtSender(m) \/ AtRecipient(m)
      BY <3>1 DEF Between, AtSender, AtRecipient
    <3>3. step[m] = "done"
      BY <3>1, <3>2 DEF Saved
    <3>4. AtSender(m) /\ AtRecipient(m)
      BY <3>1, <3>3 DEF Saved
    <3> QED
      BY <3>1, <3>4 DEF Between, AtSender, AtRecipient
  <2>2. wrote[u][p] = wrote[p][u]
    BY <2>1
  <2>3. /\ Holds(row[u][p], wrote[u][p]) /\ Holds(row[p][u], wrote[u][p])
        /\ row[u][p] \in Row /\ row[p][u] \in Row /\ wrote[u][p] \in SUBSET Messages
        /\ created \in [Messages -> 0..MaxTime]
    BY <2>2 DEF ChatInv, Rows, Typed
  <2> QED
    BY <2>3, HoldsOnce
<1> QED
  BY <1>1, ChatInvariance, PTL

-----------------------------------------------------------------------------
(***************************************************************************)
(* Positions: the k-th of a finite set of numbers.                         *)
(***************************************************************************)
Rank(K, i) == Cardinality({j \in K : j <= i})

LEMMA RankGrows ==
  ASSUME NEW K \in SUBSET Nat, IsFiniteSet(K), NEW i \in K, NEW j \in K, i < j
  PROVE  Rank(K, i) < Rank(K, j)
<1> DEFINE I == {a \in K : a <= i}
           J == {a \in K : a <= j}
<1>1. \A a \in K : a <= i => a <= j
  OBVIOUS
<1>2. I \in SUBSET J /\ J \in SUBSET K
  BY <1>1
<1>3. i \in Nat /\ j \in Nat
  OBVIOUS
<1>4. j \in J /\ j \notin I
  BY <1>3
<1>5. I \in SUBSET J /\ J \in SUBSET K /\ j \in J /\ j \notin I
  BY <1>2, <1>4
<1> HIDE DEF I, J
<1>6. IsFiniteSet(J) /\ IsFiniteSet(I)
  BY <1>5, FS_Subset
<1>7. Cardinality(I) <= Cardinality(J) /\ Cardinality(I) # Cardinality(J)
  BY <1>5, <1>6, FS_Subset
<1>8. Cardinality(I) \in Nat /\ Cardinality(J) \in Nat
  BY <1>6, FS_CardinalityType
<1> QED
  BY <1>7, <1>8 DEF Rank, I, J

LEMMA RankType ==
  ASSUME NEW K \in SUBSET Nat, IsFiniteSet(K), NEW i \in K
  PROVE  Rank(K, i) \in 1..Cardinality(K)
<1> DEFINE I == {a \in K : a <= i}
<1>1. I \in SUBSET K /\ i \in I
  OBVIOUS
<1> HIDE DEF I
<1>2. IsFiniteSet(I) /\ Cardinality(I) <= Cardinality(K)
  BY <1>1, FS_Subset
<1>3. Cardinality(I) \in Nat /\ Cardinality(K) \in Nat /\ Cardinality(I) # 0
  BY <1>1, <1>2, FS_CardinalityType, FS_EmptySet
<1> QED
  BY <1>2, <1>3 DEF Rank, I

LEMMA RankOnto ==
  ASSUME NEW K \in SUBSET Nat, IsFiniteSet(K), NEW k \in 1..Cardinality(K)
  PROVE  \E i \in K : Rank(K, i) = k
<1> DEFINE n == Cardinality(K)
           f == [i \in K |-> Rank(K, i)]
<1>1. n \in Nat /\ IsFiniteSet(1..n) /\ Cardinality(1..n) = n
  BY FS_CardinalityType, FS_Interval
<1>2. f \in [K -> 1..n]
  BY RankType
<1>3. ASSUME NEW i \in K, NEW j \in K, f[i] = f[j] PROVE i = j
  <2>1. Rank(K, i) = Rank(K, j) /\ Rank(K, i) \in Nat
    BY <1>3, RankType
  <2>2. ~(i < j) /\ ~(j < i)
    BY <2>1, RankGrows
  <2> QED
    BY <2>2
<1> HIDE DEF f, n
<1>4. f \in Injection(K, 1..n)
  BY <1>2, <1>3, Fun_IsInj
<1>5. f \in Surjection(K, 1..n)
  BY <1>1, <1>4, FS_Injection DEF n
<1>6. \E i \in K : f[i] = k
  BY <1>5 DEF Surjection, n
<1> QED
  BY <1>6 DEF f

LEMMA NthFacts ==
  ASSUME NEW K \in SUBSET Nat, IsFiniteSet(K), NEW k \in 1..Cardinality(K)
  PROVE  Nth(K, k) \in K /\ Rank(K, Nth(K, k)) = k
BY RankOnto DEF Nth, Rank

(* The positions come in their order, and none is left out. *)
LEMMA NthGrows ==
  ASSUME NEW K \in SUBSET Nat, IsFiniteSet(K),
         NEW k \in 1..Cardinality(K), NEW l \in 1..Cardinality(K), k < l
  PROVE  Nth(K, k) < Nth(K, l)
<1> DEFINE i == Nth(K, k)
           j == Nth(K, l)
<1>1. i \in K /\ j \in K /\ Rank(K, i) = k /\ Rank(K, j) = l /\ i \in Nat /\ j \in Nat
  BY NthFacts
<1>2. k \in Nat /\ l \in Nat
  BY FS_CardinalityType
<1> HIDE DEF i, j
<1>3. ~(j < i) /\ i # j
  BY <1>1, <1>2, RankGrows
<1>4. i < j
  BY <1>1, <1>3
<1> QED
  BY <1>4 DEF i, j

LEMMA NthOnto ==
  ASSUME NEW K \in SUBSET Nat, IsFiniteSet(K), NEW i \in K
  PROVE  \E k \in 1..Cardinality(K) : Nth(K, k) = i
<1> DEFINE k == Rank(K, i)
           j == Nth(K, k)
<1>1. k \in 1..Cardinality(K)
  BY RankType
<1> HIDE DEF k
<1>2. j \in K /\ Rank(K, j) = k /\ k \in Nat
  BY <1>1, NthFacts, FS_CardinalityType
<1> HIDE DEF j
<1>3. ~(i < j) /\ ~(j < i)
  BY <1>2, RankGrows DEF k
<1>4. j = i
  BY <1>2, <1>3
<1> QED
  BY <1>1, <1>4 DEF j

-----------------------------------------------------------------------------
(***************************************************************************)
(* The list of conversations.                                              *)
(***************************************************************************)
LEMMA UsersFinite == IsFiniteSet(Users)
<1> DEFINE A == {From[m] : m \in Messages}
           B == {To[m] : m \in Messages}
           f == [m \in Messages |-> From[m]]
           g == [m \in Messages |-> To[m]]
<1>1. f \in Surjection(Messages, A) /\ g \in Surjection(Messages, B)
  BY DEF Surjection
<1>2. IsFiniteSet(Messages) /\ Users = A \cup B
  BY Shape DEF Users
<1> HIDE DEF A, B, f, g
<1>3. IsFiniteSet(A) /\ IsFiniteSet(B)
  BY <1>1, <1>2, FS_Surjection
<1> QED
  BY <1>2, <1>3, FS_Union

LEMMA ActivityType ==
  ASSUME Typed, NEW u \in Users, NEW p \in Users
  PROVE  Activity(u, p) \in Int
<1>1. row[u][p] \in Row
  BY DEF Typed
<1>2. row[u][p].at \in Int
  BY <1>1, RowFacts
<1>3. PerMilli \in Nat /\ PerMilli > 0
  BY Shape
<1>4. \A x \in Int, y \in Nat : y > 0 => x \div y \in Int
  OBVIOUS
<1> QED
  BY <1>2, <1>3, <1>4 DEF Activity

LEMMA PeersFacts ==
  ASSUME NEW u
  PROVE  /\ Peers(u) \subseteq Users /\ IsFiniteSet(Peers(u))
         /\ Cardinality(Peers(u)) \in Nat
<1>1. Peers(u) \in SUBSET Users
  BY DEF Peers
<1> QED
  BY <1>1, UsersFinite, FS_Subset, FS_CardinalityType

(* A page is sorted, and nothing it leaves out is more recent. *)
LEMMA PageFacts ==
  ASSUME Typed, NEW u \in Users, NEW page \in Pages(u)
  PROVE  /\ page \in Seq(Peers(u))
         /\ \A i, j \in DOMAIN page :
              i < j => Activity(u, page[i]) >= Activity(u, page[j])
         /\ \A p \in Peers(u) : \/ \E k \in DOMAIN page : page[k] = p
                                \/ \A i \in DOMAIN page :
                                     Activity(u, page[i]) >= Activity(u, p)
<1> DEFINE P == Peers(u)
           n == Cardinality(P)
<1>1. PICK s \in SetToSeqs(P) :
        /\ \A i, j \in DOMAIN s : i < j => Activity(u, s[i]) >= Activity(u, s[j])
        /\ page = SubSeq(s, 1, IF Len(s) < ListLimit THEN Len(s) ELSE ListLimit)
  BY DEF Pages
<1>2. n \in Nat /\ IsFiniteSet(P) /\ IsFiniteSet(1..n) /\ Cardinality(1..n) = n
  BY PeersFacts, FS_Interval
<1>3. s \in [1..n -> P] /\ \A i, j \in 1..n : i # j => s[i] # s[j]
  BY DEF SetToSeqs
<1> DEFINE L == IF n < ListLimit THEN n ELSE ListLimit
<1> HIDE DEF P, n
<1>4. s \in Seq(P) /\ Len(s) = n /\ DOMAIN s = 1..n
  BY <1>2, <1>3
<1>5. L \in Nat /\ L <= n
  BY <1>2, Shape
<1>6. page = SubSeq(s, 1, L)
  BY <1>1, <1>4
<1> HIDE DEF L
<1>7. /\ page \in Seq(P) /\ Len(page) = L /\ DOMAIN page = 1..L
      /\ \A i \in 1..L : i \in 1..n /\ page[i] = s[i]
  BY <1>4, <1>5, <1>6
<1>8. \A i, j \in DOMAIN page : i < j => Activity(u, page[i]) >= Activity(u, page[j])
  BY <1>1, <1>4, <1>7
<1>9. \A p \in P : \E k \in 1..n : s[k] = p
  <2>1. s \in Injection(1..n, P)
    BY <1>3, Fun_IsInj
  <2>2. s \in Surjection(1..n, P)
    BY <1>2, <2>1, FS_Injection DEF n
  <2> QED
    BY <2>2 DEF Surjection
<1>10. ASSUME NEW p \in P
       PROVE  \/ \E k \in DOMAIN page : page[k] = p
              \/ \A i \in DOMAIN page : Activity(u, page[i]) >= Activity(u, p)
  <2>1. PICK k \in 1..n : s[k] = p
    BY <1>9
  <2>2. CASE k <= L
    BY <1>2, <1>5, <1>7, <2>1, <2>2
  <2>3. CASE L < k
    <3>1. ASSUME NEW i \in 1..L PROVE Activity(u, page[i]) >= Activity(u, p)
      <4>1. i \in 1..n /\ i < k /\ page[i] = s[i]
        BY <1>2, <1>5, <1>7, <2>3
      <4> QED
        BY <1>1, <1>4, <2>1, <4>1
    <3> QED
      BY <1>7, <3>1
  <2> QED
    BY <1>5, <2>2, <2>3
<1> QED
  BY <1>7, <1>8, <1>10 DEF P

(* What Named keeps, in order. *)
LEMMA NamedFacts ==
  ASSUME NEW S, NEW page \in Seq(S)
  PROVE  /\ Named(page) \in Seq(S)
         /\ \E at \in [DOMAIN Named(page) -> DOMAIN page] :
              /\ \A k \in DOMAIN Named(page) : /\ Named(page)[k] = page[at[k]]
                                               /\ Named(page)[k] \in Known
              /\ \A k, l \in DOMAIN Named(page) : k < l => at[k] < at[l]
              /\ \A i \in DOMAIN page : page[i] \in Known =>
                   \E k \in DOMAIN Named(page) : at[k] = i
<1> DEFINE K == {i \in DOMAIN page : page[i] \in Known}
           n == Cardinality(K)
           at == [k \in 1..n |-> Nth(K, k)]
<1>1. DOMAIN page = 1..Len(page) /\ Len(page) \in Nat /\ \A i \in DOMAIN page : page[i] \in S
  OBVIOUS
<1>2. IsFiniteSet(1..Len(page))
  BY <1>1, FS_Interval
<1>3. K \in SUBSET (1..Len(page)) /\ K \in SUBSET Nat
  BY <1>1
<1>4. Named(page) = [k \in 1..n |-> page[Nth(K, k)]]
  BY DEF Named
<1>5. \A i \in K : i \in DOMAIN page /\ page[i] \in Known
  OBVIOUS
<1>6. \A i \in DOMAIN page : page[i] \in Known => i \in K
  OBVIOUS
<1> HIDE DEF K
<1>7. IsFiniteSet(K)
  BY <1>2, <1>3, FS_Subset
<1>8. n \in Nat
  BY <1>7, FS_CardinalityType
<1>9. at \in [1..n -> DOMAIN page] /\ \A k \in 1..n : at[k] \in K
  BY <1>3, <1>5, <1>7, NthFacts
<1>10. \A k, l \in 1..n : k < l => at[k] < at[l]
  BY <1>3, <1>7, NthGrows
<1>11. \A i \in K : \E k \in 1..n : at[k] = i
  BY <1>3, <1>7, NthOnto
<1>12. DOMAIN Named(page) = 1..n /\ \A k \in 1..n : Named(page)[k] = page[at[k]]
  BY <1>4
<1> HIDE DEF n, at
<1>13. Named(page) \in [1..n -> S]
  BY <1>1, <1>4, <1>9, <1>12
<1>14. Named(page) \in Seq(S)
  BY <1>8, <1>13
<1> DEFINE D == DOMAIN Named(page)
<1>15. /\ at \in [D -> DOMAIN page]
       /\ \A k \in D : Named(page)[k] = page[at[k]]
       /\ \A k, l \in D : k < l => at[k] < at[l]
  BY <1>9, <1>10, <1>12
<1>16. \A k \in D : Named(page)[k] \in Known
  BY <1>5, <1>9, <1>12
<1>17. \A i \in DOMAIN page : page[i] \in Known => \E k \in D : at[k] = i
  BY <1>6, <1>11, <1>12
<1> HIDE DEF D
<1>18. \E a \in [D -> DOMAIN page] :
         /\ \A k \in D : Named(page)[k] = page[a[k]] /\ Named(page)[k] \in Known
         /\ \A k, l \in D : k < l => a[k] < a[l]
         /\ \A i \in DOMAIN page : page[i] \in Known => \E k \in D : a[k] = i
  BY <1>15, <1>16, <1>17
<1> QED
  BY <1>14, <1>18 DEF D

LEMMA ListType ==
  ASSUME Typed, NEW u \in Users, ListChats(u)
  PROVE  list' \in [user : Users \cup {-1}, peers : Seq(Users)]
<1>1. PICK page \in Pages(u) : list' = [user |-> u, peers |-> Named(page)]
  BY DEF ListChats
<1>2. page \in Seq(Users)
  BY PageFacts, PeersFacts
<1>3. Named(page) \in Seq(Users)
  BY <1>2, NamedFacts
<1> QED
  BY <1>1, <1>3

(* Every state is well-typed. *)
THEOREM TypeCorrect == Spec => []TypeOK
<1> DEFINE L == list \in [user : Users \cup {-1}, peers : Seq(Users)]
<1>1. Init => L
  BY DEF Init
<1>2. ChatInv /\ L /\ [Next]_vars => L'
  <2> SUFFICES ASSUME ChatInv, L, [Next]_vars PROVE L'
    OBVIOUS
  <2>1. CASE \E u \in Users : ListChats(u)
    BY <2>1, ListType DEF ChatInv
  <2>2. CASE Tick \/ (\E m \in Messages : Accept(m) \/ Save(m)) \/ UNCHANGED vars
    <3>1. list' = list
      BY <2>2 DEF Tick, Accept, Save, Store, StoreFails, Touch, TouchFails, vars
    <3> QED
      BY <3>1
  <2> QED
    BY <2>1, <2>2 DEF Next
<1>3. ChatInv /\ L => TypeOK
  BY DEF ChatInv, Typed, TypeOK
<1> QED
  BY <1>1, <1>2, <1>3, ChatInvariance, PTL DEF Spec

(* The list a user is given is sorted by the last activity, and nothing that
   was left out for the limit is more recent than what was kept.           *)
THEOREM ListIsMostRecent == Spec => MostRecentFirst
<1> DEFINE A == \A u \in Users : ListChats(u) =>
                  LET shown == list'.peers
                  IN  \A i \in DOMAIN shown :
                        /\ \A j \in DOMAIN shown :
                             i < j => Activity(u, shown[i]) >= Activity(u, shown[j])
                        /\ \A p \in Peers(u) \cap Known :
                             Activity(u, p) > Activity(u, shown[i]) => p \in ToSet(shown)
<1>1. ChatInv => A
  <2> SUFFICES ASSUME ChatInv, NEW u \in Users, ListChats(u), NEW i \in DOMAIN list'.peers
               PROVE  /\ \A j \in DOMAIN list'.peers :
                           i < j => Activity(u, list'.peers[i]) >= Activity(u, list'.peers[j])
                      /\ \A p \in Peers(u) \cap Known :
                           Activity(u, p) > Activity(u, list'.peers[i])
                             => p \in ToSet(list'.peers)
    OBVIOUS
  <2> DEFINE shown == list'.peers
  <2>1. PICK page \in Pages(u) : list' = [user |-> u, peers |-> Named(page)]
    BY DEF ListChats
  <2>2. shown = Named(page)
    BY <2>1
  <2>3. page \in Seq(Peers(u))
    BY PageFacts DEF ChatInv
  <2>4. PICK at \in [DOMAIN shown -> DOMAIN page] :
          /\ \A k \in DOMAIN shown : shown[k] = page[at[k]] /\ shown[k] \in Known
          /\ \A k, l \in DOMAIN shown : k < l => at[k] < at[l]
          /\ \A k \in DOMAIN page : page[k] \in Known => \E l \in DOMAIN shown : at[l] = k
    BY <2>2, <2>3, NamedFacts
  <2> HIDE DEF shown
  <2>5. \A j \in DOMAIN shown : i < j => Activity(u, shown[i]) >= Activity(u, shown[j])
    <3>1. \A k, l \in DOMAIN page : k < l => Activity(u, page[k]) >= Activity(u, page[l])
      BY PageFacts DEF ChatInv
    <3> QED
      BY <2>4, <3>1 DEF shown
  <2>6. ASSUME NEW p \in Peers(u) \cap Known, Activity(u, p) > Activity(u, shown[i])
        PROVE  p \in ToSet(shown)
    <3>1. /\ at[i] \in DOMAIN page /\ shown[i] = page[at[i]]
          /\ page[at[i]] \in Users /\ p \in Users
      BY <2>3, <2>4, PeersFacts DEF shown
    <3>2. ~(Activity(u, page[at[i]]) >= Activity(u, p))
      BY <2>6, <3>1, ActivityType DEF ChatInv
    <3>3. \E k \in DOMAIN page : page[k] = p
      BY <3>1, <3>2, PageFacts DEF ChatInv
    <3>4. \E l \in DOMAIN shown : shown[l] = p
      BY <2>4, <3>3
    <3> QED
      BY <3>4 DEF ToSet
  <2> QED
    BY <2>5, <2>6 DEF shown
<1>2. ChatInv /\ [Next]_vars => [A]_vars
  BY <1>1
<1>3. Spec => [][A]_vars
  BY <1>2, ChatInvariance, PTL DEF Spec
<1> QED
  BY <1>3 DEF MostRecentFirst
=============================================================================
