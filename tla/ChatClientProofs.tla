--------------------------- MODULE ChatClientProofs --------------------------
(* Theorems about ChatClient, for any partners, messages and limits. *)
EXTENDS ChatClient, FiniteSetTheorems, FunctionTheorems, TLAPS

(***************************************************************************)
(* The inductive invariant.                                                *)
(***************************************************************************)
Request == [partner : Partners, cursor : Messages \cup {None}, served : BOOLEAN,
            rows : Seq(Messages), next : Messages \cup {None}]

(* Every variable has its type, and nothing more. *)
Typed ==
  /\ online \in BOOLEAN
  /\ uplink \in Seq(Mine) /\ todo \in Seq(Frame) /\ wire \in Seq(Frame)
  /\ ids \in [Messages -> Nat]
  /\ saving \subseteq Messages /\ unsent \subseteq Messages
  /\ store \subseteq Messages
  /\ view \in [Partners -> Seq(Entry)]
  /\ active \in Partners \cup {None} /\ cursor \in Messages \cup {None}
  /\ hasMore \in BOOLEAN /\ trimmed \in BOOLEAN
  /\ request # None => request \in Request
  /\ base # None => base \in [shown : BOOLEAN, rows : SUBSET Messages]
  /\ requests \in Nat /\ cuts \in Nat
  /\ typed \subseteq Mine /\ refused \subseteq Mine /\ ignored \subseteq Mine
  /\ lost \subseteq Messages /\ cut \subseteq Mine

(* The messages that have an id, which is their rank. *)
Ided == {m \in Messages : ids[m] > 0}

Numbered ==
  /\ IsFiniteSet(Ided)
  /\ \A m \in Ided : ids[m] <= Cardinality(Ided)
  /\ \A m, k \in Ided : ids[m] = ids[k] => m = k
  /\ store \subseteq Ided /\ saving \subseteq Ided /\ unsent \subseteq Ided
  /\ unsent \cap Mine = {}
  /\ Ided \cap Mine \subseteq typed

(* A frame of this type about m is in s. *)
In(s, type, m) == \E k \in DOMAIN s : s[k].type = type /\ s[k].msg = m

AckFirst(s) == \A i, j \in DOMAIN s :
  s[i].type = "ack" /\ s[j].type = "message" /\ s[i].msg = s[j].msg => i < j

Ack(m)  == [type |-> "ack", msg |-> m]
Echo(m) == [type |-> "message", msg |-> m]

(* What is on its way up has no id yet, what the reader still has to send is
   about an own message, the acknowledgement first, and no frame comes from
   nothing.                                                                 *)
Sent ==
  /\ \A i \in DOMAIN uplink : uplink[i] \in typed \ Ided
  /\ \A i, j \in DOMAIN uplink : uplink[i] = uplink[j] => i = j
  /\ todo = <<>> \/ \E m \in Mine \cap Ided :
                      /\ todo \in {<<Ack(m), Echo(m)>>, <<Echo(m)>>}
                      /\ todo = <<Ack(m), Echo(m)>> => ~In(wire, "message", m)
  /\ AckFirst(wire)
  /\ \A m \in Messages :
       /\ In(wire, "ack", m) => m \in Mine \cap Ided
       /\ In(wire, "message", m) => m \in Ided
       /\ In(wire, "error", m) => m \in refused \cup lost

Acked(m) == In(wire, "ack", m) \/ In(todo, "ack", m)

(* A message whose connection was never lost: its answer comes before its echo. *)
Sure(m) ==
  /\ m \in ToSet(uplink) \cup Ided => online
  /\ In(wire, "message", m) \/ In(todo, "message", m) => Acked(m)

Awaited(m) == \/ m \in ignored \cup ToSet(uplink)
              \/ Acked(m) \/ In(wire, "error", m)

EntryOK(p, e) ==
  /\ ChatOf[e.msg] = p
  /\ e.known => e.msg \in Ided
  /\ e.own => e.msg \in typed
  /\ ~e.known => e.own
  /\ e.pending => e.own /\ ~e.known
  /\ e.failed => e.msg \in refused \cup lost
  /\ e.own /\ ~e.known /\ e.msg \notin cut => Sure(e.msg)
  /\ e.pending /\ e.msg \notin cut => Awaited(e.msg)

(* No acknowledgement of m will come any more. *)
Abandoned(m) == m \in cut \cap Ided /\ ~Acked(m)

PairOK(e, f) == e.msg = f.msg =>
  e.known # f.known /\ e.own # f.own /\ Abandoned(e.msg)

ListOK(p, s) ==
  /\ \A i \in DOMAIN s : EntryOK(p, s[i])
  /\ \A i, j \in DOMAIN s : i # j => PairOK(s[i], s[j])

Shown == \A p \in Partners : ListOK(p, view[p])

(* Everything shown in s that was typed here is newer than the cursor. *)
Anchored(s) == \A i \in DOMAIN s : s[i].own =>
  s[i].msg \notin Ided \/ ids[s[i].msg] > ids[cursor]

Older(m)    == cursor = None \/ ids[m] < ids[cursor]
NotBelow(m, c) == c = None \/ ids[m] >= ids[c]

Rows(r) ==
  /\ Len(r.rows) <= PageSize
  /\ \A i, j \in DOMAIN r.rows : r.rows[i] = r.rows[j] => i = j
  /\ \A i \in DOMAIN r.rows : /\ r.rows[i] \in store /\ ChatOf[r.rows[i]] = active
                              /\ Older(r.rows[i])
  /\ r.next # None => r.next \in ToSet(r.rows)
  /\ base # None => \A m \in base.rows :
       Older(m) /\ NotBelow(m, r.next) => m \in ToSet(r.rows)

Pages ==
  /\ cursor # None => /\ active \in Partners /\ cursor \in Ided
                      /\ Anchored(view[active])
                      /\ hasMore => Len(view[active]) <= MaxPerChat
  /\ \A p \in Partners : Len(view[p]) <= MaxPerChat + PageSize
  /\ request # None => /\ request.partner = active /\ request.cursor = cursor
                       /\ active \in Partners
                       /\ cursor # None => hasMore
                       /\ request.served => Rows(request)
  /\ base # None => /\ active \in Partners
                    /\ \A m \in base.rows : m \in store /\ ChatOf[m] = active
                    /\ cursor # None => base.shown

ClientInv == Typed /\ Numbered /\ Sent /\ Shown /\ Pages /\ NoHole

-----------------------------------------------------------------------------
(***************************************************************************)
(* Sequences.                                                              *)
(***************************************************************************)
LEMMA Shape ==
  /\ Mine \subseteq Messages
  /\ Old \in Seq(Messages) /\ OldSet \subseteq Messages /\ OldSet \cap Mine = {}
  /\ \A i, j \in DOMAIN Old : Old[i] = Old[j] => i = j
  /\ ChatOf \in [Messages -> Partners]
  /\ PageSize \in Nat /\ PageSize > 0 /\ MaxPerChat \in Nat /\ MaxPerChat > 0
  /\ PageSize <= MaxPerChat
  /\ None \notin Messages /\ None \notin Partners
<1>1. Old \in Seq(Messages)
  BY ClientAssumption DEF ClientAssumption
<1>2. OldSet \subseteq Messages /\ OldSet \cap Mine = {}
  BY ClientAssumption DEF ClientAssumption, OldSet, ToSet
<1> QED
  BY ClientAssumption, <1>1, <1>2 DEF ClientAssumption

LEMMA AppendFacts ==
  ASSUME NEW S, NEW s \in Seq(S), NEW e \in S
  PROVE  /\ Append(s, e) \in Seq(S)
         /\ Len(Append(s, e)) = Len(s) + 1
         /\ \A i \in 1..Len(s) : Append(s, e)[i] = s[i]
         /\ Append(s, e)[Len(s) + 1] = e
         /\ \A i \in DOMAIN Append(s, e) : i \in DOMAIN s \/ i = Len(s) + 1
         /\ \A i \in DOMAIN s : i \in DOMAIN Append(s, e)
         /\ ToSet(Append(s, e)) = ToSet(s) \cup {e}
  BY DEF ToSet

LEMMA TailFacts ==
  ASSUME NEW S, NEW s \in Seq(S), s # <<>>
  PROVE  /\ Head(s) \in S /\ Tail(s) \in Seq(S)
         /\ Head(s) = s[1] /\ 1 \in DOMAIN s
         /\ Len(Tail(s)) = Len(s) - 1
         /\ \A i \in DOMAIN Tail(s) : /\ i \in Nat /\ i + 1 \in DOMAIN s
                                      /\ Tail(s)[i] = s[i + 1]
         /\ \A i \in DOMAIN s : i # 1 => i - 1 \in DOMAIN Tail(s) /\ s[i] = Tail(s)[i - 1]
  OBVIOUS

LEMMA ConcatFacts ==
  ASSUME NEW S, NEW s \in Seq(S), NEW t \in Seq(S)
  PROVE  /\ s \o t \in Seq(S)
         /\ Len(s \o t) = Len(s) + Len(t)
         /\ \A i \in 1..(Len(s) + Len(t)) :
              (s \o t)[i] = IF i <= Len(s) THEN s[i] ELSE t[i - Len(s)]
  OBVIOUS

LEMMA InAppend ==
  ASSUME NEW s \in Seq(Frame), NEW f \in Frame, NEW type, NEW m
  PROVE  In(Append(s, f), type, m) <=> In(s, type, m) \/ (f.type = type /\ f.msg = m)
<1>1. In(Append(s, f), type, m) => In(s, type, m) \/ (f.type = type /\ f.msg = m)
  BY AppendFacts DEF In
<1>2. In(s, type, m) => In(Append(s, f), type, m)
  BY AppendFacts DEF In
<1>3. Len(s) + 1 \in DOMAIN Append(s, f) /\ Append(s, f)[Len(s) + 1] = f
  BY AppendFacts
<1>4. f.type = type /\ f.msg = m => In(Append(s, f), type, m)
  BY <1>3 DEF In
<1> QED
  BY <1>1, <1>2, <1>4

LEMMA InTail ==
  ASSUME NEW s \in Seq(Frame), s # <<>>, NEW type, NEW m
  PROVE  In(s, type, m) <=>
           In(Tail(s), type, m) \/ (Head(s).type = type /\ Head(s).msg = m)
<1>1. ASSUME NEW k \in DOMAIN s, s[k].type = type, s[k].msg = m
      PROVE  In(Tail(s), type, m) \/ (Head(s).type = type /\ Head(s).msg = m)
  <2>1. CASE k = 1
    BY <1>1, <2>1, TailFacts
  <2>2. CASE k # 1
    <3>1. k - 1 \in DOMAIN Tail(s) /\ s[k] = Tail(s)[k - 1]
      BY <2>2, TailFacts
    <3> QED
      BY <1>1, <3>1 DEF In
  <2> QED
    BY <2>1, <2>2
<1>2. In(Tail(s), type, m) => In(s, type, m)
  BY TailFacts DEF In
<1>3. Head(s).type = type /\ Head(s).msg = m => In(s, type, m)
  BY TailFacts DEF In
<1> QED
  BY <1>1, <1>2, <1>3 DEF In

LEMMA InEmpty == \A type, m : ~In(<<>>, type, m)
  BY DEF In

LEMMA AckFirstAppend ==
  ASSUME NEW s \in Seq(Frame), AckFirst(s), NEW f \in Frame,
         f.type = "ack" => ~In(s, "message", f.msg)
  PROVE  AckFirst(Append(s, f))
<1> SUFFICES ASSUME NEW i \in DOMAIN Append(s, f), NEW j \in DOMAIN Append(s, f),
                    Append(s, f)[i].type = "ack", Append(s, f)[j].type = "message",
                    Append(s, f)[i].msg = Append(s, f)[j].msg
             PROVE  i < j
  BY DEF AckFirst
<1>1. Len(s) \in Nat /\ DOMAIN s = 1..Len(s) /\ DOMAIN Append(s, f) = 1..(Len(s) + 1)
  BY AppendFacts
<1>2. CASE i \in DOMAIN s /\ j \in DOMAIN s
  BY <1>1, <1>2, AppendFacts DEF AckFirst
<1>3. CASE i \in DOMAIN s /\ j = Len(s) + 1
  BY <1>1, <1>3
<1>4. CASE i = Len(s) + 1 /\ j \in DOMAIN s
  BY <1>1, <1>4, AppendFacts DEF In
<1>5. CASE i = Len(s) + 1 /\ j = Len(s) + 1
  BY <1>5
<1> QED
  BY <1>1, <1>2, <1>3, <1>4, <1>5

LEMMA AckFirstTail ==
  ASSUME NEW s \in Seq(Frame), AckFirst(s), s # <<>>
  PROVE  /\ AckFirst(Tail(s))
         /\ Head(s).type = "message" => ~In(s, "ack", Head(s).msg)
<1>1. AckFirst(Tail(s))
  <2> SUFFICES ASSUME NEW i \in DOMAIN Tail(s), NEW j \in DOMAIN Tail(s),
                      Tail(s)[i].type = "ack", Tail(s)[j].type = "message",
                      Tail(s)[i].msg = Tail(s)[j].msg
               PROVE  i < j
    BY DEF AckFirst
  <2>1. i + 1 < j + 1
    BY TailFacts DEF AckFirst
  <2> QED
    BY <2>1, TailFacts
<1>2. ASSUME Head(s).type = "message", NEW k \in DOMAIN s,
             s[k].type = "ack", s[k].msg = Head(s).msg
      PROVE  FALSE
  <2>1. k < 1
    BY <1>2, TailFacts DEF AckFirst
  <2> QED
    BY <2>1
<1> QED
  BY <1>1, <1>2 DEF In

-----------------------------------------------------------------------------
(***************************************************************************)
(* Sorting.                                                                *)
(***************************************************************************)
Rank(S, key, m) == Cardinality({k \in S : key[k] <= key[m]})

LEMMA RankType ==
  ASSUME NEW S, IsFiniteSet(S), NEW key, \A a \in S : key[a] \in Nat, NEW m \in S
  PROVE  Rank(S, key, m) \in 1..Cardinality(S)
<1> DEFINE I == {k \in S : key[k] <= key[m]}
<1>1. I \in SUBSET S /\ m \in I
  OBVIOUS
<1> HIDE DEF I
<1>2. IsFiniteSet(I) /\ Cardinality(I) <= Cardinality(S)
  BY <1>1, FS_Subset
<1>3. Cardinality(I) \in Nat /\ Cardinality(S) \in Nat /\ Cardinality(I) # 0
  BY <1>1, <1>2, FS_CardinalityType, FS_EmptySet
<1> QED
  BY <1>2, <1>3 DEF Rank, I

LEMMA RankGrows ==
  ASSUME NEW S, IsFiniteSet(S), NEW key, \A a \in S : key[a] \in Nat,
         NEW m \in S, NEW k \in S, key[m] < key[k]
  PROVE  Rank(S, key, m) < Rank(S, key, k)
<1> DEFINE I == {a \in S : key[a] <= key[m]}
           J == {a \in S : key[a] <= key[k]}
<1>1. I \in SUBSET J /\ J \in SUBSET S
  OBVIOUS
<1>2. k \in J /\ k \notin I
  OBVIOUS
<1> HIDE DEF I, J
<1>3. IsFiniteSet(J) /\ IsFiniteSet(I)
  BY <1>1, FS_Subset
<1>4. Cardinality(I) <= Cardinality(J) /\ Cardinality(I) # Cardinality(J)
  BY <1>1, <1>2, <1>3, FS_Subset
<1>5. Cardinality(I) \in Nat /\ Cardinality(J) \in Nat
  BY <1>3, FS_CardinalityType
<1> QED
  BY <1>4, <1>5 DEF Rank, I, J

LEMMA RankOnto ==
  ASSUME NEW S, IsFiniteSet(S), NEW key, \A a \in S : key[a] \in Nat,
         \A a, b \in S : key[a] = key[b] => a = b,
         NEW i \in 1..Cardinality(S)
  PROVE  \E m \in S : Rank(S, key, m) = i
<1> DEFINE n == Cardinality(S)
           f == [m \in S |-> Rank(S, key, m)]
<1>1. n \in Nat /\ IsFiniteSet(1..n) /\ Cardinality(1..n) = n
  BY FS_CardinalityType, FS_Interval
<1>2. f \in [S -> 1..n]
  BY RankType
<1>3. ASSUME NEW m \in S, NEW k \in S, f[m] = f[k] PROVE m = k
  <2>1. Rank(S, key, m) = Rank(S, key, k) /\ Rank(S, key, m) \in Nat
    BY <1>3, RankType
  <2>2. ~(key[m] < key[k]) /\ ~(key[k] < key[m])
    BY <2>1, RankGrows
  <2>3. key[m] \in Nat /\ key[k] \in Nat
    OBVIOUS
  <2>4. key[m] = key[k]
    BY <2>2, <2>3
  <2> QED
    BY <2>4
<1> HIDE DEF f, n
<1>4. f \in Injection(S, 1..n)
  BY <1>2, <1>3, Fun_IsInj
<1>5. f \in Surjection(S, 1..n)
  BY <1>1, <1>4, FS_Injection DEF n
<1>6. \E m \in S : f[m] = i
  BY <1>5 DEF Surjection, n
<1> QED
  BY <1>6 DEF f

(* Ranked holds every member once, keys ascending. *)
LEMMA RankedFacts ==
  ASSUME NEW S, IsFiniteSet(S), NEW key, \A a \in S : key[a] \in Nat,
         \A a, b \in S : key[a] = key[b] => a = b
  PROVE  /\ Cardinality(S) \in Nat
         /\ Ranked(S, key) \in Seq(S)
         /\ Len(Ranked(S, key)) = Cardinality(S)
         /\ \A i, j \in 1..Cardinality(S) :
              i < j <=> key[Ranked(S, key)[i]] < key[Ranked(S, key)[j]]
         /\ \A i, j \in 1..Cardinality(S) : Ranked(S, key)[i] = Ranked(S, key)[j] => i = j
         /\ \A m \in S : \E i \in 1..Cardinality(S) : Ranked(S, key)[i] = m
<1> DEFINE n == Cardinality(S)
           r == Ranked(S, key)
<1>1. n \in Nat
  BY FS_CardinalityType
<1>2. ASSUME NEW i \in 1..n PROVE r[i] \in S /\ Rank(S, key, r[i]) = i
  <2>1. r[i] = CHOOSE m \in S : Rank(S, key, m) = i
    BY DEF Ranked, Rank
  <2>2. \E m \in S : Rank(S, key, m) = i
    BY RankOnto
  <2> QED
    BY <2>1, <2>2
<1>3. r \in [1..n -> S]
  BY <1>2 DEF Ranked
<1> HIDE DEF r, n
<1>4. r \in Seq(S) /\ Len(r) = n
  BY <1>1, <1>3
<1>5. ASSUME NEW i \in 1..n, NEW j \in 1..n
      PROVE  /\ i < j <=> key[r[i]] < key[r[j]]
             /\ r[i] = r[j] => i = j
  <2>1. /\ i \in Nat /\ j \in Nat /\ key[r[i]] \in Nat /\ key[r[j]] \in Nat
        /\ r[i] \in S /\ r[j] \in S
    BY <1>1, <1>2
  <2>2. key[r[i]] < key[r[j]] => i < j
    BY <1>2, <2>1, RankGrows
  <2>3. key[r[j]] < key[r[i]] => j < i
    BY <1>2, <2>1, RankGrows
  <2>4. r[i] = r[j] => i = j
    BY <1>2
  <2>5. key[r[i]] = key[r[j]] => i = j
    BY <2>1, <2>4
  <2> QED
    BY <2>1, <2>2, <2>3, <2>4, <2>5
<1>6. ASSUME NEW m \in S PROVE \E i \in 1..n : r[i] = m
  <2>1. Rank(S, key, m) \in 1..n
    BY RankType DEF n
  <2> DEFINE i == Rank(S, key, m)
  <2>2. r[i] \in S /\ Rank(S, key, r[i]) = i
    BY <1>2, <2>1
  <2>3. ~(key[m] < key[r[i]]) /\ ~(key[r[i]] < key[m])
    <3>1. Rank(S, key, m) \in Nat
      BY <1>1, <2>1
    <3> QED
      BY <2>2, <3>1, RankGrows
  <2>4. key[m] \in Nat /\ key[r[i]] \in Nat
    BY <2>2
  <2>5. r[i] = m
    BY <2>2, <2>3, <2>4
  <2> QED
    BY <2>1, <2>5
<1> QED
  BY <1>1, <1>4, <1>5, <1>6 DEF r, n

(* The last n entries of a sequence. *)
LEMMA SuffixFacts ==
  ASSUME NEW A, NEW s \in Seq(A), NEW n \in Nat, n <= Len(s)
  PROVE  /\ SubSeq(s, Len(s) - n + 1, Len(s)) \in Seq(A)
         /\ Len(SubSeq(s, Len(s) - n + 1, Len(s))) = n
         /\ \A i \in 1..n : /\ Len(s) - n + i \in DOMAIN s
                            /\ SubSeq(s, Len(s) - n + 1, Len(s))[i] = s[Len(s) - n + i]
<1> DEFINE L == Len(s)
           t == SubSeq(s, L - n + 1, L)
<1>1. L \in Nat /\ DOMAIN s = 1..L /\ s \in [1..L -> A]
  OBVIOUS
<1>2. t = [i \in 1..n |-> s[L - n + i]]
  BY <1>1
<1>3. \A i \in 1..n : L - n + i \in 1..L
  BY <1>1
<1>4. t \in [1..n -> A]
  BY <1>1, <1>2, <1>3
<1>5. t \in Seq(A) /\ Len(t) = n
  BY <1>4
<1> QED
  BY <1>1, <1>2, <1>3, <1>5

-----------------------------------------------------------------------------
(***************************************************************************)
(* What the operations of chatStore make of a list.                        *)
(***************************************************************************)
(* t is s with e at its end, without some of the oldest entries. *)
Added(s, e, t) == \E d \in Nat :
  /\ d <= Len(s) + 1 /\ Len(t) = Len(s) + 1 - d
  /\ \A i \in DOMAIN t : \/ i + d \in DOMAIN s /\ t[i] = s[i + d]
                         \/ i + d = Len(s) + 1 /\ t[i] = e

LEMMA NewestFacts ==
  ASSUME NEW s \in Seq(Entry)
  PROVE  /\ Newest(s) \in Seq(Entry)
         /\ Len(Newest(s)) <= MaxPerChat
         /\ Len(s) <= MaxPerChat => Newest(s) = s
         /\ \E d \in Nat : /\ d <= Len(s) /\ Len(Newest(s)) = Len(s) - d
                           /\ \A i \in DOMAIN Newest(s) : /\ i + d \in DOMAIN s
                                                          /\ Newest(s)[i] = s[i + d]
<1>1. Len(s) \in Nat /\ MaxPerChat \in Nat
  BY Shape
<1>2. CASE Len(s) <= MaxPerChat
  <2>1. Newest(s) = s
    BY <1>1, <1>2 DEF Newest
  <2>2. \A i \in DOMAIN s : i + 0 = i
    OBVIOUS
  <2> QED
    BY <1>1, <1>2, <2>1, <2>2
<1>3. CASE Len(s) > MaxPerChat
  <2> DEFINE t == SubSeq(s, Len(s) - MaxPerChat + 1, Len(s))
             d == Len(s) - MaxPerChat
  <2>1. Newest(s) = t
    BY <1>1, <1>3 DEF Newest
  <2>2. /\ t \in Seq(Entry) /\ Len(t) = MaxPerChat
        /\ \A i \in 1..MaxPerChat : d + i \in DOMAIN s /\ t[i] = s[d + i]
    BY <1>1, <1>3, SuffixFacts
  <2> HIDE DEF t
  <2>3. d \in Nat /\ d <= Len(s) /\ Len(t) = Len(s) - d
    BY <1>1, <1>3, <2>2
  <2>4. \A i \in DOMAIN t : i \in 1..MaxPerChat /\ i + d = d + i
    BY <1>1, <1>3, <2>2
  <2> QED
    BY <1>3, <2>1, <2>2, <2>3, <2>4
<1> QED
  BY <1>1, <1>2, <1>3

LEMMA AddFacts ==
  ASSUME Typed, NEW p \in Partners, NEW e \in Entry, AddMessage(p, e)
  PROVE  /\ view' \in [Partners -> Seq(Entry)] /\ trimmed' \in BOOLEAN
         /\ \A q \in Partners : q # p => view'[q] = view[q]
         /\ view' = view \/ /\ e.known => ~Knows(view[p], e.msg)
                            /\ Added(view[p], e, view'[p])
                            /\ Len(view'[p]) <= MaxPerChat
         /\ ~trimmed' => ~trimmed
         /\ ~trimmed' /\ p = active =>
              \A m : Knows(view[p], m) => Knows(view'[p], m)
<1>1. CASE UNCHANGED <<view, trimmed>>
  BY <1>1 DEF Typed
<1>2. CASE /\ e.known => ~Knows(view[p], e.msg)
           /\ view' = [view EXCEPT ![p] = Newest(Append(@, e))]
           /\ trimmed' = (trimmed \/ (p = active /\ Len(view[p]) >= MaxPerChat))
  <2> DEFINE s == view[p]
             a == Append(s, e)
  <2>1. s \in Seq(Entry) /\ Len(s) \in Nat
    BY DEF Typed
  <2>2. a \in Seq(Entry) /\ Len(a) = Len(s) + 1
    BY <2>1, AppendFacts
  <2>3. /\ Newest(a) \in Seq(Entry) /\ Len(Newest(a)) <= MaxPerChat
        /\ Len(a) <= MaxPerChat => Newest(a) = a
    BY <2>2, NewestFacts
  <2>4. /\ view' \in [Partners -> Seq(Entry)] /\ view'[p] = Newest(a)
        /\ \A q \in Partners : q # p => view'[q] = view[q]
    BY <1>2, <2>3 DEF Typed
  <2>5. Added(s, e, Newest(a))
    <3>1. PICK d \in Nat :
            /\ d <= Len(a) /\ Len(Newest(a)) = Len(a) - d
            /\ \A i \in DOMAIN Newest(a) : i + d \in DOMAIN a /\ Newest(a)[i] = a[i + d]
      BY <2>2, NewestFacts
    <3>2. \A j \in DOMAIN a : \/ j \in DOMAIN s /\ a[j] = s[j]
                              \/ j = Len(s) + 1 /\ a[j] = e
      BY <2>1, AppendFacts
    <3> DEFINE t == Newest(a)
    <3>3. d <= Len(s) + 1 /\ Len(t) = Len(s) + 1 - d
      BY <2>2, <3>1
    <3>4. ASSUME NEW i \in DOMAIN t
          PROVE  \/ i + d \in DOMAIN s /\ t[i] = s[i + d]
                 \/ i + d = Len(s) + 1 /\ t[i] = e
      BY <3>1, <3>2
    <3> HIDE DEF a, s, t
    <3>5. Added(s, e, t)
      BY <3>3, <3>4 DEF Added
    <3> QED
      BY <3>5 DEF t
  <2>6. ~trimmed' /\ p = active => Newest(a) = a
    <3>1. ~trimmed' /\ p = active => ~(Len(s) >= MaxPerChat)
      BY <1>2, Zenon
    <3>2. ~(Len(s) >= MaxPerChat) => Len(a) <= MaxPerChat
      BY <2>1, <2>2, Shape
    <3> QED
      BY <2>3, <3>1, <3>2
  <2>7. ASSUME NEW m, Knows(s, m) PROVE Knows(a, m)
    BY <2>1, <2>7, AppendFacts DEF Knows
  <2>8. trimmed' \in BOOLEAN /\ (~trimmed' => ~trimmed)
    BY <1>2 DEF Typed
  <2> QED
    BY <1>2, <2>3, <2>4, <2>5, <2>6, <2>7, <2>8
<1> QED
  BY <1>1, <1>2 DEF AddMessage

(* Entry i of m's list becomes f, which is no longer pending. *)
Patch(m, i, f) ==
  /\ i \in DOMAIN view[ChatOf[m]]
  /\ view[ChatOf[m]][i].own /\ view[ChatOf[m]][i].msg = m
  /\ f \in Entry /\ f.msg = m /\ f.own /\ ~f.pending
  /\ view' = [view EXCEPT ![ChatOf[m]] = [@ EXCEPT ![i] = f]]

OneOwn(s) == \A i, j \in DOMAIN s :
  i # j /\ s[i].msg = s[j].msg => s[i].own # s[j].own

LEMMA MatchOne ==
  ASSUME NEW s \in Seq(Entry), OneOwn(s), NEW m
  PROVE  \/ Matching(s, m) = {}
         \/ \E i \in DOMAIN s : /\ Matching(s, m) = {i} /\ Min(Matching(s, m)) = i
                                /\ s[i].own /\ s[i].msg = m
<1>1. ASSUME NEW i \in Matching(s, m)
      PROVE  /\ i \in DOMAIN s /\ Matching(s, m) = {i} /\ Min(Matching(s, m)) = i
             /\ s[i].own /\ s[i].msg = m
  <2>1. i \in DOMAIN s /\ s[i].own /\ s[i].msg = m
    BY DEF Matching
  <2>2. ASSUME NEW j \in Matching(s, m) PROVE j = i
    <3>1. j \in DOMAIN s /\ s[j].own /\ s[j].msg = m
      BY DEF Matching
    <3> QED
      BY <2>1, <3>1 DEF OneOwn
  <2>3. Matching(s, m) = {i}
    BY <2>2
  <2>4. i \in Nat
    BY <2>1
  <2>5. Min({i}) = i
    BY <2>4 DEF Min
  <2> QED
    BY <2>1, <2>3, <2>5
<1> QED
  BY <1>1

LEMMA AckEffect ==
  ASSUME Typed, \A p \in Partners : OneOwn(view[p]), ReceiveAck
  PROVE  \/ Matching(view[ChatOf[Head(wire).msg]], Head(wire).msg) = {} /\ view' = view
         \/ \E i, f : Patch(Head(wire).msg, i, f) /\ f.known /\ ~f.failed
<1> DEFINE m == Head(wire).msg
           p == ChatOf[m]
           s == view[p]
<1>1. m \in Messages /\ p \in Partners /\ s \in Seq(Entry) /\ OneOwn(s)
  <2>1. Head(wire) \in Frame
    BY TailFacts DEF Typed, ReceiveAck, Arrives
  <2>2. m \in Messages
    BY <2>1 DEF Frame
  <2> QED
    BY <2>2, Shape DEF Typed
<1>2. view' = IF Matching(s, m) = {} THEN view
              ELSE [view EXCEPT ![p][Min(Matching(s, m))] =
                     [e \in Entry |-> [e EXCEPT !.known = TRUE, !.pending = FALSE,
                                              !.failed = FALSE]][@]]
  BY DEF ReceiveAck, ResolveMessage
<1>3. ASSUME Matching(s, m) # {}
      PROVE  \E i, f : Patch(m, i, f) /\ f.known /\ ~f.failed
  <2>1. PICK i \in DOMAIN s : /\ Min(Matching(s, m)) = i
                              /\ s[i].own /\ s[i].msg = m
    BY <1>1, <1>3, MatchOne
  <2> DEFINE f == [s[i] EXCEPT !.known = TRUE, !.pending = FALSE, !.failed = FALSE]
  <2>2. s[i] \in Entry
    BY <1>1
  <2>3. f \in Entry /\ f.msg = m /\ f.own /\ ~f.pending /\ f.known /\ ~f.failed
    BY <2>1, <2>2 DEF Entry
  <2>4. view' = [view EXCEPT ![p] = [@ EXCEPT ![i] = f]]
    BY <1>2, <1>3, <2>1, <2>2
  <2> QED
    BY <2>1, <2>3, <2>4 DEF Patch
<1> QED
  BY <1>2, <1>3

LEMMA ErrorEffect ==
  ASSUME Typed, \A p \in Partners : OneOwn(view[p]), ReceiveError
  PROVE  \/ Matching(view[ChatOf[Head(wire).msg]], Head(wire).msg) = {} /\ view' = view
         \/ \E i, f : /\ Patch(Head(wire).msg, i, f) /\ f.failed
                      /\ f.known = view[ChatOf[Head(wire).msg]][i].known
<1> DEFINE m == Head(wire).msg
           p == ChatOf[m]
           s == view[p]
<1>1. m \in Messages /\ p \in Partners /\ s \in Seq(Entry) /\ OneOwn(s)
  <2>1. Head(wire) \in Frame
    BY TailFacts DEF Typed, ReceiveError, Arrives
  <2>2. m \in Messages
    BY <2>1 DEF Frame
  <2> QED
    BY <2>2, Shape DEF Typed
<1>2. view' = IF Matching(s, m) = {} THEN view
              ELSE [view EXCEPT ![p][Min(Matching(s, m))] =
                     [e \in Entry |-> [e EXCEPT !.pending = FALSE, !.failed = TRUE]][@]]
  BY DEF ReceiveError, ResolveMessage
<1>3. ASSUME Matching(s, m) # {}
      PROVE  \E i, f : Patch(m, i, f) /\ f.failed /\ f.known = s[i].known
  <2>1. PICK i \in DOMAIN s : /\ Min(Matching(s, m)) = i
                              /\ s[i].own /\ s[i].msg = m
    BY <1>1, <1>3, MatchOne
  <2> DEFINE f == [s[i] EXCEPT !.pending = FALSE, !.failed = TRUE]
  <2>2. s[i] \in Entry
    BY <1>1
  <2>3. f \in Entry /\ f.msg = m /\ f.own /\ ~f.pending /\ f.failed /\ f.known = s[i].known
    BY <2>1, <2>2 DEF Entry
  <2>4. view' = [view EXCEPT ![p] = [@ EXCEPT ![i] = f]]
    BY <1>2, <1>3, <2>1, <2>2
  <2> QED
    BY <2>1, <2>3, <2>4 DEF Patch
<1> QED
  BY <1>2, <1>3

LEMMA PatchFacts ==
  ASSUME Typed, NEW m \in Messages, NEW i, NEW f, Patch(m, i, f)
  PROVE  /\ view' \in [Partners -> Seq(Entry)]
         /\ \A q \in Partners : /\ q # ChatOf[m] => view'[q] = view[q]
                                /\ Len(view'[q]) = Len(view[q])
                                /\ DOMAIN view'[q] = DOMAIN view[q]
         /\ view'[ChatOf[m]][i] = f
         /\ \A j \in DOMAIN view[ChatOf[m]] :
              j # i => view'[ChatOf[m]][j] = view[ChatOf[m]][j]
<1> DEFINE p == ChatOf[m]
           s == view[p]
           t == [s EXCEPT ![i] = f]
<1>1. p \in Partners /\ s \in Seq(Entry) /\ i \in DOMAIN s /\ f \in Entry
  BY Shape DEF Typed, Patch
<1>2. /\ t \in Seq(Entry) /\ Len(t) = Len(s) /\ DOMAIN t = DOMAIN s
      /\ t[i] = f /\ \A j \in DOMAIN s : j # i => t[j] = s[j]
  BY <1>1
<1>3. view' = [view EXCEPT ![p] = t]
  BY DEF Patch
<1> HIDE DEF t
<1>4. view' \in [Partners -> Seq(Entry)] /\ view'[p] = t
      /\ \A q \in Partners : q # p => view'[q] = view[q]
  BY <1>1, <1>2, <1>3 DEF Typed
<1> QED
  BY <1>1, <1>2, <1>4

(* t is s behind n new entries, made from the rows that s does not know. *)
Fronted(s, rows, n, t) ==
  /\ n <= Len(rows) /\ Len(t) = n + Len(s)
  /\ \A i \in 1..n : \E k \in DOMAIN rows :
       ~Knows(s, rows[k]) /\ t[i] = Received(rows[k])
  /\ \A i, j \in 1..n : t[i].msg = t[j].msg => i = j
  /\ \A i \in DOMAIN s : n + i \in DOMAIN t /\ t[n + i] = s[i]
  /\ \A i \in DOMAIN t : i \in 1..n \/ \E k \in DOMAIN s : i = n + k
  /\ \A m : Knows(s, m) \/ m \in ToSet(rows) => Knows(t, m)

LEMMA PrependedFacts ==
  ASSUME NEW s \in Seq(Entry), NEW rows \in Seq(Messages),
         \A i, j \in DOMAIN rows : rows[i] = rows[j] => i = j
  PROVE  /\ Prepended(s, rows) \in Seq(Entry)
         /\ \E n \in Nat : Fronted(s, rows, n, Prepended(s, rows))
<1> DEFINE K == {i \in DOMAIN rows : ~Knows(s, rows[i])}
           key == [i \in DOMAIN rows |-> i]
           order == Ranked(K, key)
           n == Cardinality(K)
           front == [i \in DOMAIN order |-> Received(rows[order[i]])]
           t == Prepended(s, rows)
<1>1. IsFiniteSet(DOMAIN rows) /\ Cardinality(DOMAIN rows) = Len(rows) /\ Len(rows) \in Nat
  <2>1. Len(rows) \in Nat /\ DOMAIN rows = 1..Len(rows)
    OBVIOUS
  <2>2. Len(rows) \in Int /\ 1 \in Int
    BY <2>1
  <2>3. /\ IsFiniteSet(1..Len(rows))
        /\ Cardinality(1..Len(rows)) = IF 1 > Len(rows) THEN 0 ELSE Len(rows) - 1 + 1
    BY <2>2, FS_Interval, Zenon
  <2>4. Cardinality(1..Len(rows)) = Len(rows)
    BY <2>1, <2>3
  <2> QED
    BY <2>1, <2>3, <2>4
<1>2. K \in SUBSET DOMAIN rows
  OBVIOUS
<1>3. IsFiniteSet(K) /\ n <= Len(rows) /\ n \in Nat
  <2> HIDE DEF K
  <2> QED
    BY <1>1, <1>2, FS_Subset, FS_CardinalityType
<1>4. /\ \A a \in K : key[a] \in Nat /\ a \in DOMAIN rows /\ ~Knows(s, rows[a])
      /\ \A a, b \in K : key[a] = key[b] => a = b
  OBVIOUS
<1> HIDE DEF K, key
<1>5. /\ order \in Seq(K) /\ Len(order) = n
      /\ \A i, j \in 1..n : order[i] = order[j] => i = j
      /\ \A m \in K : \E i \in 1..n : order[i] = m
  BY <1>3, <1>4, RankedFacts
<1> HIDE DEF order
<1>6. DOMAIN order = 1..n /\ \A i \in 1..n : order[i] \in K
  BY <1>3, <1>5
<1>7. \A m \in Messages : Received(m) \in Entry /\ Received(m).msg = m /\ Received(m).known
  BY DEF Received, Entry
<1>8. \A i \in 1..n : rows[order[i]] \in Messages
  BY <1>4, <1>6
<1>9. front \in [1..n -> Entry] /\ \A i \in 1..n : front[i] = Received(rows[order[i]])
  BY <1>6, <1>7, <1>8
<1>10. t = front \o s
  BY DEF Prepended, order, K, key
<1> HIDE DEF front, n, t
<1>11. front \in Seq(Entry) /\ Len(front) = n /\ DOMAIN front = 1..n
  BY <1>3, <1>9
<1>12. /\ t \in Seq(Entry) /\ Len(t) = n + Len(s)
       /\ \A i \in 1..n : t[i] = front[i]
       /\ \A i \in DOMAIN s : n + i \in DOMAIN t /\ t[n + i] = s[i]
  <2>1. t \in Seq(Entry) /\ Len(t) = n + Len(s)
    BY <1>10, <1>11, ConcatFacts
  <2>2. \A i \in 1..(n + Len(s)) : t[i] = IF i <= n THEN front[i] ELSE s[i - n]
    BY <1>10, <1>11, ConcatFacts
  <2>3. n \in Nat /\ Len(s) \in Nat /\ DOMAIN s = 1..Len(s) /\ DOMAIN t = 1..(n + Len(s))
    BY <1>3, <2>1
  <2>4. ASSUME NEW i \in 1..n PROVE t[i] = front[i]
    BY <2>2, <2>3
  <2>5. ASSUME NEW i \in 1..Len(s) PROVE n + i \in DOMAIN t /\ t[n + i] = s[i]
    <3>1. n + i \in 1..(n + Len(s)) /\ ~(n + i <= n) /\ (n + i) - n = i
      BY <2>3
    <3> QED
      BY <2>2, <2>3, <3>1
  <2> QED
    BY <2>1, <2>3, <2>4, <2>5
<1>13. ASSUME NEW i \in DOMAIN t PROVE i \in 1..n \/ \E k \in DOMAIN s : i = n + k
  <2>1. /\ i \in Nat /\ i >= 1 /\ i <= n + Len(s) /\ n \in Nat /\ Len(s) \in Nat
        /\ DOMAIN s = 1..Len(s)
    BY <1>3, <1>12
  <2>2. CASE i > n
    <3>1. i - n \in 1..Len(s) /\ i = n + (i - n)
      BY <2>1, <2>2
    <3> QED
      BY <2>1, <3>1
  <2>3. CASE i <= n
    BY <2>1, <2>3
  <2> QED
    BY <2>1, <2>2, <2>3
<1>14. ASSUME NEW i \in 1..n
       PROVE  \E k \in DOMAIN rows : ~Knows(s, rows[k]) /\ t[i] = Received(rows[k])
  BY <1>4, <1>6, <1>9, <1>12
<1>15. ASSUME NEW i \in 1..n, NEW j \in 1..n, t[i].msg = t[j].msg PROVE i = j
  <2>1. rows[order[i]] = rows[order[j]]
    BY <1>7, <1>8, <1>9, <1>12, <1>15
  <2>2. order[i] = order[j]
    BY <1>4, <1>6, <2>1
  <2> QED
    BY <1>5, <2>2
<1>16. ASSUME NEW m, Knows(s, m) PROVE Knows(t, m)
  BY <1>12, <1>16 DEF Knows
<1>17. ASSUME NEW m, m \in ToSet(rows) PROVE Knows(t, m)
  <2>1. PICK k \in DOMAIN rows : rows[k] = m
    BY <1>17 DEF ToSet
  <2>2. CASE Knows(s, m)
    BY <1>16, <2>2
  <2>3. CASE ~Knows(s, m)
    <3>1. k \in K
      BY <2>1, <2>3 DEF K
    <3>2. PICK i \in 1..n : order[i] = k
      BY <1>5, <3>1
    <3>3. t[i] = Received(m) /\ m \in Messages
      BY <1>9, <1>12, <2>1, <3>2
    <3>4. i \in DOMAIN t
      BY <1>3, <1>12
    <3> QED
      BY <1>7, <3>3, <3>4 DEF Knows
  <2> QED
    BY <2>2, <2>3
<1>18. Fronted(s, rows, n, t)
  BY <1>3, <1>12, <1>13, <1>14, <1>15, <1>16, <1>17 DEF Fronted
<1> QED
  BY <1>3, <1>12, <1>18 DEF n, t

-----------------------------------------------------------------------------
(***************************************************************************)
(* Every variable keeps its type.                                          *)
(***************************************************************************)
LEMMA FrameFacts ==
  ASSUME Typed, wire # <<>>
  PROVE  /\ Head(wire) \in Frame /\ Head(wire).msg \in Messages
         /\ Tail(wire) \in Seq(Frame)
         /\ ChatOf[Head(wire).msg] \in Partners
<1>1. Head(wire) \in Frame /\ Tail(wire) \in Seq(Frame)
  BY TailFacts DEF Typed
<1>2. Head(wire).msg \in Messages
  BY <1>1 DEF Frame
<1> QED
  BY <1>1, <1>2, Shape

LEMMA EmitType ==
  ASSUME Typed, NEW type \in {"ack", "error", "message"}, NEW m \in Messages, Emit(type, m)
  PROVE  wire' \in Seq(Frame)
<1>1. [type |-> type, msg |-> m] \in Frame
  BY DEF Frame
<1>2. Append(wire, [type |-> type, msg |-> m]) \in Seq(Frame)
  BY <1>1, AppendFacts DEF Typed
<1> QED
  BY <1>2 DEF Emit, Typed

LEMMA PatchedType ==
  ASSUME Typed, \A p \in Partners : OneOwn(view[p]), ReceiveAck \/ ReceiveError
  PROVE  view' \in [Partners -> Seq(Entry)]
<1>1. Head(wire).msg \in Messages
  BY FrameFacts DEF ReceiveAck, ReceiveError, Arrives
<1>2. CASE view' = view
  BY <1>2 DEF Typed
<1>3. ASSUME NEW i, NEW f, Patch(Head(wire).msg, i, f)
      PROVE  view' \in [Partners -> Seq(Entry)]
  BY <1>1, <1>3, PatchFacts
<1> QED
  BY <1>2, <1>3, AckEffect, ErrorEffect

(* What Serve answers: the newest rows of those asked for. *)
Before == {m \in store : /\ ChatOf[m] = request.partner
                         /\ request.cursor = None
                              \/ ids[m] < ids[request.cursor]}

Answer ==
  LET all  == Ranked(Before, ids)
      more == Len(all) > PageSize
  IN  IF more THEN SubSeq(all, Len(all) - PageSize + 1, Len(all)) ELSE all

LEMMA AnswerFacts ==
  ASSUME Typed, Numbered
  PROVE  /\ Answer \in Seq(Messages) /\ Len(Answer) <= PageSize
         /\ \A i, j \in DOMAIN Answer : Answer[i] = Answer[j] => i = j
         /\ \A i \in DOMAIN Answer : Answer[i] \in Before
         /\ Len(Ranked(Before, ids)) > PageSize =>
              /\ 1 \in DOMAIN Answer
              /\ \A m \in Before : ids[m] >= ids[Answer[1]] => m \in ToSet(Answer)
         /\ ~(Len(Ranked(Before, ids)) > PageSize) =>
              \A m \in Before : m \in ToSet(Answer)
<1> DEFINE all == Ranked(Before, ids)
           n == Cardinality(Before)
<1>1. Before \in SUBSET Ided /\ Before \subseteq Messages
  BY DEF Before, Numbered, Typed
<1>2. IsFiniteSet(Before)
  BY <1>1, FS_Subset DEF Numbered
<1>3. /\ \A a \in Before : ids[a] \in Nat
      /\ \A a, b \in Before : ids[a] = ids[b] => a = b
  BY <1>1 DEF Typed, Numbered
<1>4. /\ n \in Nat /\ all \in Seq(Before) /\ Len(all) = n
      /\ \A i, j \in 1..n : i < j <=> ids[all[i]] < ids[all[j]]
      /\ \A i, j \in 1..n : all[i] = all[j] => i = j
      /\ \A m \in Before : \E i \in 1..n : all[i] = m
  BY <1>2, <1>3, RankedFacts
<1>5. Answer = IF n > PageSize THEN SubSeq(all, n - PageSize + 1, n) ELSE all
  BY <1>4 DEF Answer
<1>6. PageSize \in Nat /\ PageSize > 0
  BY Shape
<1>7. \A s \in Seq(Before) : s \in Seq(Messages) /\ \A i \in DOMAIN s : s[i] \in Before
  BY <1>1
<1> HIDE DEF all, n
<1>8. CASE n > PageSize
  <2> DEFINE d == n - PageSize
  <2>1. Answer = SubSeq(all, n - PageSize + 1, n)
    BY <1>5, <1>8
  <2>2. /\ Answer \in Seq(Before) /\ Len(Answer) = PageSize
        /\ \A i \in 1..PageSize : d + i \in DOMAIN all /\ Answer[i] = all[d + i]
    <3>1. PageSize \in Nat /\ PageSize <= Len(all) /\ all \in Seq(Before) /\ Len(all) = n
      BY <1>4, <1>6, <1>8
    <3> DEFINE t == SubSeq(all, Len(all) - PageSize + 1, Len(all))
    <3>2. /\ t \in Seq(Before) /\ Len(t) = PageSize
          /\ \A i \in 1..PageSize : /\ Len(all) - PageSize + i \in DOMAIN all
                                    /\ t[i] = all[Len(all) - PageSize + i]
      BY <3>1, SuffixFacts
    <3>3. Answer = t
      BY <2>1, <3>1
    <3> HIDE DEF t
    <3> QED
      BY <3>1, <3>2, <3>3
  <2>3. DOMAIN Answer = 1..PageSize /\ DOMAIN all = 1..n /\ d \in Nat /\ 1 \in DOMAIN Answer
    BY <1>4, <1>6, <1>8, <2>2
  <2>4. ASSUME NEW i \in DOMAIN Answer, NEW j \in DOMAIN Answer, Answer[i] = Answer[j]
        PROVE  i = j
    <3>1. d + i = d + j
      BY <1>4, <2>2, <2>3, <2>4
    <3> QED
      BY <2>3, <3>1
  <2>5. ASSUME NEW m \in Before, ids[m] >= ids[Answer[1]] PROVE m \in ToSet(Answer)
    <3>1. PICK k \in 1..n : all[k] = m
      BY <1>4
    <3>2. Answer[1] = all[d + 1] /\ d + 1 \in 1..n /\ Answer[1] \in Before
      BY <2>2, <2>3
    <3>3. ~(ids[m] < ids[Answer[1]])
      BY <1>3, <2>5, <3>2
    <3>4. ~(k < d + 1)
      BY <1>4, <3>1, <3>2, <3>3
    <3>5. k - d \in 1..PageSize /\ k = d + (k - d)
      <4>1. n \in Nat /\ k \in Nat /\ k <= n /\ PageSize \in Nat /\ n > PageSize
        BY <1>4, <1>6, <1>8
      <4>2. k >= n - PageSize + 1
        BY <3>4, <4>1
      <4> QED
        BY <4>1, <4>2
    <3>6. Answer[k - d] = m
      BY <2>2, <3>1, <3>5
    <3> QED
      BY <2>3, <3>5, <3>6 DEF ToSet
  <2> QED
    BY <1>4, <1>6, <1>7, <1>8, <2>2, <2>3, <2>4, <2>5 DEF all
<1>9. CASE ~(n > PageSize)
  <2>1. Answer = all /\ DOMAIN all = 1..n
    BY <1>4, <1>5, <1>9
  <2>2. \A m \in Before : m \in ToSet(Answer)
    BY <1>4, <2>1 DEF ToSet
  <2>3. Answer \in Seq(Messages) /\ Len(Answer) <= PageSize
        /\ \A i \in DOMAIN Answer : Answer[i] \in Before
    BY <1>4, <1>6, <1>7, <1>9, <2>1
  <2> QED
    BY <1>4, <1>9, <2>1, <2>2, <2>3 DEF all
<1> QED
  BY <1>8, <1>9

LEMMA OneOwnFacts == ASSUME Shown PROVE \A p \in Partners : OneOwn(view[p])
  BY DEF Shown, ListOK, PairOK, OneOwn

(* A first page is one in front of an empty list. *)
LEMMA FirstFacts ==
  ASSUME NEW rows \in Seq(Messages),
         \A i, j \in DOMAIN rows : rows[i] = rows[j] => i = j
  PROVE  /\ [i \in DOMAIN rows |-> Received(rows[i])] \in Seq(Entry)
         /\ Fronted(<<>>, rows, Len(rows), [i \in DOMAIN rows |-> Received(rows[i])])
<1> DEFINE t == [i \in DOMAIN rows |-> Received(rows[i])]
<1>1. \A m \in Messages : Received(m) \in Entry /\ Received(m).msg = m /\ Received(m).known
  BY DEF Received, Entry
<1>2. Len(rows) \in Nat /\ DOMAIN rows = 1..Len(rows) /\ \A i \in DOMAIN rows : rows[i] \in Messages
  OBVIOUS
<1>3. t \in [1..Len(rows) -> Entry] /\ \A i \in 1..Len(rows) : t[i] = Received(rows[i])
  BY <1>1, <1>2
<1> HIDE DEF t
<1>4. t \in Seq(Entry) /\ Len(t) = Len(rows) /\ DOMAIN t = 1..Len(rows)
  BY <1>2, <1>3
<1>5. ASSUME NEW i \in 1..Len(rows), NEW j \in 1..Len(rows), t[i].msg = t[j].msg
      PROVE  i = j
  <2>1. rows[i] = rows[j]
    BY <1>1, <1>2, <1>3, <1>5
  <2> QED
    BY <1>2, <2>1
<1>6. ASSUME NEW m, m \in ToSet(rows) PROVE Knows(t, m)
  <2>1. PICK k \in DOMAIN rows : rows[k] = m
    BY <1>6 DEF ToSet
  <2> QED
    BY <1>1, <1>2, <1>3, <1>4, <2>1 DEF Knows
<1>7. \A m : ~Knows(<<>>, m)
  BY DEF Knows
<1>8. Len(<<>>) = 0 /\ DOMAIN <<>> = {}
  OBVIOUS
<1>9. Fronted(<<>>, rows, Len(rows), t)
  BY <1>2, <1>3, <1>4, <1>5, <1>6, <1>7, <1>8 DEF Fronted
<1> QED
  BY <1>4, <1>9 DEF t

(* What ShowPage leaves of the list before it puts the rows in front. *)
Kept == IF cursor = None THEN <<>> ELSE view[active]

PageShown(n, t) ==
  /\ t \in Seq(Entry) /\ Fronted(Kept, request.rows, n, t)
  /\ view' = [view EXCEPT ![active] = t]
  /\ hasMore' = (request.next # None /\ Len(t) < MaxPerChat)

LEMMA PageEffect ==
  ASSUME Typed, Pages, ShowPage
  PROVE  /\ active \in Partners /\ Rows(request) /\ request \in Request
         /\ request.cursor = cursor
         /\ \E n \in Nat : \E t : PageShown(n, t)
<1> DEFINE r == request
           first == [i \in DOMAIN r.rows |-> Received(r.rows[i])]
           later == Prepended(view[active], r.rows)
<1>1. /\ r \in Request /\ r.partner = active /\ r.cursor = cursor /\ active \in Partners
      /\ Rows(r)
  BY DEF Typed, Pages, ShowPage
<1>2. r.rows \in Seq(Messages) /\ \A i, j \in DOMAIN r.rows : r.rows[i] = r.rows[j] => i = j
  BY <1>1 DEF Request, Rows
<1>3. view[active] \in Seq(Entry)
  BY <1>1 DEF Typed
<1>4. CASE cursor = None
  <2>1. first \in Seq(Entry) /\ Fronted(<<>>, r.rows, Len(r.rows), first)
    BY <1>2, FirstFacts
  <2>2. /\ view' = [view EXCEPT ![active] = first]
        /\ hasMore' = (r.next # None /\ Len(first) < MaxPerChat)
    BY <1>1, <1>4 DEF ShowPage
  <2>3. Len(r.rows) \in Nat
    BY <1>2
  <2> HIDE DEF first
  <2>4. PageShown(Len(r.rows), first)
    BY <1>4, <2>1, <2>2 DEF PageShown, Kept
  <2> QED
    BY <1>1, <2>3, <2>4
<1>5. CASE cursor # None
  <2>1. later \in Seq(Entry) /\ \E n \in Nat : Fronted(view[active], r.rows, n, later)
    BY <1>2, <1>3, PrependedFacts
  <2>2. /\ view' = [view EXCEPT ![active] = later]
        /\ hasMore' = (r.next # None /\ Len(later) < MaxPerChat)
    BY <1>1, <1>5 DEF ShowPage
  <2> HIDE DEF later
  <2>3. PICK n \in Nat : PageShown(n, later)
    BY <1>5, <2>1, <2>2 DEF PageShown, Kept
  <2> QED
    BY <1>1, <2>3
<1> QED
  BY <1>4, <1>5

LEMMA EntryTypes ==
  ASSUME Typed
  PROVE  /\ \A m \in Messages : Received(m) \in Entry
         /\ \A m \in Mine : [msg |-> m, known |-> FALSE, own |-> TRUE,
                             pending |-> online, failed |-> ~online] \in Entry
  BY Shape DEF Received, Entry, Typed

LEMMA TypedSocket ==
  ASSUME Typed, Shown, Socket
  PROVE  Typed'
<1>1. CASE Connect
  BY <1>1 DEF Connect, Typed, serverVars, historyVars, Request
<1>2. CASE Disconnect
  <2>1. uplink' \in Seq(Mine)
    <3>1. PICK n \in 0..Len(uplink) : uplink' = SubSeq(uplink, 1, n)
      BY <1>2 DEF Disconnect
    <3>2. uplink \in Seq(Mine) /\ n \in Nat /\ n <= Len(uplink)
      BY <3>1 DEF Typed
    <3> QED
      BY <3>1, <3>2
  <2>2. wire' \in Seq(Frame) /\ cut' \subseteq Mine /\ cuts' \in Nat
    BY <1>2 DEF Disconnect, Typed
  <2> QED
    BY <1>2, <2>1, <2>2 DEF Disconnect, Typed, serverVars, historyVars, Request
<1>3. CASE ReceiveAck \/ ReceiveError
  <2>1. view' \in [Partners -> Seq(Entry)]
    BY <1>3, OneOwnFacts, PatchedType
  <2>2. wire' \in Seq(Frame)
    BY <1>3, FrameFacts DEF ReceiveAck, ReceiveError, Arrives
  <2> QED
    BY <1>3, <2>1, <2>2
       DEF ReceiveAck, ReceiveError, Typed, serverVars, historyVars, Request
<1>4. CASE ReceiveMessage
  <2> DEFINE m == Head(wire).msg
  <2>1. m \in Messages /\ ChatOf[m] \in Partners /\ wire' \in Seq(Frame)
    BY <1>4, FrameFacts DEF ReceiveMessage, Arrives
  <2>2. AddMessage(ChatOf[m], Received(m))
    BY <1>4 DEF ReceiveMessage
  <2>3. view' \in [Partners -> Seq(Entry)] /\ trimmed' \in BOOLEAN
    BY <2>1, <2>2, EntryTypes, AddFacts
  <2> QED
    BY <1>4, <2>1, <2>3 DEF ReceiveMessage, Typed, serverVars, historyVars, Request
<1> QED
  BY <1>1, <1>2, <1>3, <1>4 DEF Socket

LEMMA FetchType ==
  ASSUME Typed, NEW p \in Partners, NEW from \in Messages \cup {None}, Fetch(p, from)
  PROVE  request' \in Request /\ requests' \in Nat /\ ~request'.served
         /\ request'.partner = p /\ request'.cursor = from /\ request'.next = None
<1>1. <<>> \in Seq(Messages)
  OBVIOUS
<1> QED
  BY <1>1 DEF Fetch, Request, Typed

LEMMA TypedUser ==
  ASSUME Typed, User
  PROVE  Typed'
<1>1. ASSUME NEW m \in Mine, HandleSend(m) PROVE Typed'
  <2> DEFINE e == [msg |-> m, known |-> FALSE, own |-> TRUE,
                   pending |-> online, failed |-> ~online]
  <2>1. e \in Entry /\ active \in Partners /\ AddMessage(active, e)
    <3>1. e \in Entry /\ active = ChatOf[m] /\ m \in Messages
      BY <1>1, EntryTypes, Shape DEF HandleSend
    <3> QED
      BY <1>1, <3>1, Shape DEF HandleSend
  <2> HIDE DEF e
  <2>2. view' \in [Partners -> Seq(Entry)] /\ trimmed' \in BOOLEAN
    BY <2>1, AddFacts
  <2>3. Append(uplink, m) \in Seq(Mine)
    BY AppendFacts DEF Typed
  <2>4. /\ uplink' \in Seq(Mine) /\ typed' \subseteq Mine /\ refused' \subseteq Mine
    BY <1>1, <2>3 DEF HandleSend, Typed
  <2> QED
    BY <1>1, <2>2, <2>4 DEF HandleSend, Typed, serverVars, historyVars, Request
<1>2. ASSUME NEW p \in Partners, OpenChat(p) PROVE Typed'
  <2>1. request' \in Request /\ requests' \in Nat
    BY <1>2, FetchType DEF OpenChat
  <2> QED
    BY <1>2, <2>1 DEF OpenChat, Typed, serverVars, Request
<1> QED
  BY <1>1, <1>2 DEF User

LEMMA ServeEffect ==
  ASSUME Typed, Numbered, Serve
  PROVE  /\ request' \in Request /\ request'.served
         /\ request'.partner = request.partner /\ request'.cursor = request.cursor
         /\ request'.rows = Answer
         /\ request'.next = IF Len(Ranked(Before, ids)) > PageSize THEN Answer[1] ELSE None
<1> DEFINE next == IF Len(Ranked(Before, ids)) > PageSize THEN Answer[1] ELSE None
<1>1. request' = [request EXCEPT !.served = TRUE, !.rows = Answer, !.next = next]
  BY DEF Serve, Answer, Before
<1>2. request \in Request /\ Answer \in Seq(Messages) /\ next \in Messages \cup {None}
  <2>1. /\ Answer \in Seq(Messages)
        /\ Len(Ranked(Before, ids)) > PageSize => 1 \in DOMAIN Answer
    BY AnswerFacts
  <2> QED
    BY <2>1 DEF Serve, Typed
<1> HIDE DEF next
<1>3. /\ request' \in Request /\ request'.served
      /\ request'.partner = request.partner /\ request'.cursor = request.cursor
      /\ request'.rows = Answer /\ request'.next = next
  BY <1>1, <1>2 DEF Request
<1> QED
  BY <1>3 DEF next

LEMMA TypedPaging ==
  ASSUME Typed, Numbered, Pages, Paging
  PROVE  Typed'
<1>1. CASE LoadMore
  <2>1. active \in Partners
    BY <1>1 DEF LoadMore, Pages
  <2>2. request' \in Request /\ requests' \in Nat
    BY <1>1, <2>1, FetchType DEF LoadMore, Typed
  <2> QED
    BY <1>1, <2>2 DEF LoadMore, Typed, serverVars, Request
<1>2. CASE Serve
  <2>1. request' \in Request
    BY <1>2, ServeEffect
  <2>2. base' # None => base' \in [shown : BOOLEAN, rows : SUBSET Messages]
    <3>1. {m \in store : ChatOf[m] = request.partner} \in SUBSET Messages
      BY DEF Typed
    <3> QED
      BY <1>2, <3>1 DEF Serve, Typed
  <2> QED
    BY <1>2, <2>1, <2>2 DEF Serve, Typed
<1>3. CASE FetchFails
  BY <1>3 DEF FetchFails, Typed, serverVars, Request
<1>4. CASE ShowPage
  <2>1. PICK n, t : PageShown(n, t)
    BY <1>4, PageEffect
  <2>2. view' \in [Partners -> Seq(Entry)] /\ hasMore' \in BOOLEAN
    BY <2>1 DEF PageShown, Typed
  <2>3. cursor' \in Messages \cup {None} /\ trimmed' \in BOOLEAN
    BY <1>4, PageEffect DEF ShowPage, Request, Typed
  <2>4. base' # None => base' \in [shown : BOOLEAN, rows : SUBSET Messages]
    BY <1>4 DEF ShowPage, Typed
  <2> QED
    BY <1>4, <2>2, <2>3, <2>4 DEF ShowPage, Typed, serverVars
<1> QED
  BY <1>1, <1>2, <1>3, <1>4 DEF Paging

LEMMA UplinkFacts ==
  ASSUME Typed, uplink # <<>>
  PROVE  /\ Head(uplink) \in Mine /\ Head(uplink) \in Messages
         /\ Tail(uplink) \in Seq(Mine)
<1>1. Head(uplink) \in Mine /\ Tail(uplink) \in Seq(Mine)
  BY TailFacts DEF Typed
<1> QED
  BY <1>1, Shape

LEMMA IdsType ==
  ASSUME Typed, Numbered, NEW m \in Messages, ids' = [ids EXCEPT ![m] = NextId]
  PROVE  /\ ids' \in [Messages -> Nat] /\ ids'[m] = Cardinality(Ided) + 1
         /\ \A k \in Messages : k # m => ids'[k] = ids[k]
         /\ Ided' = Ided \cup {m}
<1>1. Cardinality(Ided) \in Nat
  BY FS_CardinalityType DEF Numbered
<1>2. NextId = Cardinality(Ided) + 1
  BY <1>1 DEF NextId, Ided
<1>3. NextId \in Nat /\ NextId > 0
  BY <1>1, <1>2
<1>4. /\ ids' \in [Messages -> Nat] /\ ids'[m] = NextId
      /\ \A k \in Messages : k # m => ids'[k] = ids[k]
  BY <1>3 DEF Typed
<1>5. Ided' = Ided \cup {m}
  BY <1>3, <1>4 DEF Ided
<1> QED
  BY <1>2, <1>4, <1>5

LEMMA TypedServer ==
  ASSUME Typed, Numbered, Server
  PROVE  Typed'
<1> USE DEF tabVars, historyVars, Request
<1>1. CASE Accept
  <2> DEFINE m == Head(uplink)
  <2>1. m \in Messages /\ Tail(uplink) \in Seq(Mine)
    BY <1>1, UplinkFacts DEF Accept
  <2>2. ids' \in [Messages -> Nat]
    BY <1>1, <2>1, IdsType DEF Accept
  <2>3. todo' \in Seq(Frame)
    <3>1. [type |-> "ack", msg |-> m] \in Frame /\ [type |-> "message", msg |-> m] \in Frame
      BY <2>1 DEF Frame
    <3>2. <<[type |-> "ack", msg |-> m], [type |-> "message", msg |-> m]>> \in Seq(Frame)
      BY <3>1
    <3> QED
      BY <1>1, <3>2 DEF Accept
  <2>4. saving' \subseteq Messages /\ uplink' = Tail(uplink)
    BY <1>1, <2>1 DEF Accept, Typed
  <2> QED
    BY <1>1, <2>1, <2>2, <2>3, <2>4 DEF Accept, Typed
<1>2. CASE Refuse
  <2> DEFINE m == Head(uplink)
  <2>1. m \in Mine /\ m \in Messages /\ Tail(uplink) \in Seq(Mine)
    BY <1>2, UplinkFacts DEF Refuse
  <2>2. wire' \in Seq(Frame) /\ refused' \subseteq Mine /\ ignored' \subseteq Mine
    <3>1. CASE refused' = refused \cup {m} /\ Emit("error", m) /\ UNCHANGED ignored
      BY <2>1, <3>1, EmitType DEF Typed
    <3>2. CASE ignored' = ignored \cup {m} /\ UNCHANGED <<refused, wire>>
      BY <2>1, <3>2 DEF Typed
    <3> QED
      BY <1>2, <3>1, <3>2 DEF Refuse
  <2> QED
    BY <1>2, <2>1, <2>2 DEF Refuse, Typed
<1>3. CASE Reply
  <2>1. Head(todo) \in Frame /\ Tail(todo) \in Seq(Frame)
    BY <1>3, TailFacts DEF Reply, Typed
  <2>2. wire' \in Seq(Frame)
    <3>1. Head(todo).type \in {"ack", "error", "message"} /\ Head(todo).msg \in Messages
      BY <2>1 DEF Frame
    <3> QED
      BY <1>3, <3>1, EmitType DEF Reply
  <2> QED
    BY <1>3, <2>1, <2>2 DEF Reply, Typed
<1>4. ASSUME NEW m \in Messages, Incoming(m) PROVE Typed'
  <2>1. ids' \in [Messages -> Nat]
    BY <1>4, IdsType DEF Incoming
  <2> QED
    BY <1>4, <2>1 DEF Incoming, Typed
<1>5. ASSUME NEW m \in Messages, Deliver(m) PROVE Typed'
  <2>1. wire' \in Seq(Frame)
    BY <1>5, EmitType DEF Deliver
  <2> QED
    BY <1>5, <2>1 DEF Deliver, Typed
<1>6. ASSUME NEW m \in Messages, Save(m) PROVE Typed'
  BY <1>6 DEF Save, Typed
<1>7. ASSUME NEW m \in Messages, SaveFails(m) PROVE Typed'
  <2>1. wire' \in Seq(Frame)
    BY <1>7, EmitType DEF SaveFails, Typed
  <2> QED
    BY <1>7, <2>1 DEF SaveFails, Typed
<1> QED
  BY <1>1, <1>2, <1>3, <1>4, <1>5, <1>6, <1>7 DEF Server

LEMMA TypedNext ==
  ASSUME Typed, Numbered, Shown, Pages, [Next]_vars
  PROVE  Typed'
<1>1. CASE UNCHANGED vars
  BY <1>1 DEF vars, serverVars, historyVars, Typed, Request
<1> QED
  BY <1>1, TypedSocket, TypedUser, TypedPaging, TypedServer DEF Next

-----------------------------------------------------------------------------
(***************************************************************************)
(* The ids.                                                                *)
(***************************************************************************)
LEMMA NumberedKept ==
  ASSUME Numbered, ids' = ids, store' = store, saving' = saving, unsent' = unsent,
         typed \subseteq typed'
  PROVE  Numbered'
<1>1. Ided' = Ided
  BY DEF Ided
<1> QED
  BY <1>1 DEF Numbered

(* A message gets the next id. *)
LEMMA NumberedNew ==
  ASSUME Typed, Numbered, NEW m \in Messages, m \notin Ided,
         ids' = [ids EXCEPT ![m] = NextId], m \in Mine => m \in typed,
         store' = store, saving' = saving \cup {m}, typed' = typed,
         unsent' \subseteq unsent \cup ({m} \ Mine)
  PROVE  Numbered'
<1> DEFINE n == Cardinality(Ided)
<1>1. /\ ids'[m] = n + 1 /\ Ided' = Ided \cup {m}
      /\ \A k \in Messages : k # m => ids'[k] = ids[k]
  BY IdsType
<1>2. n \in Nat /\ IsFiniteSet(Ided') /\ Cardinality(Ided') = n + 1
  BY <1>1, FS_CardinalityType, FS_AddElement DEF Numbered
<1>3. \A k \in Ided : ids[k] \in Nat /\ ids[k] <= n /\ k \in Messages /\ k # m
  BY DEF Numbered, Ided, Typed
<1> HIDE DEF n
<1>4. \A k \in Ided : ids'[k] = ids[k]
  BY <1>1, <1>3
<1>5. \A k \in Ided' : ids'[k] <= n + 1
  BY <1>1, <1>2, <1>3, <1>4
<1>6. \A k, j \in Ided' : ids'[k] = ids'[j] => k = j
  BY <1>1, <1>2, <1>3, <1>4 DEF Numbered
<1>7. /\ store' \subseteq Ided' /\ saving' \subseteq Ided' /\ unsent' \subseteq Ided'
      /\ unsent' \cap Mine = {} /\ Ided' \cap Mine \subseteq typed'
  BY <1>1 DEF Numbered
<1> QED
  BY <1>2, <1>5, <1>6, <1>7 DEF Numbered

LEMMA UplinkNew ==
  ASSUME Typed, Sent, uplink # <<>>
  PROVE  Head(uplink) \in typed /\ Head(uplink) \notin Ided
<1>1. 1 \in DOMAIN uplink /\ Head(uplink) = uplink[1]
  BY TailFacts DEF Typed
<1> QED
  BY <1>1 DEF Sent

LEMMA NumberedNext ==
  ASSUME Typed, Numbered, Sent, [Next]_vars
  PROVE  Numbered'
<1>1. CASE Socket \/ UNCHANGED vars
  BY <1>1, NumberedKept DEF Socket, Connect, Disconnect, ReceiveAck, ReceiveError,
     ReceiveMessage, serverVars, historyVars, vars
<1>2. CASE User
  BY <1>2, NumberedKept DEF User, HandleSend, OpenChat, serverVars
<1>3. CASE Paging
  BY <1>3, NumberedKept DEF Paging, LoadMore, Serve, FetchFails, ShowPage, serverVars
<1>4. CASE Server
  <2>1. CASE Accept
    <3> DEFINE m == Head(uplink)
    <3>1. m \in Messages /\ m \notin Ided /\ m \in typed
      BY <2>1, UplinkFacts, UplinkNew DEF Accept
    <3>2. /\ ids' = [ids EXCEPT ![m] = NextId] /\ saving' = saving \cup {m}
          /\ store' = store /\ unsent' = unsent /\ typed' = typed
      BY <2>1 DEF Accept, tabVars
    <3> QED
      BY <3>1, <3>2, NumberedNew
  <2>2. ASSUME NEW m \in Messages, Incoming(m) PROVE Numbered'
    <3>1. /\ ids' = [ids EXCEPT ![m] = NextId] /\ saving' = saving \cup {m}
          /\ store' = store /\ unsent' = unsent \cup {m} /\ typed' = typed
          /\ m \notin Mine /\ m \notin Ided
      BY <2>2 DEF Incoming, tabVars, Ided
    <3> QED
      BY <3>1, NumberedNew
  <2>3. ASSUME NEW m \in Messages, Deliver(m) \/ Save(m) \/ SaveFails(m) PROVE Numbered'
    <3>1. Ided' = Ided /\ typed' = typed
      BY <2>3 DEF Deliver, Save, SaveFails, tabVars, Ided
    <3>2. store' \subseteq store \cup saving /\ saving' \subseteq saving /\ unsent' \subseteq unsent
      BY <2>3 DEF Deliver, Save, SaveFails
    <3>3. ids' = ids
      BY <2>3 DEF Deliver, Save, SaveFails
    <3> QED
      BY <3>1, <3>2, <3>3 DEF Numbered
  <2>4. CASE Refuse \/ Reply
    BY <2>4, NumberedKept DEF Refuse, Reply, tabVars
  <2> QED
    BY <1>4, <2>1, <2>2, <2>3, <2>4 DEF Server
<1> QED
  BY <1>1, <1>2, <1>3, <1>4 DEF Next

-----------------------------------------------------------------------------
(***************************************************************************)
(* Frames.                                                                 *)
(***************************************************************************)
LEMMA EmitFacts ==
  ASSUME Typed, NEW type \in {"ack", "error", "message"}, NEW m \in Messages, Emit(type, m)
  PROVE  /\ \A t, k : In(wire', t, k) => In(wire, t, k) \/ (online /\ t = type /\ k = m)
         /\ \A t, k : In(wire, t, k) => In(wire', t, k)
         /\ online => In(wire', type, m)
         /\ AckFirst(wire) /\ (type = "ack" => ~In(wire, "message", m)) => AckFirst(wire')
<1> DEFINE f == [type |-> type, msg |-> m]
<1>1. f \in Frame /\ f.type = type /\ f.msg = m /\ wire \in Seq(Frame)
  BY DEF Frame, Typed
<1>2. CASE online
  <2>1. wire' = Append(wire, f)
    BY <1>2 DEF Emit
  <2>2. \A t, k : In(wire', t, k) <=> In(wire, t, k) \/ (t = type /\ k = m)
    BY <1>1, <2>1, InAppend
  <2>3. AckFirst(wire) /\ (type = "ack" => ~In(wire, "message", m)) => AckFirst(wire')
    BY <1>1, <2>1, AckFirstAppend
  <2> QED
    BY <1>2, <2>2, <2>3
<1>3. CASE ~online
  BY <1>3 DEF Emit
<1> QED
  BY <1>2, <1>3

LEMMA PairFacts ==
  ASSUME NEW m \in Messages
  PROVE  /\ \A t, k : In(<<Ack(m), Echo(m)>>, t, k) <=> k = m /\ t \in {"ack", "message"}
         /\ \A t, k : In(<<Echo(m)>>, t, k) <=> k = m /\ t = "message"
         /\ Head(<<Ack(m), Echo(m)>>) = Ack(m) /\ Tail(<<Ack(m), Echo(m)>>) = <<Echo(m)>>
         /\ Head(<<Echo(m)>>) = Echo(m) /\ Tail(<<Echo(m)>>) = <<>>
         /\ Ack(m).type = "ack" /\ Ack(m).msg = m
         /\ Echo(m).type = "message" /\ Echo(m).msg = m
<1>1. /\ Ack(m).type = "ack" /\ Ack(m).msg = m
      /\ Echo(m).type = "message" /\ Echo(m).msg = m
  BY DEF Ack, Echo
<1> HIDE DEF Ack, Echo
<1> DEFINE s == <<Ack(m), Echo(m)>>
           e == <<Echo(m)>>
<1>2. DOMAIN s = {1, 2} /\ s[1] = Ack(m) /\ s[2] = Echo(m)
  OBVIOUS
<1>3. DOMAIN e = {1} /\ e[1] = Echo(m)
  OBVIOUS
<1>4. Head(s) = Ack(m) /\ Tail(s) = e /\ Head(e) = Echo(m) /\ Tail(e) = <<>>
  OBVIOUS
<1> HIDE DEF s, e
<1>5. \A t, k : In(s, t, k) <=> k = m /\ t \in {"ack", "message"}
  BY <1>1, <1>2 DEF In
<1>6. \A t, k : In(e, t, k) <=> k = m /\ t = "message"
  BY <1>1, <1>3 DEF In
<1> QED
  BY <1>1, <1>4, <1>5, <1>6 DEF s, e

(* What the reader still has to send. *)
LEMMA TodoFacts ==
  ASSUME Typed, Sent
  PROVE  /\ \A t, k : In(todo, t, k) => /\ k \in Mine \cap Ided /\ k \in Messages
                                        /\ t \in {"ack", "message"}
         /\ \A k : In(todo, "ack", k) => ~In(wire, "message", k) /\ In(todo, "message", k)
<1>1. CASE todo = <<>>
  BY <1>1, InEmpty
<1>2. CASE \E m \in Mine \cap Ided :
             /\ todo \in {<<Ack(m), Echo(m)>>, <<Echo(m)>>}
             /\ todo = <<Ack(m), Echo(m)>> => ~In(wire, "message", m)
  <2> PICK m \in Mine \cap Ided :
             /\ todo \in {<<Ack(m), Echo(m)>>, <<Echo(m)>>}
             /\ todo = <<Ack(m), Echo(m)>> => ~In(wire, "message", m)
    BY <1>2
  <2>1. m \in Messages
    BY DEF Ided
  <2>2. CASE todo = <<Ack(m), Echo(m)>>
    <3>1. \A t, k : In(todo, t, k) <=> k = m /\ t \in {"ack", "message"}
      BY <2>1, <2>2, PairFacts, Zenon
    <3>2. ~In(wire, "message", m)
      BY <2>2
    <3> QED
      BY <2>1, <3>1, <3>2
  <2>3. CASE todo = <<Echo(m)>>
    <3>1. \A t, k : In(todo, t, k) <=> k = m /\ t = "message"
      BY <2>1, <2>3, PairFacts, Zenon
    <3> QED
      BY <2>1, <3>1
  <2> QED
    BY <2>2, <2>3
<1> QED
  BY <1>1, <1>2 DEF Sent

(* Which frame the reader sends next, and what is left. *)
LEMMA ReplyFacts ==
  ASSUME Typed, Sent, todo # <<>>
  PROVE  \E m \in Mine \cap Ided :
           /\ m \in Messages
           /\ \/ /\ Head(todo).type = "ack" /\ Head(todo).msg = m
                 /\ Tail(todo) = <<Echo(m)>> /\ ~In(wire, "message", m)
                 /\ \A t, k : In(todo, t, k) <=> k = m /\ t \in {"ack", "message"}
                 /\ \A t, k : In(Tail(todo), t, k) <=> k = m /\ t = "message"
              \/ /\ Head(todo).type = "message" /\ Head(todo).msg = m
                 /\ Tail(todo) = <<>>
                 /\ \A t, k : In(todo, t, k) <=> k = m /\ t = "message"
                 /\ \A t, k : ~In(Tail(todo), t, k)
<1> PICK m \in Mine \cap Ided :
             /\ todo \in {<<Ack(m), Echo(m)>>, <<Echo(m)>>}
             /\ todo = <<Ack(m), Echo(m)>> => ~In(wire, "message", m)
  BY DEF Sent
<1>1. m \in Messages
  BY DEF Ided
<1>2. CASE todo = <<Ack(m), Echo(m)>>
  BY <1>1, <1>2, PairFacts
<1>3. CASE todo = <<Echo(m)>>
  <2>1. \A t, k : In(todo, t, k) <=> k = m /\ t = "message"
    BY <1>1, <1>3, PairFacts, Zenon
  <2>2. Head(todo) = Echo(m) /\ Tail(todo) = <<>> /\ Echo(m).type = "message" /\ Echo(m).msg = m
    BY <1>1, <1>3, PairFacts, Zenon
  <2>3. \A t, k : ~In(Tail(todo), t, k)
    BY <2>2, InEmpty, Zenon
  <2> QED
    BY <1>1, <2>1, <2>2, <2>3, Zenon
<1> QED
  BY <1>2, <1>3

(* Nothing but the sets grows. *)
LEMMA SentKept ==
  ASSUME Typed, Numbered, Sent,
         uplink' = uplink, todo' = todo, wire' = wire, ids' = ids, typed' = typed,
         refused \subseteq refused', lost \subseteq lost'
  PROVE  Sent'
<1>1. Ided' = Ided
  BY DEF Ided
<1> QED
  BY <1>1 DEF Sent

(* The tab takes a frame. *)
LEMMA SentTaken ==
  ASSUME Typed, Numbered, Sent, wire # <<>>, wire' = Tail(wire),
         uplink' = uplink, todo' = todo, ids' = ids, typed' = typed,
         refused' = refused, lost' = lost
  PROVE  Sent'
<1>1. Ided' = Ided
  BY DEF Ided
<1>2. \A t, k : In(wire', t, k) => In(wire, t, k)
  BY InTail DEF Typed
<1>3. AckFirst(wire')
  BY AckFirstTail DEF Typed, Sent
<1> QED
  BY <1>1, <1>2, <1>3 DEF Sent

(* A frame is sent that is not an acknowledgement. *)
LEMMA SentEmit ==
  ASSUME Typed, Numbered, Sent, NEW type \in {"error", "message"}, NEW m \in Messages,
         Emit(type, m),
         type = "message" => m \in Ided \ Mine,
         type = "error" => m \in refused' \cup lost',
         uplink' = uplink, todo' = todo, ids' = ids, typed' = typed,
         refused \subseteq refused', lost \subseteq lost'
  PROVE  Sent'
<1>1. Ided' = Ided
  BY DEF Ided
<1>2. /\ \A t, k : In(wire', t, k) => In(wire, t, k) \/ (t = type /\ k = m)
      /\ AckFirst(wire')
  BY EmitFacts DEF Sent
<1>3. \A k \in Mine : In(wire', "message", k) => In(wire, "message", k)
  BY <1>2
<1>4. \A k \in Messages :
       /\ In(wire', "ack", k) => k \in Mine \cap Ided
       /\ In(wire', "message", k) => k \in Ided
       /\ In(wire', "error", k) => k \in refused' \cup lost'
  BY <1>2 DEF Sent
<1> QED
  BY <1>1, <1>2, <1>3, <1>4 DEF Sent

LEMMA UplinkTail ==
  ASSUME Typed, Sent, uplink # <<>>
  PROVE  /\ \A i \in DOMAIN Tail(uplink) :
              Tail(uplink)[i] \in typed \ Ided /\ Tail(uplink)[i] # Head(uplink)
         /\ \A i, j \in DOMAIN Tail(uplink) : Tail(uplink)[i] = Tail(uplink)[j] => i = j
         /\ ToSet(Tail(uplink)) \subseteq ToSet(uplink)
         /\ Head(uplink) \in ToSet(uplink)
         /\ \A m \in ToSet(uplink) : m = Head(uplink) \/ m \in ToSet(Tail(uplink))
<1>1. /\ Head(uplink) = uplink[1] /\ 1 \in DOMAIN uplink
      /\ \A i \in DOMAIN Tail(uplink) : /\ i \in Nat /\ i + 1 \in DOMAIN uplink
                                        /\ Tail(uplink)[i] = uplink[i + 1]
      /\ \A i \in DOMAIN uplink :
           i # 1 => i - 1 \in DOMAIN Tail(uplink) /\ uplink[i] = Tail(uplink)[i - 1]
  BY TailFacts DEF Typed
<1>2. ASSUME NEW i \in DOMAIN Tail(uplink), NEW j \in DOMAIN Tail(uplink),
             Tail(uplink)[i] = Tail(uplink)[j]
      PROVE  i = j
  <2>1. i + 1 = j + 1
    BY <1>1, <1>2 DEF Sent
  <2> QED
    BY <1>1, <2>1
<1>3. ASSUME NEW i \in DOMAIN Tail(uplink)
      PROVE  Tail(uplink)[i] \in typed \ Ided /\ Tail(uplink)[i] # Head(uplink)
  <2>1. i + 1 # 1
    BY <1>1
  <2> QED
    BY <1>1, <2>1 DEF Sent
<1>4. ToSet(Tail(uplink)) \subseteq ToSet(uplink) /\ Head(uplink) \in ToSet(uplink)
  BY <1>1 DEF ToSet
<1>5. ASSUME NEW i \in DOMAIN uplink, i # 1 PROVE uplink[i] \in ToSet(Tail(uplink))
  <2>1. i - 1 \in DOMAIN Tail(uplink) /\ uplink[i] = Tail(uplink)[i - 1]
    BY <1>1, <1>5
  <2> QED
    BY <2>1 DEF ToSet
<1>6. \A m \in ToSet(uplink) : m = Head(uplink) \/ m \in ToSet(Tail(uplink))
  BY <1>1, <1>5 DEF ToSet
<1> QED
  BY <1>2, <1>3, <1>4, <1>6

LEMMA SentNext ==
  ASSUME Typed, Numbered, Sent, [Next]_vars
  PROVE  Sent'
<1>1. CASE Connect \/ Paging \/ UNCHANGED vars \/ \E p \in Partners : OpenChat(p)
  BY <1>1, SentKept DEF Connect, Paging, LoadMore, Serve, FetchFails, ShowPage,
     OpenChat, serverVars, historyVars, vars
<1>2. CASE ReceiveAck \/ ReceiveError \/ ReceiveMessage
  BY <1>2, SentTaken DEF ReceiveAck, ReceiveError, ReceiveMessage, Arrives, serverVars
<1>3. CASE Disconnect
  <2>1. PICK n \in 0..Len(uplink) : uplink' = SubSeq(uplink, 1, n)
    BY <1>3 DEF Disconnect
  <2>2. /\ DOMAIN uplink' \subseteq DOMAIN uplink
        /\ \A i \in DOMAIN uplink' : uplink'[i] = uplink[i]
    BY <2>1 DEF Typed
  <2>3. wire' = <<>> /\ todo' = todo /\ typed' = typed /\ refused' = refused
        /\ lost' = lost /\ Ided' = Ided
    BY <1>3 DEF Disconnect, serverVars, Ided
  <2>4. AckFirst(wire') /\ \A t, m : ~In(wire', t, m)
    BY <2>3, InEmpty DEF AckFirst
  <2> QED
    BY <2>2, <2>3, <2>4 DEF Sent
<1>4. ASSUME NEW m \in Mine, HandleSend(m) PROVE Sent'
  <2>1. /\ m \notin typed /\ m \notin Ided
        /\ typed' = typed \cup {m} /\ refused \subseteq refused'
        /\ uplink' = uplink \/ uplink' = Append(uplink, m)
        /\ wire' = wire /\ todo' = todo /\ lost' = lost /\ Ided' = Ided
    BY <1>4 DEF HandleSend, serverVars, Ided, Numbered
  <2>2. \A i \in DOMAIN uplink : uplink[i] \in typed \ Ided /\ uplink[i] # m
    BY <2>1 DEF Sent
  <2>3. /\ \A i \in DOMAIN uplink' : uplink'[i] \in typed' \ Ided'
        /\ \A i, j \in DOMAIN uplink' : uplink'[i] = uplink'[j] => i = j
    <3>1. CASE uplink' = uplink
      BY <2>1, <2>2, <3>1 DEF Sent
    <3>2. CASE uplink' = Append(uplink, m)
      <4>1. /\ \A i \in 1..Len(uplink) : uplink'[i] = uplink[i]
            /\ uplink'[Len(uplink) + 1] = m
            /\ \A i \in DOMAIN uplink' : i \in 1..Len(uplink) \/ i = Len(uplink) + 1
        BY <3>2, AppendFacts DEF Typed
      <4>2. DOMAIN uplink = 1..Len(uplink)
        BY DEF Typed
      <4> QED
        BY <2>1, <2>2, <4>1, <4>2 DEF Sent
    <3> QED
      BY <2>1, <3>1, <3>2
  <2> QED
    BY <2>1, <2>3 DEF Sent
<1>5. CASE Accept
  <2> DEFINE m == Head(uplink)
  <2>1. m \in Mine /\ m \in Messages /\ m \notin Ided /\ uplink # <<>> /\ todo = <<>>
    BY <1>5, UplinkFacts, UplinkNew DEF Accept
  <2>2. Ided' = Ided \cup {m}
    BY <1>5, <2>1, IdsType DEF Accept
  <2>3. /\ todo' = <<Ack(m), Echo(m)>> /\ uplink' = Tail(uplink) /\ wire' = wire
        /\ refused' = refused /\ lost' = lost /\ typed' = typed
    BY <1>5 DEF Accept, tabVars, Ack, Echo
  <2>4. ~In(wire, "message", m)
    BY <2>1 DEF Sent
  <2>5. /\ \A i \in DOMAIN uplink' : uplink'[i] \in typed' \ Ided'
        /\ \A i, j \in DOMAIN uplink' : uplink'[i] = uplink'[j] => i = j
    BY <2>1, <2>2, <2>3, UplinkTail
  <2> QED
    BY <2>1, <2>2, <2>3, <2>4, <2>5 DEF Sent
<1>6. CASE Refuse
  <2> DEFINE m == Head(uplink)
  <2>1. m \in Mine /\ m \in Messages /\ uplink # <<>>
    BY <1>6, UplinkFacts DEF Refuse
  <2>2. /\ todo' = todo /\ uplink' = Tail(uplink) /\ lost' = lost /\ typed' = typed
        /\ Ided' = Ided
    BY <1>6 DEF Refuse, tabVars, Ided
  <2>3. /\ refused \subseteq refused' /\ AckFirst(wire')
        /\ \A t, k : In(wire', t, k) =>
             In(wire, t, k) \/ (t = "error" /\ k = m /\ k \in refused')
    <3>1. CASE refused' = refused \cup {m} /\ Emit("error", m)
      <4>1. \A t, k : In(wire', t, k) => In(wire, t, k) \/ (t = "error" /\ k = m)
        BY <2>1, <3>1, EmitFacts
      <4>2. AckFirst(wire')
        BY <2>1, <3>1, EmitFacts DEF Sent
      <4> QED
        BY <3>1, <4>1, <4>2
    <3>2. CASE UNCHANGED <<refused, wire>>
      BY <3>2 DEF Sent
    <3> QED
      BY <1>6, <3>1, <3>2 DEF Refuse
  <2>4. /\ \A i \in DOMAIN uplink' : uplink'[i] \in typed' \ Ided'
        /\ \A i, j \in DOMAIN uplink' : uplink'[i] = uplink'[j] => i = j
    BY <2>1, <2>2, UplinkTail
  <2>5. \A k : In(wire', "message", k) => In(wire, "message", k)
    BY <2>3
  <2>6. \A k \in Messages :
          /\ In(wire', "ack", k) => k \in Mine \cap Ided
          /\ In(wire', "message", k) => k \in Ided
          /\ In(wire', "error", k) => k \in refused' \cup lost'
    BY <2>2, <2>3 DEF Sent
  <2> QED
    BY <2>2, <2>3, <2>4, <2>5, <2>6 DEF Sent
<1>7. CASE Reply
  <2>1. PICK m \in Mine \cap Ided :
           /\ m \in Messages
           /\ \/ /\ Head(todo).type = "ack" /\ Head(todo).msg = m
                 /\ Tail(todo) = <<Echo(m)>> /\ ~In(wire, "message", m)
              \/ /\ Head(todo).type = "message" /\ Head(todo).msg = m
                 /\ Tail(todo) = <<>>
    BY <1>7, ReplyFacts DEF Reply
  <2>2. /\ todo' = Tail(todo) /\ uplink' = uplink /\ lost' = lost /\ refused' = refused
        /\ typed' = typed /\ Ided' = Ided
    BY <1>7 DEF Reply, tabVars, Ided
  <2>3. ASSUME NEW type \in {"ack", "message"}, Emit(type, m),
               type = "ack" => ~In(wire, "message", m)
        PROVE  /\ AckFirst(wire')
               /\ \A k \in Messages :
                    /\ In(wire', "ack", k) => k \in Mine \cap Ided
                    /\ In(wire', "message", k) => k \in Ided
                    /\ In(wire', "error", k) => k \in refused \cup lost
    <3>1. /\ \A t, k : In(wire', t, k) => In(wire, t, k) \/ (t = type /\ k = m)
          /\ AckFirst(wire')
      BY <2>1, <2>3, EmitFacts DEF Sent
    <3> QED
      BY <2>1, <2>3, <3>1 DEF Sent
  <2>4. CASE /\ Head(todo).type = "ack" /\ Head(todo).msg = m
             /\ Tail(todo) = <<Echo(m)>> /\ ~In(wire, "message", m)
    <3>1. Emit("ack", m) /\ todo' = <<Echo(m)>>
      BY <1>7, <2>2, <2>4 DEF Reply
    <3>2. todo' # <<Ack(m), Echo(m)>>
      BY <3>1
    <3> QED
      BY <2>1, <2>2, <2>3, <2>4, <3>1, <3>2 DEF Sent
  <2>5. CASE /\ Head(todo).type = "message" /\ Head(todo).msg = m
             /\ Tail(todo) = <<>>
    <3>1. Emit("message", m) /\ todo' = <<>>
      BY <1>7, <2>2, <2>5 DEF Reply
    <3> QED
      BY <2>1, <2>2, <2>3, <3>1 DEF Sent
  <2> QED
    BY <2>1, <2>4, <2>5
<1>8. ASSUME NEW m \in Messages, Incoming(m) PROVE Sent'
  <2>1. /\ todo' = todo /\ uplink' = uplink /\ lost' = lost /\ refused' = refused
        /\ typed' = typed /\ wire' = wire /\ m \notin Mine
    BY <1>8 DEF Incoming, tabVars
  <2>2. Ided' = Ided \cup {m}
    BY <1>8, IdsType DEF Incoming
  <2>3. typed \subseteq Mine
    BY DEF Typed
  <2> QED
    BY <2>1, <2>2, <2>3 DEF Sent
<1>9. ASSUME NEW m \in Messages, Deliver(m) PROVE Sent'
  <2>1. m \in Ided \ Mine
    BY <1>9 DEF Deliver, Numbered
  <2> QED
    BY <1>9, <2>1, SentEmit DEF Deliver, tabVars
<1>10. ASSUME NEW m \in Messages, Save(m) PROVE Sent'
  BY <1>10, SentKept DEF Save, tabVars
<1>11. ASSUME NEW m \in Messages, SaveFails(m) PROVE Sent'
  <2>1. /\ m \in refused' \cup lost' /\ refused \subseteq refused' /\ lost \subseteq lost'
        /\ uplink' = uplink /\ todo' = todo /\ ids' = ids /\ typed' = typed
    BY <1>11 DEF SaveFails, tabVars
  <2>2. CASE Emit("error", m)
    BY <2>1, <2>2, SentEmit
  <2>3. CASE UNCHANGED wire
    BY <2>1, <2>3, SentKept
  <2> QED
    BY <1>11, <2>2, <2>3 DEF SaveFails
<1> QED
  BY <1>1, <1>2, <1>3, <1>4, <1>5, <1>6, <1>7, <1>8, <1>9, <1>10, <1>11
     DEF Next, Socket, User, Server

-----------------------------------------------------------------------------
(***************************************************************************)
(* What a step does to the entries that it does not touch.                 *)
(***************************************************************************)
SureKept(m)    == Sure(m) => Sure(m)'
AwaitedKept(m) == Sure(m) /\ Awaited(m) => Awaited(m)'

(* The sets that an entry's state refers to only grow. *)
Grown == /\ typed \subseteq typed' /\ Ided \subseteq Ided' /\ cut \subseteq cut'
         /\ refused \cup lost \subseteq refused' \cup lost'
         /\ \A m \in Ided : Acked(m)' => Acked(m)

LEMMA EntryKept ==
  ASSUME Grown, NEW p, NEW e \in Entry, EntryOK(p, e),
         e.own /\ ~e.known /\ e.msg \notin cut' => SureKept(e.msg) /\ AwaitedKept(e.msg)
  PROVE  EntryOK(p, e)'
<1>1. /\ ChatOf[e.msg] = p
      /\ e.known => e.msg \in Ided'
      /\ e.own => e.msg \in typed'
      /\ ~e.known => e.own
      /\ e.pending => e.own /\ ~e.known
      /\ e.failed => e.msg \in refused' \cup lost'
  BY DEF Grown, EntryOK
<1>2. ASSUME e.own, ~e.known, e.msg \notin cut'
      PROVE  Sure(e.msg)' /\ (e.pending => Awaited(e.msg)')
  <2>1. e.msg \notin cut
    BY <1>2 DEF Grown
  <2>2. Sure(e.msg) /\ (e.pending => Awaited(e.msg))
    BY <1>2, <2>1 DEF EntryOK
  <2> QED
    BY <1>2, <2>2 DEF SureKept, AwaitedKept
<1>3. e.own /\ ~e.known /\ e.msg \notin cut' => Sure(e.msg)'
  BY <1>2
<1>4. e.pending /\ e.msg \notin cut' => Awaited(e.msg)'
  BY <1>1, <1>2
<1> QED
  BY <1>1, <1>3, <1>4 DEF EntryOK

LEMMA PairKept ==
  ASSUME Grown, NEW e, NEW f, PairOK(e, f)
  PROVE  PairOK(e, f)'
<1>1. \A m : Abandoned(m) => Abandoned(m)'
  BY DEF Grown, Abandoned
<1> QED
  BY <1>1 DEF PairOK

LEMMA PairSymmetric ==
  ASSUME NEW e \in Entry, NEW f \in Entry, PairOK(e, f)'
  PROVE  PairOK(f, e)'
  BY DEF PairOK, Entry

LEMMA ListKept ==
  ASSUME Grown, NEW p, NEW s \in Seq(Entry), ListOK(p, s),
         \A i \in DOMAIN s : s[i].own /\ ~s[i].known /\ s[i].msg \notin cut' =>
           SureKept(s[i].msg) /\ AwaitedKept(s[i].msg)
  PROVE  ListOK(p, s)'
<1>1. ASSUME NEW i \in DOMAIN s PROVE EntryOK(p, s[i])'
  <2>1. s[i] \in Entry /\ EntryOK(p, s[i])
    BY DEF ListOK
  <2> QED
    BY <2>1, EntryKept
<1>2. ASSUME NEW i \in DOMAIN s, NEW j \in DOMAIN s, i # j PROVE PairOK(s[i], s[j])'
  BY <1>2, PairKept DEF ListOK
<1> QED
  BY <1>1, <1>2 DEF ListOK

(* The lists of all chats after a step that leaves them as they are. *)
LEMMA ShownKept ==
  ASSUME Typed, Shown, Grown, view' = view,
         \A m \in typed : m \notin cut' => SureKept(m) /\ AwaitedKept(m)
  PROVE  Shown'
<1>1. ASSUME NEW p \in Partners, NEW s, s = view[p] PROVE ListOK(p, s)'
  <2>1. s \in Seq(Entry) /\ ListOK(p, s)
    BY <1>1 DEF Typed, Shown
  <2>2. \A i \in DOMAIN s : s[i].own => s[i].msg \in typed
    BY <2>1 DEF ListOK, EntryOK
  <2> QED
    BY <2>1, <2>2, ListKept
<1> QED
  BY <1>1 DEF Shown

(* Nothing of what the entries depend on changes. *)
LEMMA SameAnswers ==
  ASSUME uplink' = uplink, todo' = todo, wire' = wire, ids' = ids, online' \in {online, TRUE},
         ignored' = ignored, typed \subseteq typed', cut' = cut,
         refused \subseteq refused', lost \subseteq lost'
  PROVE  Grown /\ \A m : SureKept(m) /\ AwaitedKept(m)
<1>1. Ided' = Ided
  BY DEF Ided
<1>2. \A m : (Acked(m)' <=> Acked(m)) /\ (Awaited(m)' <=> Awaited(m))
  BY DEF Acked, Awaited
<1>3. \A m : Sure(m) => Sure(m)'
  BY <1>1, <1>2 DEF Sure
<1> QED
  BY <1>1, <1>2, <1>3 DEF Grown, SureKept, AwaitedKept

(* The tab takes a frame: only the answer it was is no longer awaited. *)
LEMMA TakenAnswers ==
  ASSUME Typed, wire # <<>>, wire' = Tail(wire),
         uplink' = uplink, todo' = todo, ids' = ids, online' = online,
         ignored' = ignored, typed' = typed, cut' = cut, refused' = refused, lost' = lost
  PROVE  /\ Grown
         /\ \A m : /\ Head(wire).type # "ack" \/ m # Head(wire).msg => SureKept(m)
                   /\ Head(wire).type = "message" \/ m # Head(wire).msg => AwaitedKept(m)
<1>1. Ided' = Ided
  BY DEF Ided
<1>2. \A t, k : In(wire, t, k) <=>
        In(wire', t, k) \/ (Head(wire).type = t /\ Head(wire).msg = k)
  BY InTail DEF Typed
<1>3. \A m : /\ Acked(m)' => Acked(m)
             /\ Head(wire).type # "ack" \/ m # Head(wire).msg => (Acked(m) => Acked(m)')
  BY <1>2 DEF Acked
<1>4. \A m : Head(wire).type # "ack" \/ m # Head(wire).msg => SureKept(m)
  BY <1>1, <1>2, <1>3 DEF Sure, SureKept
<1>5. \A m : Head(wire).type = "message" \/ m # Head(wire).msg => AwaitedKept(m)
  BY <1>1, <1>2, <1>3 DEF Awaited, AwaitedKept
<1> QED
  BY <1>1, <1>3, <1>4, <1>5 DEF Grown

LEMMA AcceptAnswers ==
  ASSUME Typed, Numbered, Sent, Accept
  PROVE  Grown /\ \A m \in typed : SureKept(m) /\ AwaitedKept(m)
<1> DEFINE h == Head(uplink)
<1>1. h \in Mine /\ h \in Messages /\ h \notin Ided /\ uplink # <<>> /\ todo = <<>>
  BY UplinkFacts, UplinkNew DEF Accept
<1>2. Ided' = Ided \cup {h}
  BY <1>1, IdsType DEF Accept
<1>3. /\ todo' = <<Ack(h), Echo(h)>> /\ ToSet(uplink') = ToSet(Tail(uplink)) /\ wire' = wire
      /\ refused' = refused /\ lost' = lost /\ typed' = typed /\ cut' = cut
      /\ ignored' = ignored /\ online' = online
  BY DEF Accept, tabVars, Ack, Echo
<1>4. /\ \A t, k : In(todo', t, k) <=> k = h /\ t \in {"ack", "message"}
      /\ \A t, k : ~In(todo, t, k)
  BY <1>1, <1>3, PairFacts, InEmpty
<1>5. /\ h \in ToSet(uplink) /\ ToSet(uplink') \subseteq ToSet(uplink)
      /\ \A m \in ToSet(uplink) : m = h \/ m \in ToSet(uplink')
  BY <1>1, <1>3, UplinkTail
<1>6. \A m : Acked(m)' <=> Acked(m) \/ m = h
  BY <1>3, <1>4 DEF Acked
<1>7. Grown
  BY <1>1, <1>2, <1>3, <1>6 DEF Grown
<1>8. ASSUME NEW m \in typed PROVE SureKept(m)
  <2>1. m \in ToSet(uplink') \cup Ided' => m \in ToSet(uplink) \cup Ided
    BY <1>2, <1>5
  <2> QED
    BY <1>3, <1>4, <1>6, <2>1 DEF SureKept, Sure
<1>9. ASSUME NEW m \in typed PROVE AwaitedKept(m)
  BY <1>3, <1>5, <1>6 DEF AwaitedKept, Awaited
<1> QED
  BY <1>7, <1>8, <1>9

LEMMA RefuseAnswers ==
  ASSUME Typed, Numbered, Sent, Refuse
  PROVE  Grown /\ \A m \in typed : SureKept(m) /\ AwaitedKept(m)
<1> DEFINE h == Head(uplink)
<1>1. h \in Messages /\ uplink # <<>>
  BY UplinkFacts DEF Refuse
<1>2. /\ todo' = todo /\ ToSet(uplink') = ToSet(Tail(uplink)) /\ Ided' = Ided
      /\ lost' = lost /\ typed' = typed /\ cut' = cut /\ online' = online
  BY DEF Refuse, tabVars, Ided
<1>3. /\ h \in ToSet(uplink) /\ ToSet(uplink') \subseteq ToSet(uplink)
      /\ \A m \in ToSet(uplink) : m = h \/ m \in ToSet(uplink')
  BY <1>1, <1>2, UplinkTail
<1>4. /\ \A t, k : In(wire', t, k) => In(wire, t, k) \/ t = "error"
      /\ \A t, k : In(wire, t, k) => In(wire', t, k)
      /\ online => In(wire', "error", h) \/ h \in ignored'
      /\ ignored \subseteq ignored' /\ refused \subseteq refused'
  <2>1. CASE refused' = refused \cup {h} /\ Emit("error", h) /\ UNCHANGED ignored
    BY <1>1, <2>1, EmitFacts
  <2>2. CASE ignored' = ignored \cup {h} /\ UNCHANGED <<refused, wire>>
    BY <2>2
  <2> QED
    BY <2>1, <2>2 DEF Refuse
<1>5. \A m : Acked(m)' <=> Acked(m)
  BY <1>2, <1>4 DEF Acked
<1>6. Grown
  BY <1>2, <1>4, <1>5 DEF Grown
<1>7. ASSUME NEW m \in typed PROVE SureKept(m)
  BY <1>2, <1>3, <1>4, <1>5 DEF SureKept, Sure
<1>8. ASSUME NEW m \in typed PROVE AwaitedKept(m)
  <2> SUFFICES ASSUME Sure(m), Awaited(m) PROVE Awaited(m)'
    BY DEF AwaitedKept
  <2>1. CASE m \in ToSet(uplink)
    <3>1. online
      BY <2>1 DEF Sure
    <3> QED
      BY <1>3, <1>4, <2>1, <3>1 DEF Awaited
  <2>2. CASE m \notin ToSet(uplink)
    BY <1>4, <1>5, <2>2 DEF Awaited
  <2> QED
    BY <2>1, <2>2
<1> QED
  BY <1>6, <1>7, <1>8

LEMMA ReplyAnswers ==
  ASSUME Typed, Numbered, Sent, Reply
  PROVE  Grown /\ \A m \in typed : SureKept(m) /\ AwaitedKept(m)
<1>1. PICK h \in Mine \cap Ided :
        /\ h \in Messages
        /\ \/ /\ Head(todo).type = "ack" /\ Head(todo).msg = h
              /\ \A t, k : In(todo, t, k) <=> k = h /\ t \in {"ack", "message"}
              /\ \A t, k : In(Tail(todo), t, k) <=> k = h /\ t = "message"
           \/ /\ Head(todo).type = "message" /\ Head(todo).msg = h
              /\ \A t, k : In(todo, t, k) <=> k = h /\ t = "message"
              /\ \A t, k : ~In(Tail(todo), t, k)
  BY ReplyFacts DEF Reply
<1>2. /\ Emit(Head(todo).type, Head(todo).msg) /\ todo' = Tail(todo)
      /\ uplink' = uplink /\ Ided' = Ided
      /\ lost' = lost /\ refused' = refused /\ ignored' = ignored
      /\ typed' = typed /\ cut' = cut /\ online' = online
  BY DEF Reply, tabVars, Ided
<1> DEFINE type == Head(todo).type
<1>3. /\ type \in {"ack", "message"} /\ Emit(type, h)
      /\ In(todo, type, h)
      /\ \A t, k : In(todo, t, k) <=> In(todo', t, k) \/ (t = type /\ k = h)
  BY <1>1, <1>2
<1> HIDE DEF type
<1>4. /\ \A t, k : In(wire', t, k) => In(wire, t, k) \/ (t = type /\ k = h)
      /\ \A t, k : In(wire, t, k) => In(wire', t, k)
      /\ online => In(wire', type, h)
  BY <1>1, <1>3, EmitFacts
<1>5. \A m : Acked(m)' => Acked(m)
  BY <1>3, <1>4 DEF Acked
<1>6. Grown
  BY <1>2, <1>5 DEF Grown
<1>7. ASSUME NEW m \in typed, Sure(m), Acked(m) PROVE Acked(m)'
  <2>1. m = h => online
    BY <1>7 DEF Sure
  <2>2. In(todo, "ack", m) => In(todo', "ack", m) \/ In(wire', "ack", m)
    BY <1>3, <1>4, <2>1
  <2> QED
    BY <1>4, <1>7, <2>2 DEF Acked
<1>8. ASSUME NEW m \in typed PROVE SureKept(m)
  <2>1. In(wire', "message", m) \/ In(todo', "message", m) =>
          In(wire, "message", m) \/ In(todo, "message", m)
    BY <1>3, <1>4
  <2> QED
    BY <1>2, <1>7, <2>1 DEF SureKept, Sure
<1>9. ASSUME NEW m \in typed PROVE AwaitedKept(m)
  BY <1>2, <1>4, <1>7 DEF AwaitedKept, Awaited
<1> QED
  BY <1>6, <1>8, <1>9

(* The server's other steps: other people's messages, saves, errors. *)
LEMMA OtherAnswers ==
  ASSUME Typed, Numbered, Sent, NEW m \in Messages,
         Incoming(m) \/ Deliver(m) \/ Save(m) \/ SaveFails(m)
  PROVE  Grown /\ \A k \in typed : SureKept(k) /\ AwaitedKept(k)
<1>1. /\ uplink' = uplink /\ todo' = todo /\ online' = online /\ ignored' = ignored
      /\ typed' = typed /\ cut' = cut /\ refused' = refused /\ lost \subseteq lost'
  BY DEF Incoming, Deliver, Save, SaveFails, tabVars
<1>2. Ided \subseteq Ided' /\ Ided' \cap Mine \subseteq Ided
  <2>1. CASE Incoming(m)
    BY <2>1, IdsType DEF Incoming
  <2>2. CASE Deliver(m) \/ Save(m) \/ SaveFails(m)
    BY <2>2 DEF Deliver, Save, SaveFails, Ided
  <2> QED
    BY <2>1, <2>2
<1>3. /\ \A t, k : In(wire', t, k) => \/ In(wire, t, k) \/ t = "error"
                                      \/ t = "message" /\ k \notin Mine
      /\ \A t, k : In(wire, t, k) => In(wire', t, k)
  <2>1. CASE Deliver(m)
    <3>1. m \notin Mine /\ Emit("message", m)
      BY <2>1 DEF Deliver, Numbered
    <3> QED
      BY <3>1, EmitFacts
  <2>2. CASE Emit("error", m)
    BY <2>2, EmitFacts
  <2>3. CASE wire' = wire
    BY <2>3
  <2> QED
    BY <2>1, <2>2, <2>3 DEF Incoming, Save, SaveFails
<1>4. \A k : Acked(k)' <=> Acked(k)
  BY <1>1, <1>3 DEF Acked
<1>5. Grown
  BY <1>1, <1>2, <1>4 DEF Grown
<1>6. typed \subseteq Mine
  BY DEF Typed
<1>7. ASSUME NEW k \in typed PROVE SureKept(k)
  BY <1>1, <1>2, <1>3, <1>4, <1>6 DEF SureKept, Sure
<1>8. ASSUME NEW k \in typed PROVE AwaitedKept(k)
  BY <1>1, <1>3, <1>4 DEF AwaitedKept, Awaited
<1> QED
  BY <1>5, <1>7, <1>8

-----------------------------------------------------------------------------
(***************************************************************************)
(* What a step does to the list that it changes.                           *)
(***************************************************************************)
LEMMA AddedList ==
  ASSUME NEW p, NEW s \in Seq(Entry), NEW e \in Entry, NEW t \in Seq(Entry), Added(s, e, t),
         ListOK(p, s)', EntryOK(p, e)', \A i \in DOMAIN s : PairOK(s[i], e)'
  PROVE  ListOK(p, t)'
<1>1. PICK d \in Nat :
        /\ d <= Len(s) + 1 /\ Len(t) = Len(s) + 1 - d
        /\ \A i \in DOMAIN t : \/ i + d \in DOMAIN s /\ t[i] = s[i + d]
                               \/ i + d = Len(s) + 1 /\ t[i] = e
  BY DEF Added
<1>2. ASSUME NEW i \in DOMAIN t PROVE EntryOK(p, t[i])'
  BY <1>1 DEF ListOK
<1>3. ASSUME NEW i \in DOMAIN t, NEW j \in DOMAIN t, i # j PROVE PairOK(t[i], t[j])'
  <2>1. /\ i \in Nat /\ j \in Nat /\ i + d # j + d
        /\ i + d \in DOMAIN s => s[i + d] \in Entry /\ PairOK(s[i + d], e)' /\ PairOK(e, s[i + d])'
        /\ j + d \in DOMAIN s => PairOK(s[j + d], e)' /\ PairOK(e, s[j + d])'
    <3>1. i \in Nat /\ j \in Nat
      OBVIOUS
    <3>2. \A k \in DOMAIN s : s[k] \in Entry /\ PairOK(s[k], e)' /\ PairOK(e, s[k])'
      BY PairSymmetric
    <3> QED
      BY <1>1, <1>3, <3>1, <3>2
  <2>2. \/ i + d \in DOMAIN s /\ t[i] = s[i + d]
        \/ i + d = Len(s) + 1 /\ t[i] = e
    BY <1>1
  <2>3. \/ j + d \in DOMAIN s /\ t[j] = s[j + d]
        \/ j + d = Len(s) + 1 /\ t[j] = e
    BY <1>1
  <2>4. CASE i + d \in DOMAIN s /\ t[i] = s[i + d] /\ j + d \in DOMAIN s /\ t[j] = s[j + d]
    BY <2>1, <2>4 DEF ListOK
  <2>5. CASE t[i] = e /\ j + d \in DOMAIN s /\ t[j] = s[j + d]
    BY <2>1, <2>5
  <2>6. CASE i + d \in DOMAIN s /\ t[i] = s[i + d] /\ t[j] = e
    BY <2>1, <2>6
  <2> QED
    BY <2>1, <2>2, <2>3, <2>4, <2>5, <2>6
<1> QED
  BY <1>2, <1>3 DEF ListOK

LEMMA FrontedList ==
  ASSUME NEW p, NEW s \in Seq(Entry), NEW rows \in Seq(Messages), NEW n \in Nat,
         NEW t \in Seq(Entry), Fronted(s, rows, n, t), ListOK(p, s)',
         \A k \in DOMAIN rows : EntryOK(p, Received(rows[k]))',
         \A k \in DOMAIN rows : ~Knows(s, rows[k]) =>
           \A i \in DOMAIN s : s[i].msg # rows[k]
  PROVE  ListOK(p, t)'
<1>1. \A m : Received(m).msg = m
  BY DEF Received
<1>2. \A i \in 1..n : \E k \in DOMAIN rows : ~Knows(s, rows[k]) /\ t[i] = Received(rows[k])
  BY DEF Fronted
<1>3. \A i \in DOMAIN t : i \in 1..n \/ \E k \in DOMAIN s : i = n + k /\ t[i] = s[k]
  BY DEF Fronted
<1>4. \A i, j \in 1..n : t[i].msg = t[j].msg => i = j
  BY DEF Fronted
<1>5. ASSUME NEW i \in DOMAIN t PROVE EntryOK(p, t[i])'
  <2>1. CASE i \in 1..n
    BY <1>2, <2>1
  <2>2. CASE \E k \in DOMAIN s : i = n + k /\ t[i] = s[k]
    BY <2>2 DEF ListOK
  <2> QED
    BY <1>3, <2>1, <2>2
<1>6. ASSUME NEW i \in 1..n, NEW k \in DOMAIN s PROVE t[i].msg # s[k].msg
  BY <1>1, <1>2
<1>7. ASSUME NEW i \in DOMAIN t, NEW j \in DOMAIN t, i # j PROVE PairOK(t[i], t[j])'
  <2>1. CASE i \in 1..n /\ j \in 1..n
    BY <1>4, <1>7, <2>1 DEF PairOK
  <2>2. CASE i \in 1..n /\ \E k \in DOMAIN s : j = n + k /\ t[j] = s[k]
    BY <1>6, <2>2 DEF PairOK
  <2>3. CASE j \in 1..n /\ \E k \in DOMAIN s : i = n + k /\ t[i] = s[k]
    BY <1>6, <2>3 DEF PairOK
  <2>4. CASE /\ \E k \in DOMAIN s : i = n + k /\ t[i] = s[k]
             /\ \E k \in DOMAIN s : j = n + k /\ t[j] = s[k]
    BY <1>7, <2>4 DEF ListOK
  <2> QED
    BY <1>3, <2>1, <2>2, <2>3, <2>4
<1> QED
  BY <1>5, <1>7 DEF ListOK

LEMMA PatchedList ==
  ASSUME NEW p, NEW s \in Seq(Entry), NEW i \in DOMAIN s, NEW f \in Entry,
         NEW t \in Seq(Entry), DOMAIN t = DOMAIN s, t[i] = f,
         \A j \in DOMAIN s : j # i => t[j] = s[j],
         \A j \in DOMAIN s : j # i => EntryOK(p, s[j])',
         \A j, k \in DOMAIN s : j # k /\ j # i /\ k # i => PairOK(s[j], s[k])',
         EntryOK(p, f)', \A j \in DOMAIN s : j # i => PairOK(s[j], f)'
  PROVE  ListOK(p, t)'
<1>1. \A j \in DOMAIN t : EntryOK(p, t[j])'
  OBVIOUS
<1>2. ASSUME NEW j \in DOMAIN t, NEW k \in DOMAIN t, j # k PROVE PairOK(t[j], t[k])'
  <2>1. \A l \in DOMAIN s : l # i => s[l] \in Entry /\ PairOK(s[l], f)' /\ PairOK(f, s[l])'
    BY PairSymmetric
  <2>2. CASE j = i
    BY <1>2, <2>1, <2>2
  <2>3. CASE k = i
    BY <1>2, <2>1, <2>3
  <2>4. CASE j # i /\ k # i
    BY <1>2, <2>4
  <2> QED
    BY <2>2, <2>3, <2>4
<1> QED
  BY <1>1, <1>2 DEF ListOK

LEMMA ShownAck ==
  ASSUME Typed, Numbered, Sent, Shown, ReceiveAck
  PROVE  Shown'
<1> PICK h : h = Head(wire).msg
  OBVIOUS
<1>1. /\ h \in Messages /\ ChatOf[h] \in Partners /\ wire # <<>> /\ Head(wire).type = "ack"
  BY FrameFacts DEF ReceiveAck, Arrives
<1>2. Grown /\ \A m : m # h => SureKept(m) /\ AwaitedKept(m)
  BY <1>1, TakenAnswers DEF ReceiveAck, serverVars
<1>3. h \in Mine \cap Ided /\ Acked(h)
  <2>1. In(wire, "ack", h)
    BY <1>1, InTail DEF Typed
  <2> QED
    BY <1>1, <2>1 DEF Sent, Acked
<1>4. ASSUME NEW p \in Partners, NEW s, s = view[p],
             \A i \in DOMAIN s : s[i].own /\ ~s[i].known => s[i].msg # h
      PROVE  ListOK(p, s)'
  <2>1. s \in Seq(Entry) /\ ListOK(p, s)
    BY <1>4 DEF Typed, Shown
  <2> QED
    BY <1>2, <1>4, <2>1, ListKept
<1>5. CASE Matching(view[ChatOf[h]], h) = {} /\ view' = view
  <2>1. ASSUME NEW p \in Partners, NEW s, s = view[p] PROVE ListOK(p, s)'
    <3>1. \A i \in DOMAIN s : s[i].own /\ ~s[i].known => s[i].msg # h
      BY <1>5, <2>1 DEF Shown, ListOK, EntryOK, Matching
    <3> QED
      BY <1>4, <2>1, <3>1
  <2> QED
    BY <1>5, <2>1 DEF Shown
<1>6. ASSUME NEW i, NEW f, Patch(h, i, f), f.known, ~f.failed PROVE Shown'
  <2> PICK p, s, t : p = ChatOf[h] /\ s = view[p] /\ t = view'[p]
    OBVIOUS
  <2>1. /\ p \in Partners /\ s \in Seq(Entry) /\ ListOK(p, s)
        /\ i \in DOMAIN s /\ s[i].own /\ s[i].msg = h
        /\ f \in Entry /\ f.msg = h /\ f.own /\ ~f.pending
    BY <1>1, <1>6 DEF Typed, Shown, Patch
  <2>2. /\ t \in Seq(Entry) /\ DOMAIN t = DOMAIN s /\ t[i] = f
        /\ \A j \in DOMAIN s : j # i => t[j] = s[j]
        /\ \A q \in Partners : q # p => view'[q] = view[q]
    BY <1>1, <1>6, PatchFacts
  <2>3. ASSUME NEW j \in DOMAIN s, j # i PROVE s[j].msg # h
    <3>1. s[j].msg = h => Abandoned(h)
      BY <2>1, <2>3 DEF ListOK, PairOK
    <3> QED
      BY <1>3, <3>1 DEF Abandoned
  <2>4. ASSUME NEW j \in DOMAIN s, j # i PROVE EntryOK(p, s[j])'
    <3>1. s[j] \in Entry /\ EntryOK(p, s[j])
      BY <2>1 DEF ListOK
    <3> QED
      BY <1>2, <2>3, <2>4, <3>1, EntryKept
  <2>5. \A j, k \in DOMAIN s : j # k => PairOK(s[j], s[k])'
    BY <1>2, <2>1, PairKept DEF ListOK
  <2>6. EntryOK(p, f)'
    <3>1. h \in Ided' /\ h \in typed'
      BY <1>2, <1>3 DEF Grown, Numbered
    <3> QED
      BY <1>6, <2>1, <3>1 DEF EntryOK
  <2>7. \A j \in DOMAIN s : j # i => PairOK(s[j], f)'
    BY <2>1, <2>3 DEF PairOK
  <2>8. ListOK(p, t)'
    <3>1. s \in Seq(Entry) /\ i \in DOMAIN s /\ f \in Entry
      BY <2>1
    <3>2. /\ t \in Seq(Entry) /\ DOMAIN t = DOMAIN s /\ t[i] = f
          /\ \A j \in DOMAIN s : j # i => t[j] = s[j]
      BY <2>2
    <3>3. \A j \in DOMAIN s : j # i => EntryOK(p, s[j])'
      BY <2>4
    <3>4. \A j, k \in DOMAIN s : j # k /\ j # i /\ k # i => PairOK(s[j], s[k])'
      BY <2>5
    <3> QED
      BY <2>6, <2>7, <3>1, <3>2, <3>3, <3>4, PatchedList
  <2>9. ASSUME NEW q \in Partners, q # p, NEW u, u = view[q] PROVE ListOK(q, u)'
    <3>1. \A j \in DOMAIN u : u[j].own /\ ~u[j].known => u[j].msg # h
      BY <2>9 DEF Shown, ListOK, EntryOK
    <3> QED
      BY <1>4, <2>9, <3>1
  <2> QED
    BY <2>2, <2>8, <2>9 DEF Shown
<1> QED
  BY <1>5, <1>6, OneOwnFacts, AckEffect

LEMMA ShownError ==
  ASSUME Typed, Numbered, Sent, Shown, ReceiveError
  PROVE  Shown'
<1> PICK h : h = Head(wire).msg
  OBVIOUS
<1>1. /\ h \in Messages /\ ChatOf[h] \in Partners /\ wire # <<>> /\ Head(wire).type = "error"
  BY FrameFacts DEF ReceiveError, Arrives
<1>2. /\ Grown /\ \A m : SureKept(m) /\ (m # h => AwaitedKept(m))
      /\ refused' = refused /\ lost' = lost
  BY <1>1, TakenAnswers DEF ReceiveError, serverVars
<1>3. h \in refused \cup lost
  <2>1. In(wire, "error", h)
    BY <1>1, InTail DEF Typed
  <2> QED
    BY <1>1, <2>1 DEF Sent
<1>4. ASSUME NEW p \in Partners, NEW s, s = view[p],
             \A i \in DOMAIN s : s[i].own /\ ~s[i].known => s[i].msg # h
      PROVE  ListOK(p, s)'
  <2>1. s \in Seq(Entry) /\ ListOK(p, s)
    BY <1>4 DEF Typed, Shown
  <2> QED
    BY <1>2, <1>4, <2>1, ListKept
<1>5. CASE Matching(view[ChatOf[h]], h) = {} /\ view' = view
  <2>1. ASSUME NEW p \in Partners, NEW s, s = view[p] PROVE ListOK(p, s)'
    <3>1. \A i \in DOMAIN s : s[i].own /\ ~s[i].known => s[i].msg # h
      BY <1>5, <2>1 DEF Shown, ListOK, EntryOK, Matching
    <3> QED
      BY <1>4, <2>1, <3>1
  <2> QED
    BY <1>5, <2>1 DEF Shown
<1>6. ASSUME NEW i, NEW f, Patch(h, i, f), f.failed, f.known = view[ChatOf[h]][i].known
      PROVE  Shown'
  <2> PICK p, s, t : p = ChatOf[h] /\ s = view[p] /\ t = view'[p]
    OBVIOUS
  <2>1. /\ p \in Partners /\ s \in Seq(Entry) /\ ListOK(p, s) /\ OneOwn(s)
        /\ i \in DOMAIN s /\ s[i].own /\ s[i].msg = h /\ s[i].known = f.known
        /\ f \in Entry /\ f.msg = h /\ f.own /\ ~f.pending
    BY <1>1, <1>6, OneOwnFacts DEF Typed, Shown, Patch
  <2>2. /\ t \in Seq(Entry) /\ DOMAIN t = DOMAIN s /\ t[i] = f
        /\ \A j \in DOMAIN s : j # i => t[j] = s[j]
        /\ \A q \in Partners : q # p => view'[q] = view[q]
    BY <1>1, <1>6, PatchFacts
  <2>3. ASSUME NEW j \in DOMAIN s, j # i PROVE s[j].own => s[j].msg # h
    BY <2>1, <2>3 DEF OneOwn
  <2>4. ASSUME NEW j \in DOMAIN s, j # i PROVE EntryOK(p, s[j])'
    <3>1. s[j] \in Entry /\ EntryOK(p, s[j])
      BY <2>1 DEF ListOK
    <3> QED
      BY <1>2, <2>3, <2>4, <3>1, EntryKept
  <2>5. \A j, k \in DOMAIN s : j # k => PairOK(s[j], s[k])'
    BY <1>2, <2>1, PairKept DEF ListOK
  <2>6. EntryOK(p, f)'
    <3>1. EntryOK(p, s[i]) /\ s[i] \in Entry
      BY <2>1 DEF ListOK
    <3>2. /\ ChatOf[h] = p /\ h \in typed' /\ h \in refused' \cup lost'
          /\ f.known => h \in Ided'
      BY <1>2, <1>3, <2>1, <3>1 DEF EntryOK, Grown
    <3>3. ~f.known /\ h \notin cut' => Sure(h)'
      BY <1>2, <2>1, <3>1 DEF EntryOK, Grown, SureKept
    <3> QED
      BY <2>1, <3>2, <3>3 DEF EntryOK
  <2>7. \A j \in DOMAIN s : j # i => PairOK(s[j], f)'
    <3>1. s[i].own = f.own /\ s[i].msg = f.msg
      BY <2>1 DEF Entry
    <3>2. ASSUME NEW j \in DOMAIN s, j # i, s[j].msg = f.msg
          PROVE  s[j].known # f.known /\ s[j].own # f.own /\ Abandoned(s[j].msg)'
      <4>1. PairOK(s[j], s[i])'
        BY <2>1, <2>5, <3>2
      <4> QED
        BY <2>1, <3>1, <3>2, <4>1 DEF PairOK
    <3> QED
      BY <3>2 DEF PairOK
  <2>8. ListOK(p, t)'
    <3>1. s \in Seq(Entry) /\ i \in DOMAIN s /\ f \in Entry
      BY <2>1
    <3>2. /\ t \in Seq(Entry) /\ DOMAIN t = DOMAIN s /\ t[i] = f
          /\ \A j \in DOMAIN s : j # i => t[j] = s[j]
      BY <2>2
    <3>3. \A j \in DOMAIN s : j # i => EntryOK(p, s[j])'
      BY <2>4
    <3>4. \A j, k \in DOMAIN s : j # k /\ j # i /\ k # i => PairOK(s[j], s[k])'
      BY <2>5
    <3> QED
      BY <2>6, <2>7, <3>1, <3>2, <3>3, <3>4, PatchedList
  <2>9. ASSUME NEW q \in Partners, q # p, NEW u, u = view[q] PROVE ListOK(q, u)'
    <3>1. \A j \in DOMAIN u : u[j].own /\ ~u[j].known => u[j].msg # h
      BY <2>9 DEF Shown, ListOK, EntryOK
    <3> QED
      BY <1>4, <2>9, <3>1
  <2> QED
    BY <2>2, <2>8, <2>9 DEF Shown
<1> QED
  BY <1>5, <1>6, OneOwnFacts, ErrorEffect

LEMMA ShownMessage ==
  ASSUME Typed, Numbered, Sent, Shown, ReceiveMessage
  PROVE  Shown'
<1> PICK h : h = Head(wire).msg
  OBVIOUS
<1>1. /\ h \in Messages /\ ChatOf[h] \in Partners /\ wire # <<>> /\ Head(wire).type = "message"
      /\ AddMessage(ChatOf[h], Received(h)) /\ cut' = cut
  BY FrameFacts DEF ReceiveMessage, Arrives
<1>2. Grown /\ \A m : SureKept(m) /\ AwaitedKept(m)
  BY <1>1, TakenAnswers DEF ReceiveMessage, serverVars
<1>3. h \in Ided /\ ~Acked(h)
  <2>1. In(wire, "message", h)
    BY <1>1, InTail DEF Typed
  <2>2. ~In(wire, "ack", h)
    BY <1>1, AckFirstTail DEF Typed, Sent
  <2>3. ~In(todo, "ack", h)
    BY <2>1, TodoFacts
  <2> QED
    BY <1>1, <2>1, <2>2, <2>3 DEF Sent, Acked
<1>4. ASSUME NEW p \in Partners, NEW s, s = view[p] PROVE s \in Seq(Entry) /\ ListOK(p, s)'
  <2>1. s \in Seq(Entry) /\ ListOK(p, s)
    BY <1>4 DEF Typed, Shown
  <2> QED
    BY <1>2, <2>1, ListKept
<1>5. CASE view' = view
  BY <1>4, <1>5 DEF Shown
<1>6. CASE view' # view
  <2> PICK p, s, t, e : p = ChatOf[h] /\ s = view[p] /\ t = view'[p] /\ e = Received(h)
    OBVIOUS
  <2>1. /\ p \in Partners /\ e \in Entry /\ AddMessage(p, e)
        /\ e.msg = h /\ e.known /\ ~e.own /\ ~e.pending /\ ~e.failed
    BY <1>1, EntryTypes DEF Received
  <2>2. /\ view' \in [Partners -> Seq(Entry)] /\ ~Knows(s, h) /\ Added(s, e, t)
        /\ \A q \in Partners : q # p => view'[q] = view[q]
    BY <1>6, <2>1, AddFacts
  <2>3. s \in Seq(Entry) /\ ListOK(p, s) /\ ListOK(p, s)' /\ t \in Seq(Entry)
    BY <1>4, <2>1, <2>2 DEF Shown
  <2>4. EntryOK(p, e)'
    <3>1. h \in Ided'
      BY <1>2, <1>3 DEF Grown
    <3> QED
      BY <2>1, <3>1 DEF EntryOK
  <2>5. ASSUME NEW i \in DOMAIN s PROVE PairOK(s[i], e)'
    <3> SUFFICES ASSUME s[i].msg = h
                 PROVE  s[i].known # e.known /\ s[i].own # e.own /\ Abandoned(h)'
      BY <2>1 DEF PairOK
    <3>1. ~s[i].known /\ s[i].own /\ EntryOK(p, s[i])
      BY <2>2, <2>3 DEF Knows, ListOK, EntryOK
    <3>2. h \in cut
      <4> SUFFICES ASSUME h \notin cut PROVE FALSE
        OBVIOUS
      <4>1. Sure(h)
        BY <3>1 DEF EntryOK
      <4>2. In(wire, "message", h)
        BY <1>1, InTail DEF Typed
      <4> QED
        BY <1>3, <4>1, <4>2 DEF Sure
    <3>3. Abandoned(h)'
      BY <1>2, <1>3, <3>2 DEF Abandoned, Grown
    <3> QED
      BY <2>1, <3>1, <3>3
  <2>6. ListOK(p, t)'
    BY <2>1, <2>2, <2>3, <2>4, <2>5, AddedList
  <2> QED
    BY <1>4, <2>2, <2>6 DEF Shown
<1> QED
  BY <1>5, <1>6

LEMMA ShownSend ==
  ASSUME Typed, Numbered, Sent, Shown, NEW m \in Mine, HandleSend(m)
  PROVE  Shown'
<1>1. /\ m \notin typed /\ m \notin Ided /\ m \in Messages /\ typed' = typed \cup {m}
      /\ cut' = cut /\ todo' = todo /\ wire' = wire /\ ignored' = ignored /\ lost' = lost
      /\ Ided' = Ided /\ online' = online
      /\ refused \subseteq refused' /\ (~online => m \in refused')
      /\ active = ChatOf[m] /\ active \in Partners
  BY Shape DEF HandleSend, serverVars, Ided, Numbered
<1>2. /\ ToSet(uplink') \subseteq ToSet(uplink) \cup {m} /\ ToSet(uplink) \subseteq ToSet(uplink')
      /\ online => m \in ToSet(uplink')
      /\ ~online => uplink' = uplink
  <2>1. ToSet(Append(uplink, m)) = ToSet(uplink) \cup {m}
    BY AppendFacts DEF Typed
  <2>2. uplink' = IF online THEN Append(uplink, m) ELSE uplink
    BY DEF HandleSend
  <2> QED
    BY <2>1, <2>2
<1>3. m \notin ToSet(uplink)
  BY <1>1 DEF Sent, ToSet
<1>4. \A k : Acked(k)' <=> Acked(k)
  BY <1>1 DEF Acked
<1>5. Grown
  BY <1>1, <1>4 DEF Grown
<1>6. ASSUME NEW k \in typed PROVE SureKept(k) /\ AwaitedKept(k)
  <2>1. k # m
    BY <1>1
  <2>2. SureKept(k)
    BY <1>1, <1>2, <1>4, <2>1 DEF SureKept, Sure
  <2>3. AwaitedKept(k)
    BY <1>1, <1>2, <1>4, <2>1 DEF AwaitedKept, Awaited
  <2> QED
    BY <2>2, <2>3
<1>7. ASSUME NEW p \in Partners, NEW s, s = view[p] PROVE s \in Seq(Entry) /\ ListOK(p, s)'
  <2>1. s \in Seq(Entry) /\ ListOK(p, s)
    BY <1>7 DEF Typed, Shown
  <2>2. \A i \in DOMAIN s : s[i].own => s[i].msg \in typed
    BY <2>1 DEF ListOK, EntryOK
  <2> QED
    BY <1>5, <1>6, <2>1, <2>2, ListKept
<1>8. CASE view' = view
  BY <1>7, <1>8 DEF Shown
<1>9. CASE view' # view
  <2> PICK p, s, t, e : /\ p = active /\ s = view[p] /\ t = view'[p]
                        /\ e = [msg |-> m, known |-> FALSE, own |-> TRUE,
                                pending |-> online, failed |-> ~online]
    OBVIOUS
  <2>1. /\ p \in Partners /\ e \in Entry /\ AddMessage(p, e) /\ ChatOf[m] = p
        /\ e.msg = m /\ ~e.known /\ e.own /\ (e.pending => online) /\ (e.failed => ~online)
    BY <1>1, EntryTypes DEF HandleSend
  <2>2. /\ view' \in [Partners -> Seq(Entry)] /\ Added(s, e, t)
        /\ \A q \in Partners : q # p => view'[q] = view[q]
    BY <1>9, <2>1, AddFacts
  <2>3. s \in Seq(Entry) /\ ListOK(p, s) /\ ListOK(p, s)' /\ t \in Seq(Entry)
    BY <1>7, <2>1, <2>2 DEF Shown
  <2>4. EntryOK(p, e)'
    <3>1. Sure(m)'
      <4>1. ~In(wire, "message", m) /\ ~In(todo, "message", m)
        BY <1>1, TodoFacts DEF Sent
      <4>2. m \in ToSet(uplink') \cup Ided' => online
        BY <1>1, <1>2, <1>3
      <4> QED
        BY <1>1, <4>1, <4>2 DEF Sure
    <3>2. online => Awaited(m)'
      BY <1>2 DEF Awaited
    <3> QED
      BY <1>1, <2>1, <3>1, <3>2 DEF EntryOK
  <2>5. ASSUME NEW i \in DOMAIN s PROVE PairOK(s[i], e)'
    <3>1. s[i].msg # m
      BY <1>1, <2>3 DEF ListOK, EntryOK
    <3> QED
      BY <2>1, <3>1 DEF PairOK
  <2>6. ListOK(p, t)'
    BY <2>1, <2>2, <2>3, <2>4, <2>5, AddedList
  <2> QED
    BY <1>7, <2>2, <2>6 DEF Shown
<1> QED
  BY <1>8, <1>9

(* Who was waiting for an answer waits in vain. *)
LEMMA ShownDisconnect ==
  ASSUME Typed, Numbered, Sent, Shown, Disconnect
  PROVE  Shown'
<1>1. /\ view' = view /\ typed' = typed /\ refused' = refused /\ lost' = lost /\ Ided' = Ided
      /\ wire' = <<>> /\ todo' = todo /\ cut \subseteq cut'
  BY DEF Disconnect, serverVars, Ided
<1>2. Grown
  BY <1>1, InEmpty DEF Grown, Acked
<1>3. ASSUME NEW p \in Partners, NEW s, s = view[p] PROVE ListOK(p, s)'
  <2>1. s \in Seq(Entry) /\ ListOK(p, s)
    BY <1>3 DEF Typed, Shown
  <2>2. ASSUME NEW i \in DOMAIN s, s[i].own, ~s[i].known PROVE s[i].msg \in cut'
    <3> DEFINE k == s[i].msg
    <3>1. k \in typed /\ ChatOf[k] = p
      BY <2>1, <2>2 DEF ListOK, EntryOK
    <3>2. i \in Matching(view[ChatOf[k]], k) /\ ~view[ChatOf[k]][i].known
      BY <1>3, <2>2, <3>1 DEF Matching
    <3>3. k \in {c \in typed : \E j \in Matching(view[ChatOf[c]], c) : ~view[ChatOf[c]][j].known}
      BY <3>1, <3>2
    <3> QED
      BY <3>3 DEF Disconnect
  <2> QED
    BY <1>2, <2>1, <2>2, ListKept
<1> QED
  BY <1>1, <1>3 DEF Shown

LEMMA ShownPage ==
  ASSUME Typed, Numbered, Shown, Pages, ShowPage
  PROVE  Shown'
<1>1. Grown /\ \A m : SureKept(m) /\ AwaitedKept(m)
  <2>1. /\ uplink' = uplink /\ todo' = todo /\ wire' = wire /\ ids' = ids /\ online' = online
        /\ ignored' = ignored /\ typed' = typed /\ cut' = cut /\ refused' = refused /\ lost' = lost
    BY DEF ShowPage, serverVars
  <2> QED
    BY <2>1, SameAnswers
<1>2. ASSUME NEW p \in Partners, NEW s, s = view[p] PROVE s \in Seq(Entry) /\ ListOK(p, s)'
  <2>1. s \in Seq(Entry) /\ ListOK(p, s)
    BY <1>2 DEF Typed, Shown
  <2> QED
    BY <1>1, <2>1, ListKept
<1> PICK n \in Nat : \E t : PageShown(n, t)
  BY PageEffect
<1>3. PICK t : PageShown(n, t)
  OBVIOUS
<1> PICK p, s, rows : p = active /\ s = Kept /\ rows = request.rows
  OBVIOUS
<1>4. /\ p \in Partners /\ rows \in Seq(Messages)
      /\ t \in Seq(Entry) /\ Fronted(s, rows, n, t)
      /\ view'[p] = t /\ \A q \in Partners : q # p => view'[q] = view[q]
  BY <1>3, PageEffect DEF PageShown, Request, Typed
<1>5. s \in Seq(Entry) /\ ListOK(p, s)' /\ ListOK(p, s)
  <2>1. CASE cursor = None
    <3>1. s = <<>> /\ s \in Seq(Entry)
      BY <2>1 DEF Kept
    <3> QED
      BY <3>1 DEF ListOK
  <2>2. CASE cursor # None
    <3>1. s = view[p]
      BY <2>2 DEF Kept
    <3> QED
      BY <1>2, <1>4, <3>1 DEF Shown
  <2> QED
    BY <2>1, <2>2
<1>6. ASSUME NEW k \in DOMAIN rows
      PROVE  /\ rows[k] \in Ided /\ rows[k] \in Ided' /\ ChatOf[rows[k]] = p /\ Older(rows[k])
             /\ rows[k] \in Messages
  <2>1. rows[k] \in store /\ ChatOf[rows[k]] = p /\ Older(rows[k])
    BY PageEffect DEF Rows
  <2> QED
    BY <1>1, <1>4, <2>1 DEF Numbered, Grown
<1>7. ASSUME NEW k \in DOMAIN rows PROVE EntryOK(p, Received(rows[k]))'
  BY <1>6 DEF EntryOK, Received
<1>8. ASSUME NEW k \in DOMAIN rows, ~Knows(s, rows[k]), NEW i \in DOMAIN s PROVE s[i].msg # rows[k]
  <2> SUFFICES ASSUME s[i].msg = rows[k] PROVE FALSE
    OBVIOUS
  <2>1. s[i].own
    BY <1>5, <1>8 DEF Knows, ListOK, EntryOK
  <2>2. cursor # None
    BY <1>8 DEF Kept
  <2>3. s = view[p] /\ Anchored(s) /\ cursor \in Ided
    BY <2>2 DEF Kept, Pages
  <2>4. ids[rows[k]] > ids[cursor]
    BY <1>6, <2>1, <2>3 DEF Anchored
  <2>5. ids[rows[k]] < ids[cursor]
    BY <1>6, <2>2 DEF Older
  <2>6. ids[rows[k]] \in Nat /\ ids[cursor] \in Nat
    BY <1>6, <2>3 DEF Typed, Ided
  <2> QED
    BY <2>4, <2>5, <2>6
<1>9. ListOK(p, t)'
  BY <1>4, <1>5, <1>7, <1>8, FrontedList
<1> QED
  BY <1>2, <1>4, <1>9 DEF Shown

LEMMA ShownNext ==
  ASSUME Typed, Numbered, Sent, Shown, Pages, [Next]_vars
  PROVE  Shown'
<1>1. CASE Connect \/ LoadMore \/ Serve \/ FetchFails \/ UNCHANGED vars
           \/ \E p \in Partners : OpenChat(p)
  <2>1. /\ uplink' = uplink /\ todo' = todo /\ wire' = wire /\ ids' = ids
        /\ online' \in {online, TRUE} /\ view' = view
        /\ ignored' = ignored /\ typed' = typed /\ cut' = cut /\ refused' = refused /\ lost' = lost
    BY <1>1 DEF Connect, LoadMore, Serve, FetchFails, OpenChat, serverVars, vars
  <2> QED
    BY <2>1, SameAnswers, ShownKept
<1>2. CASE Server
  <2>1. view' = view
    BY <1>2 DEF Server, Accept, Refuse, Reply, Incoming, Deliver, Save, SaveFails, tabVars
  <2>2. Grown /\ \A m \in typed : SureKept(m) /\ AwaitedKept(m)
    BY <1>2, AcceptAnswers, RefuseAnswers, ReplyAnswers, OtherAnswers DEF Server
  <2> QED
    BY <2>1, <2>2, ShownKept
<1> QED
  BY <1>1, <1>2, ShownAck, ShownError, ShownMessage, ShownSend, ShownDisconnect, ShownPage
     DEF Next, Socket, User, Paging

-----------------------------------------------------------------------------
(***************************************************************************)
(* Pages.                                                                  *)
(***************************************************************************)
(* Ids do not change, and a new one is above all others. *)
NumbersKept ==
  /\ \A k \in Ided : k \in Ided' /\ ids'[k] = ids[k]
  /\ \A k \in Ided' : k \in Ided \/ \A j \in Ided : ids'[k] > ids[j]
  /\ store \subseteq store'

(* No list grows over its limit, or shows an own message that is not new. *)
OwnKept == \A p \in Partners :
  /\ Len(view'[p]) <= MaxPerChat \/ Len(view'[p]) = Len(view[p])
  /\ \A i \in DOMAIN view'[p] : view'[p][i].own =>
       \/ view'[p][i].msg \notin Ided'
       \/ \E j \in DOMAIN view[p] : view[p][j].own /\ view[p][j].msg = view'[p][i].msg

LEMMA NumbersSame == ASSUME ids' = ids, store' = store PROVE NumbersKept /\ Ided' = Ided
<1>1. Ided' = Ided
  BY DEF Ided
<1> QED
  BY <1>1 DEF NumbersKept

LEMMA NumbersGrow ==
  ASSUME Typed, Numbered, Sent, Server
  PROVE  NumbersKept
<1>1. ASSUME NEW m \in Messages, m \notin Ided, ids' = [ids EXCEPT ![m] = NextId],
             store' = store
      PROVE  NumbersKept
  <2>1. /\ ids'[m] = Cardinality(Ided) + 1 /\ Ided' = Ided \cup {m}
        /\ \A k \in Messages : k # m => ids'[k] = ids[k]
    BY <1>1, IdsType
  <2>2. Cardinality(Ided) \in Nat
    BY FS_CardinalityType DEF Numbered
  <2>3. \A k \in Ided : k \in Messages /\ k # m /\ ids[k] \in Nat /\ ids[k] <= Cardinality(Ided)
    BY <1>1 DEF Ided, Typed, Numbered
  <2>4. \A j \in Ided : ids'[m] > ids[j]
    BY <2>1, <2>2, <2>3
  <2> QED
    BY <1>1, <2>1, <2>3, <2>4 DEF NumbersKept
<1>2. CASE Accept
  BY <1>1, <1>2, UplinkFacts, UplinkNew DEF Accept, tabVars
<1>3. ASSUME NEW m \in Messages, Incoming(m) PROVE NumbersKept
  <2>1. m \notin Ided
    BY <1>3 DEF Incoming, Ided
  <2> QED
    BY <1>1, <1>3, <2>1 DEF Incoming
<1>4. CASE Refuse \/ Reply \/ \E m \in Messages : Deliver(m) \/ SaveFails(m)
  BY <1>4, NumbersSame DEF Refuse, Reply, Deliver, SaveFails
<1>5. ASSUME NEW m \in Messages, Save(m) PROVE NumbersKept
  <2>1. Ided' = Ided /\ ids' = ids /\ store \subseteq store'
    BY <1>5 DEF Save, Ided
  <2> QED
    BY <2>1 DEF NumbersKept
<1> QED
  BY <1>2, <1>3, <1>4, <1>5 DEF Server

LEMMA OlderKept ==
  ASSUME Typed, NumbersKept, cursor' = cursor, cursor # None => cursor \in Ided,
         NEW m \in Ided
  PROVE  /\ Older(m)' <=> Older(m)
         /\ \A c \in Ided : NotBelow(m, c)' <=> NotBelow(m, c)
         /\ NotBelow(m, None)'
  BY DEF Older, NotBelow, NumbersKept

LEMMA RowsKept ==
  ASSUME Typed, Numbered, NumbersKept, active' = active, cursor' = cursor, base' = base,
         cursor # None => cursor \in Ided,
         base # None => \A m \in base.rows : m \in store,
         NEW r, Rows(r)
  PROVE  Rows(r)'
<1>1. store \subseteq Ided /\ store \subseteq store'
  BY DEF Numbered, NumbersKept
<1>2. \A i \in DOMAIN r.rows : /\ r.rows[i] \in store' /\ ChatOf[r.rows[i]] = active'
                               /\ Older(r.rows[i])'
  BY <1>1, OlderKept DEF Rows
<1>3. ASSUME base # None, NEW m \in base.rows, Older(m)', NotBelow(m, r.next)'
      PROVE  m \in ToSet(r.rows)
  <2>1. m \in Ided /\ Older(m)
    BY <1>1, <1>3, OlderKept
  <2>2. r.next = None \/ r.next \in Ided
    BY <1>1 DEF Rows, ToSet
  <2>3. NotBelow(m, r.next)
    BY <1>3, <2>1, <2>2, OlderKept DEF NotBelow
  <2> QED
    BY <1>3, <2>1, <2>3 DEF Rows
<1> QED
  BY <1>2, <1>3 DEF Rows

LEMMA PagesKept ==
  ASSUME Typed, Numbered, Pages, NumbersKept, OwnKept,
         active' = active, cursor' = cursor, hasMore' = hasMore, request' = request,
         base' = base
  PROVE  Pages'
<1>1. ASSUME cursor # None
      PROVE  /\ active \in Partners /\ cursor \in Ided' /\ Anchored(view[active])'
             /\ hasMore => Len(view'[active]) <= MaxPerChat
  <2>1. /\ active \in Partners /\ cursor \in Ided /\ Anchored(view[active])
        /\ hasMore => Len(view[active]) <= MaxPerChat
    BY <1>1 DEF Pages
  <2>2. cursor \in Ided' /\ ids'[cursor] = ids[cursor]
    BY <2>1 DEF NumbersKept
  <2>3. ASSUME NEW i \in DOMAIN view'[active], view'[active][i].own,
               view'[active][i].msg \in Ided'
        PROVE  ids'[view'[active][i].msg] > ids'[cursor]
    <3>1. PICK j \in DOMAIN view[active] :
            view[active][j].own /\ view[active][j].msg = view'[active][i].msg
      BY <2>1, <2>3 DEF OwnKept
    <3> DEFINE m == view[active][j].msg
    <3>2. m \notin Ided \/ ids[m] > ids[cursor]
      BY <2>1, <3>1 DEF Anchored
    <3>3. CASE m \in Ided
      BY <2>2, <3>1, <3>2, <3>3 DEF NumbersKept
    <3>4. CASE m \notin Ided
      BY <2>1, <2>2, <2>3, <3>1, <3>4 DEF NumbersKept
    <3> QED
      BY <3>3, <3>4
  <2>4. Anchored(view[active])'
    BY <2>3 DEF Anchored
  <2>5. hasMore => Len(view'[active]) <= MaxPerChat
    BY <2>1 DEF OwnKept
  <2> QED
    BY <2>1, <2>2, <2>4, <2>5
<1>2. ASSUME NEW p \in Partners PROVE Len(view'[p]) <= MaxPerChat + PageSize
  <2>1. /\ Len(view[p]) <= MaxPerChat + PageSize
        /\ Len(view'[p]) <= MaxPerChat \/ Len(view'[p]) = Len(view[p])
    BY DEF Pages, OwnKept
  <2>2. Len(view'[p]) <= MaxPerChat => Len(view'[p]) <= MaxPerChat + PageSize
    <3>1. MaxPerChat \in Nat /\ PageSize \in Nat
      BY Shape
    <3> QED
      BY <2>1, <3>1
  <2> QED
    BY <2>1, <2>2
<1>3. ASSUME request # None, request.served PROVE Rows(request)'
  <2> PICK r : r = request
    OBVIOUS
  <2>1. Rows(r)
    BY <1>3 DEF Pages
  <2>2. /\ cursor # None => cursor \in Ided
        /\ base # None => \A m \in base.rows : m \in store
    BY DEF Pages
  <2>3. Rows(r)'
    BY <2>1, <2>2, RowsKept
  <2> QED
    BY <2>3
<1>4. base # None => /\ active \in Partners
                     /\ \A m \in base.rows : m \in store' /\ ChatOf[m] = active
                     /\ cursor # None => base.shown
  BY DEF Pages, NumbersKept
<1>5. request # None => /\ request.partner = active /\ request.cursor = cursor
                        /\ active \in Partners /\ (cursor # None => hasMore)
  BY DEF Pages
<1> QED
  BY <1>1, <1>2, <1>3, <1>4, <1>5 DEF Pages

LEMMA OwnSame == ASSUME view' = view PROVE OwnKept
  BY DEF OwnKept

LEMMA OwnAdded ==
  ASSUME Typed, NEW p \in Partners, NEW e \in Entry, AddMessage(p, e),
         e.own => e.msg \notin Ided'
  PROVE  OwnKept
<1>1. CASE view' = view
  BY <1>1, OwnSame
<1>2. CASE view' # view
  <2>1. /\ Added(view[p], e, view'[p]) /\ Len(view'[p]) <= MaxPerChat
        /\ \A q \in Partners : q # p => view'[q] = view[q]
    BY <1>2, AddFacts
  <2>2. ASSUME NEW i \in DOMAIN view'[p], view'[p][i].own
        PROVE  \/ view'[p][i].msg \notin Ided'
               \/ \E j \in DOMAIN view[p] : view[p][j].own /\ view[p][j].msg = view'[p][i].msg
    BY <2>1, <2>2 DEF Added
  <2>3. ASSUME NEW q \in Partners, q # p
        PROVE  /\ Len(view'[q]) = Len(view[q])
               /\ \A i \in DOMAIN view'[q] : view'[q][i].own =>
                    \E j \in DOMAIN view[q] : view[q][j].own /\ view[q][j].msg = view'[q][i].msg
    BY <2>1, <2>3
  <2> QED
    BY <2>1, <2>2, <2>3 DEF OwnKept
<1> QED
  BY <1>1, <1>2

LEMMA OwnPatched ==
  ASSUME Typed, NEW m \in Messages, NEW k, NEW f, Patch(m, k, f)
  PROVE  OwnKept
<1>1. /\ \A q \in Partners : /\ q # ChatOf[m] => view'[q] = view[q]
                             /\ Len(view'[q]) = Len(view[q])
                             /\ DOMAIN view'[q] = DOMAIN view[q]
      /\ view'[ChatOf[m]][k] = f
      /\ \A j \in DOMAIN view[ChatOf[m]] : j # k => view'[ChatOf[m]][j] = view[ChatOf[m]][j]
  BY PatchFacts
<1>2. /\ k \in DOMAIN view[ChatOf[m]] /\ f.own /\ f.msg = m
      /\ view[ChatOf[m]][k].own /\ view[ChatOf[m]][k].msg = m
  BY DEF Patch
<1>3. ASSUME NEW p \in Partners, NEW i \in DOMAIN view'[p], view'[p][i].own
      PROVE  i \in DOMAIN view[p] /\ view[p][i].own /\ view[p][i].msg = view'[p][i].msg
  <2>1. CASE p # ChatOf[m] \/ i # k
    BY <1>1, <1>3, <2>1
  <2>2. CASE p = ChatOf[m] /\ i = k
    BY <1>1, <1>2, <2>2
  <2> QED
    BY <2>1, <2>2
<1> QED
  BY <1>1, <1>3 DEF OwnKept

LEMMA PagesSocket ==
  ASSUME Typed, Numbered, Sent, Shown, Pages, Socket
  PROVE  Pages'
<1>1. /\ ids' = ids /\ store' = store
      /\ active' = active /\ cursor' = cursor /\ hasMore' = hasMore
      /\ request' = request /\ base' = base
  BY DEF Socket, Connect, Disconnect, ReceiveAck, ReceiveError, ReceiveMessage,
     serverVars, historyVars
<1>2. CASE Connect \/ Disconnect
  <2>1. view' = view
    BY <1>2 DEF Connect, Disconnect
  <2> QED
    BY <1>1, <2>1, OwnSame, NumbersSame, PagesKept
<1>3. CASE ReceiveAck \/ ReceiveError
  <2>1. Head(wire).msg \in Messages
    BY <1>3, FrameFacts DEF ReceiveAck, ReceiveError, Arrives
  <2>2. view' = view \/ \E i, f : Patch(Head(wire).msg, i, f)
    BY <1>3, OneOwnFacts, AckEffect, ErrorEffect
  <2>3. OwnKept
    BY <2>1, <2>2, OwnSame, OwnPatched
  <2> QED
    BY <1>1, <2>3, NumbersSame, PagesKept
<1>4. CASE ReceiveMessage
  <2> DEFINE m == Head(wire).msg
  <2>1. m \in Messages /\ ChatOf[m] \in Partners /\ AddMessage(ChatOf[m], Received(m))
    BY <1>4, FrameFacts DEF ReceiveMessage, Arrives
  <2>2. Received(m) \in Entry /\ ~Received(m).own
    BY <2>1, EntryTypes DEF Received
  <2>3. OwnKept
    BY <2>1, <2>2, OwnAdded
  <2> QED
    BY <1>1, <2>3, NumbersSame, PagesKept
<1> QED
  BY <1>2, <1>3, <1>4 DEF Socket

LEMMA PagesUser ==
  ASSUME Typed, Numbered, Pages, User
  PROVE  Pages'
<1>1. ASSUME NEW m \in Mine, HandleSend(m) PROVE Pages'
  <2>1. /\ ids' = ids /\ store' = store /\ m \notin Ided
        /\ active' = active /\ cursor' = cursor /\ hasMore' = hasMore
        /\ request' = request /\ base' = base
    BY <1>1 DEF HandleSend, serverVars, historyVars, Numbered
  <2> DEFINE e == [msg |-> m, known |-> FALSE, own |-> TRUE,
                   pending |-> online, failed |-> ~online]
  <2>2. e \in Entry /\ e.msg = m /\ active \in Partners /\ AddMessage(active, e)
    <3>1. e \in Entry /\ active = ChatOf[m] /\ m \in Messages
      BY <1>1, EntryTypes, Shape DEF HandleSend
    <3> QED
      BY <1>1, <3>1, Shape DEF HandleSend
  <2> HIDE DEF e
  <2>3. NumbersKept /\ Ided' = Ided
    BY <2>1, NumbersSame
  <2>4. OwnKept
    BY <2>1, <2>2, <2>3, OwnAdded
  <2> QED
    BY <2>1, <2>3, <2>4, PagesKept
<1>2. ASSUME NEW p \in Partners, OpenChat(p) PROVE Pages'
  <2>1. /\ ~request'.served /\ request'.partner = p /\ request'.cursor = None
    BY <1>2, FetchType DEF OpenChat
  <2>2. view' = view /\ active' = p /\ cursor' = None /\ base' = None
    BY <1>2 DEF OpenChat
  <2> QED
    BY <2>1, <2>2 DEF Pages
<1> QED
  BY <1>1, <1>2 DEF User

LEMMA PagesLoadMore ==
  ASSUME Typed, Numbered, Pages, LoadMore
  PROVE  Pages'
<1>1. active \in Partners
  BY DEF LoadMore, Pages
<1>2. ~request'.served /\ request'.partner = active /\ request'.cursor = cursor
  BY <1>1, FetchType DEF LoadMore, Typed
<1>3. /\ view' = view /\ ids' = ids /\ active' = active /\ cursor' = cursor
      /\ hasMore' = hasMore /\ hasMore /\ base' = base /\ store' = store
  BY DEF LoadMore, serverVars
<1>4. Ided' = Ided /\ (cursor # None => Anchored(view[active])')
  BY <1>3 DEF Ided, Pages, Anchored
<1> QED
  BY <1>1, <1>2, <1>3, <1>4 DEF Pages

LEMMA PagesServe ==
  ASSUME Typed, Numbered, Pages, Serve
  PROVE  Pages'
<1>1. /\ request \in Request /\ request.partner = active /\ request.cursor = cursor
      /\ active \in Partners /\ (cursor # None => hasMore)
  BY DEF Serve, Pages, Typed
<1>2. /\ request'.partner = active /\ request'.cursor = cursor /\ request'.rows = Answer
      /\ request'.next = IF Len(Ranked(Before, ids)) > PageSize THEN Answer[1] ELSE None
  BY <1>1, ServeEffect
<1>3. /\ view' = view /\ ids' = ids /\ active' = active /\ cursor' = cursor
      /\ hasMore' = hasMore /\ store' = store
  BY DEF Serve
<1>4. Ided' = Ided /\ (cursor # None => Anchored(view[active])')
  BY <1>3 DEF Ided, Pages, Anchored
<1>5. base' = IF cursor = None
                THEN [shown |-> FALSE, rows |-> {m \in store : ChatOf[m] = active}]
                ELSE base
  BY <1>1 DEF Serve
<1>6. base' # None => /\ \A m \in base'.rows : m \in store /\ ChatOf[m] = active
                      /\ cursor # None => base'.shown
  BY <1>5 DEF Pages
<1>7. \A m : m \in Before <=> m \in store /\ ChatOf[m] = active /\ Older(m)
  BY <1>1 DEF Before, Older
<1>8. \A m : (Older(m)' <=> Older(m)) /\ \A c : NotBelow(m, c)' <=> NotBelow(m, c)
  BY <1>3 DEF Older, NotBelow
<1> PICK r : r = request'
  OBVIOUS
<1>9. Rows(r)'
  <2>1. /\ Answer \in Seq(Messages) /\ Len(Answer) <= PageSize
        /\ \A i, j \in DOMAIN Answer : Answer[i] = Answer[j] => i = j
        /\ \A i \in DOMAIN Answer : Answer[i] \in Before
        /\ Len(Ranked(Before, ids)) > PageSize =>
             /\ 1 \in DOMAIN Answer
             /\ \A m \in Before : ids[m] >= ids[Answer[1]] => m \in ToSet(Answer)
        /\ ~(Len(Ranked(Before, ids)) > PageSize) =>
             \A m \in Before : m \in ToSet(Answer)
    BY AnswerFacts
  <2>2. r.rows = Answer
    BY <1>2
  <2>3. r.next # None => r.next \in ToSet(r.rows)
    BY <1>2, <2>1, <2>2 DEF ToSet
  <2>4. ASSUME NEW m \in Before, NotBelow(m, r.next) PROVE m \in ToSet(Answer)
    <3>1. CASE Len(Ranked(Before, ids)) > PageSize
      <4>1. r.next = Answer[1] /\ r.next # None
        BY <1>2, <2>1, <3>1, Shape
      <4> QED
        BY <2>1, <2>4, <3>1, <4>1 DEF NotBelow
    <3>2. CASE ~(Len(Ranked(Before, ids)) > PageSize)
      BY <2>1, <3>2
    <3> QED
      BY <3>1, <3>2
  <2>5. base' # None => \A m \in base'.rows :
          Older(m)' /\ NotBelow(m, r.next)' => m \in ToSet(r.rows)
    BY <1>6, <1>7, <1>8, <2>2, <2>4
  <2>6. \A i \in DOMAIN r.rows : /\ r.rows[i] \in store' /\ ChatOf[r.rows[i]] = active'
                                 /\ Older(r.rows[i])'
    BY <1>3, <1>7, <1>8, <2>1, <2>2
  <2> QED
    BY <2>1, <2>2, <2>3, <2>5, <2>6 DEF Rows
<1>10. Rows(request)'
  BY <1>9
<1>11. cursor # None => /\ active \in Partners /\ cursor \in Ided
                        /\ hasMore => Len(view[active]) <= MaxPerChat
  BY DEF Pages
<1>12. \A p \in Partners : Len(view[p]) <= MaxPerChat + PageSize
  BY DEF Pages
<1> QED
  BY <1>1, <1>2, <1>3, <1>4, <1>6, <1>10, <1>11, <1>12 DEF Pages

LEMMA PagesFetchFails ==
  ASSUME Typed, Numbered, Pages, FetchFails
  PROVE  Pages'
<1>1. /\ view' = view /\ ids' = ids /\ active' = active /\ cursor' = cursor
      /\ hasMore' = hasMore /\ store' = store /\ request' = None
      /\ base' = None \/ base' = base
      /\ request.cursor = None => base' = None
  BY DEF FetchFails, serverVars
<1>2. Ided' = Ided /\ (cursor # None => Anchored(view[active])')
  BY <1>1 DEF Ided, Pages, Anchored
<1> QED
  BY <1>1, <1>2 DEF Pages

LEMMA PagesShowPage ==
  ASSUME Typed, Numbered, Pages, ShowPage
  PROVE  Pages'
<1> PICK n \in Nat : \E t : PageShown(n, t)
  BY PageEffect
<1>1. PICK t : PageShown(n, t)
  OBVIOUS
<1> PICK r : r = request
  OBVIOUS
<1>2. /\ active \in Partners /\ Rows(r) /\ r \in Request
  BY PageEffect
<1>3. /\ t \in Seq(Entry) /\ Fronted(Kept, r.rows, n, t)
      /\ view'[active] = t /\ \A q \in Partners : q # active => view'[q] = view[q]
      /\ hasMore' = (r.next # None /\ Len(t) < MaxPerChat)
  BY <1>1, <1>2 DEF PageShown, Typed
<1>4. /\ ids' = ids /\ active' = active /\ cursor' = r.next /\ store' = store /\ request' = None
      /\ base' = IF base = None THEN None ELSE [base EXCEPT !.shown = TRUE]
  BY DEF ShowPage, serverVars
<1>5. Ided' = Ided
  BY <1>4 DEF Ided
<1>6. PageSize \in Nat /\ MaxPerChat \in Nat
  BY Shape
<1>7. Len(t) <= MaxPerChat + PageSize
  <2>1. Len(t) = n + Len(Kept) /\ n <= Len(r.rows) /\ Len(r.rows) <= PageSize
        /\ Len(r.rows) \in Nat
    BY <1>2, <1>3 DEF Fronted, Rows, Request
  <2>2. Len(Kept) \in Nat /\ Len(Kept) <= MaxPerChat
    <3>1. CASE cursor = None
      BY <1>6, <3>1 DEF Kept
    <3>2. CASE cursor # None
      <4>1. Kept = view[active] /\ Len(view[active]) <= MaxPerChat /\ view[active] \in Seq(Entry)
        BY <1>2, <3>2 DEF Kept, Pages, ShowPage, Typed
      <4> QED
        BY <4>1
    <3> QED
      BY <3>1, <3>2
  <2> QED
    BY <1>6, <2>1, <2>2
<1>8. ASSUME NEW p \in Partners PROVE Len(view'[p]) <= MaxPerChat + PageSize
  BY <1>3, <1>7 DEF Pages
<1>9. ASSUME r.next # None
      PROVE  r.next \in Ided /\ Anchored(view[active])' /\ (hasMore' => Len(t) <= MaxPerChat)
  <2>1. PICK k \in DOMAIN r.rows : r.rows[k] = r.next
    BY <1>2, <1>9 DEF Rows, ToSet
  <2>2. r.next \in store /\ r.next \in Ided /\ Older(r.next)
    BY <1>2, <2>1 DEF Rows, Numbered
  <2>3. ASSUME NEW i \in DOMAIN t, t[i].own
        PROVE  t[i].msg \notin Ided \/ ids[t[i].msg] > ids[r.next]
    <3>1. i \notin 1..n
      <4> SUFFICES ASSUME i \in 1..n PROVE FALSE
        OBVIOUS
      <4>1. \E l \in DOMAIN r.rows : t[i] = Received(r.rows[l])
        BY <1>3 DEF Fronted
      <4> QED
        BY <2>3, <4>1 DEF Received
    <3>2. PICK j \in DOMAIN Kept : t[i] = Kept[j]
      BY <1>3, <3>1 DEF Fronted
    <3>3. cursor # None
      BY <3>2 DEF Kept
    <3>4. Kept = view[active] /\ Anchored(view[active]) /\ cursor \in Ided
      BY <3>3 DEF Kept, Pages
    <3>5. t[i].msg \notin Ided \/ ids[t[i].msg] > ids[cursor]
      BY <2>3, <3>2, <3>4 DEF Anchored
    <3>6. ids[r.next] < ids[cursor]
      BY <2>2, <3>3 DEF Older
    <3>7. ids[r.next] \in Nat /\ ids[cursor] \in Nat
          /\ (t[i].msg \in Ided => ids[t[i].msg] \in Nat)
      BY <2>2, <3>4 DEF Typed, Ided
    <3> QED
      BY <3>5, <3>6, <3>7
  <2>4. Anchored(view[active])'
    BY <1>3, <1>4, <1>5, <2>3 DEF Anchored
  <2>5. hasMore' => Len(t) < MaxPerChat
    BY <1>3, Zenon
  <2>6. Len(t) < MaxPerChat => Len(t) <= MaxPerChat
    BY <1>3, <1>6
  <2> QED
    BY <2>2, <2>4, <2>5, <2>6
<1>10. base' # None => /\ \A m \in base'.rows : m \in store /\ ChatOf[m] = active
                       /\ base'.shown
  BY <1>4 DEF Typed, Pages
<1> QED
  BY <1>2, <1>3, <1>4, <1>5, <1>8, <1>9, <1>10 DEF Pages

LEMMA PagesNext ==
  ASSUME Typed, Numbered, Sent, Shown, Pages, [Next]_vars
  PROVE  Pages'
<1>1. CASE Server \/ UNCHANGED vars
  <2>1. /\ view' = view /\ active' = active /\ cursor' = cursor /\ hasMore' = hasMore
        /\ request' = request /\ base' = base
    BY <1>1 DEF Server, Accept, Refuse, Reply, Incoming, Deliver, Save, SaveFails,
       tabVars, historyVars, vars
  <2>2. NumbersKept
    BY <1>1, NumbersGrow, NumbersSame DEF vars, serverVars
  <2> QED
    BY <2>1, <2>2, OwnSame, PagesKept
<1> QED
  BY <1>1, PagesSocket, PagesUser, PagesLoadMore, PagesServe, PagesFetchFails,
     PagesShowPage DEF Next, Paging

-----------------------------------------------------------------------------
(***************************************************************************)
(* No hole.                                                                *)
(***************************************************************************)
LEMMA HoleKept ==
  ASSUME Typed, Numbered, Pages, NoHole, NumbersKept,
         active' = active, cursor' = cursor, base' = base,
         ~trimmed' => ~trimmed,
         ~trimmed' /\ active \in Partners =>
           \A m : Knows(view[active], m) => Knows(view'[active], m)
  PROVE  NoHole'
<1> SUFFICES ASSUME base # None, ~trimmed', base.shown, NEW m \in base.rows,
                    cursor = None \/ ids'[m] >= ids'[cursor]
             PROVE  Knows(view'[active], m)
  BY DEF NoHole
<1>1. active \in Partners /\ m \in Ided /\ (cursor # None => cursor \in Ided)
  BY DEF Pages, Numbered
<1>2. cursor = None \/ ids[m] >= ids[cursor]
  BY <1>1 DEF NumbersKept
<1>3. Knows(view[active], m)
  BY <1>2 DEF NoHole
<1> QED
  BY <1>1, <1>3

LEMMA HolePatched ==
  ASSUME Typed, NEW h \in Messages, NEW i, NEW f, Patch(h, i, f),
         view[ChatOf[h]][i].known => f.known, NEW p \in Partners, NEW m, Knows(view[p], m)
  PROVE  Knows(view'[p], m)
<1>1. /\ \A q \in Partners : /\ q # ChatOf[h] => view'[q] = view[q]
                             /\ DOMAIN view'[q] = DOMAIN view[q]
      /\ view'[ChatOf[h]][i] = f
      /\ \A j \in DOMAIN view[ChatOf[h]] : j # i => view'[ChatOf[h]][j] = view[ChatOf[h]][j]
  BY PatchFacts
<1>2. f.msg = h /\ view[ChatOf[h]][i].msg = h
  BY DEF Patch
<1>3. PICK j \in DOMAIN view[p] : view[p][j].known /\ view[p][j].msg = m
  BY DEF Knows
<1>4. j \in DOMAIN view'[p] /\ view'[p][j].known /\ view'[p][j].msg = m
  <2>1. CASE p # ChatOf[h] \/ j # i
    BY <1>1, <1>3, <2>1
  <2>2. CASE p = ChatOf[h] /\ j = i
    BY <1>1, <1>2, <1>3, <2>2
  <2> QED
    BY <2>1, <2>2
<1> QED
  BY <1>4 DEF Knows

LEMMA HoleSocket ==
  ASSUME Typed, Numbered, Shown, Pages, NoHole, Socket
  PROVE  NoHole'
<1>1. /\ ids' = ids /\ store' = store
      /\ active' = active /\ cursor' = cursor /\ base' = base
  BY DEF Socket, Connect, Disconnect, ReceiveAck, ReceiveError, ReceiveMessage,
     serverVars, historyVars
<1>2. CASE Connect \/ Disconnect
  <2>1. view' = view /\ trimmed' = trimmed
    BY <1>2 DEF Connect, Disconnect
  <2> QED
    BY <1>1, <2>1, NumbersSame, HoleKept
<1>3. CASE ReceiveAck \/ ReceiveError
  <2>1. Head(wire).msg \in Messages /\ trimmed' = trimmed
    BY <1>3, FrameFacts DEF ReceiveAck, ReceiveError, Arrives
  <2>2. \/ view' = view
        \/ \E i, f : /\ Patch(Head(wire).msg, i, f)
                     /\ view[ChatOf[Head(wire).msg]][i].known => f.known
    BY <1>3, OneOwnFacts, AckEffect, ErrorEffect
  <2>3. \A p \in Partners : \A m : Knows(view[p], m) => Knows(view'[p], m)
    BY <2>1, <2>2, HolePatched
  <2> QED
    BY <1>1, <2>1, <2>3, NumbersSame, HoleKept
<1>4. CASE ReceiveMessage
  <2> DEFINE m == Head(wire).msg
  <2>1. m \in Messages /\ ChatOf[m] \in Partners /\ AddMessage(ChatOf[m], Received(m))
        /\ Received(m) \in Entry
    BY <1>4, FrameFacts, EntryTypes DEF ReceiveMessage, Arrives
  <2> HIDE DEF m
  <2>2. /\ ~trimmed' => ~trimmed
        /\ ~trimmed' /\ active \in Partners =>
             \A k : Knows(view[active], k) => Knows(view'[active], k)
    BY <2>1, AddFacts
  <2> QED
    BY <1>1, <2>2, NumbersSame, HoleKept
<1> QED
  BY <1>2, <1>3, <1>4 DEF Socket

LEMMA HoleUser ==
  ASSUME Typed, Numbered, Pages, NoHole, User
  PROVE  NoHole'
<1>1. ASSUME NEW m \in Mine, HandleSend(m) PROVE NoHole'
  <2>1. /\ ids' = ids /\ store' = store
        /\ active' = active /\ cursor' = cursor /\ base' = base
    BY <1>1 DEF HandleSend, serverVars, historyVars
  <2> DEFINE e == [msg |-> m, known |-> FALSE, own |-> TRUE,
                   pending |-> online, failed |-> ~online]
  <2>2. e \in Entry /\ active \in Partners /\ AddMessage(active, e)
    <3>1. e \in Entry /\ active = ChatOf[m] /\ m \in Messages
      BY <1>1, EntryTypes, Shape DEF HandleSend
    <3> QED
      BY <1>1, <3>1, Shape DEF HandleSend
  <2> HIDE DEF e
  <2>3. /\ ~trimmed' => ~trimmed
        /\ ~trimmed' => \A k : Knows(view[active], k) => Knows(view'[active], k)
    BY <2>2, AddFacts
  <2> QED
    BY <2>1, <2>3, NumbersSame, HoleKept
<1>2. ASSUME NEW p \in Partners, OpenChat(p) PROVE NoHole'
  BY <1>2 DEF OpenChat, NoHole
<1> QED
  BY <1>1, <1>2 DEF User

LEMMA HoleShowPage ==
  ASSUME Typed, Numbered, Pages, NoHole, ShowPage
  PROVE  NoHole'
<1> PICK n \in Nat : \E t : PageShown(n, t)
  BY PageEffect
<1>1. PICK t : PageShown(n, t)
  OBVIOUS
<1> PICK r : r = request
  OBVIOUS
<1>2. /\ active \in Partners /\ Rows(r) /\ r.cursor = cursor
  BY PageEffect
<1>3. Fronted(Kept, r.rows, n, t) /\ view'[active] = t
  BY <1>1, <1>2 DEF PageShown, Typed
<1>4. /\ ids' = ids /\ active' = active /\ cursor' = r.next
      /\ base' = IF base = None THEN None ELSE [base EXCEPT !.shown = TRUE]
      /\ trimmed' = (trimmed /\ r.cursor # None)
  BY DEF ShowPage, serverVars
<1>5. base' # None => base # None /\ base'.rows = base.rows
  BY <1>4 DEF Typed
<1>6. ~trimmed' => cursor = None \/ ~trimmed
  BY <1>2, <1>4, Zenon
<1> SUFFICES ASSUME base # None, ~trimmed', NEW m \in base.rows,
                    r.next = None \/ ids[m] >= ids[r.next]
             PROVE  Knows(t, m)
  BY <1>3, <1>4, <1>5 DEF NoHole
<1>7. CASE Older(m)
  <2>1. m \in ToSet(r.rows)
    BY <1>2, <1>7 DEF Rows, NotBelow
  <2> QED
    BY <1>3, <2>1 DEF Fronted
<1>8. CASE ~Older(m)
  <2>1. cursor # None /\ ~(ids[m] < ids[cursor]) /\ Kept = view[active]
    BY <1>8 DEF Older, Kept
  <2>2. m \in Ided /\ cursor \in Ided
    BY <2>1 DEF Pages, Numbered
  <2>3. ids[m] >= ids[cursor]
    BY <2>1, <2>2 DEF Ided, Typed
  <2>4. base.shown
    BY <2>1 DEF Pages
  <2>5. Knows(view[active], m)
    BY <1>6, <2>1, <2>3, <2>4 DEF NoHole
  <2> QED
    BY <1>3, <2>1, <2>5 DEF Fronted
<1> QED
  BY <1>7, <1>8

LEMMA HoleNext ==
  ASSUME Typed, Numbered, Sent, Shown, Pages, NoHole, [Next]_vars
  PROVE  NoHole'
<1>1. CASE Server \/ LoadMore \/ UNCHANGED vars
  <2>1. /\ view' = view /\ active' = active /\ cursor' = cursor /\ base' = base
        /\ trimmed' = trimmed
    BY <1>1 DEF Server, Accept, Refuse, Reply, Incoming, Deliver, Save, SaveFails,
       LoadMore, tabVars, historyVars, vars
  <2>2. NumbersKept
    BY <1>1, NumbersGrow, NumbersSame DEF LoadMore, vars, serverVars
  <2> QED
    BY <2>1, <2>2, HoleKept
<1>2. CASE Serve
  <2>1. /\ view' = view /\ ids' = ids /\ active' = active /\ cursor' = cursor
        /\ trimmed' = trimmed
    BY <1>2 DEF Serve
  <2>2. base' = base \/ (base' # None => ~base'.shown)
    BY <1>2 DEF Serve
  <2> QED
    BY <2>1, <2>2 DEF NoHole, Knows
<1>3. CASE FetchFails
  <2>1. /\ view' = view /\ ids' = ids /\ active' = active /\ cursor' = cursor
        /\ trimmed' = trimmed /\ (base' = None \/ base' = base)
    BY <1>3 DEF FetchFails, serverVars
  <2> QED
    BY <2>1 DEF NoHole, Knows
<1> QED
  BY <1>1, <1>2, <1>3, HoleSocket, HoleUser, HoleShowPage DEF Next, Paging

-----------------------------------------------------------------------------
(***************************************************************************)
(* The invariant holds.                                                    *)
(***************************************************************************)
LEMMA OldFacts ==
  /\ IsFiniteSet(OldSet) /\ Cardinality(OldSet) = Len(Old)
  /\ \A m \in OldSet : m \in Messages /\ \E i \in DOMAIN Old : Old[i] = m
<1>1. /\ Old \in Seq(Messages) /\ OldSet \subseteq Messages
      /\ \A i, j \in DOMAIN Old : Old[i] = Old[j] => i = j
  BY Shape
<1>2. Len(Old) \in Nat /\ DOMAIN Old = 1..Len(Old) /\ OldSet = {Old[i] : i \in DOMAIN Old}
  BY <1>1 DEF OldSet, ToSet
<1> DEFINE f == [i \in 1..Len(Old) |-> Old[i]]
<1>3. f \in [1..Len(Old) -> OldSet]
  BY <1>2
<1>4. f \in Bijection(1..Len(Old), OldSet)
  BY <1>1, <1>2, <1>3 DEF Bijection, Injection, Surjection, IsInjective
<1>5. Cardinality(OldSet) = Len(Old)
  BY <1>2, <1>4, FS_CountingElements DEF ExistsBijection
<1>6. IsFiniteSet(1..Len(Old))
  BY <1>2, FS_Interval
<1>7. IsFiniteSet(OldSet)
  BY <1>4, <1>6, FS_Bijection DEF ExistsBijection
<1> QED
  BY <1>1, <1>2, <1>5, <1>7

LEMMA InitIds ==
  ASSUME Init
  PROVE  /\ ids \in [Messages -> Nat] /\ Ided = OldSet
         /\ \A m \in OldSet : ids[m] \in DOMAIN Old /\ Old[ids[m]] = m
<1>1. \A m \in OldSet : m \in Messages /\ \E i \in DOMAIN Old : Old[i] = m
  BY OldFacts
<1>2. /\ DOMAIN Old \subseteq Nat \ {0} /\ OldSet \subseteq Messages
  BY Shape
<1>3. ASSUME NEW m \in OldSet PROVE ids[m] \in DOMAIN Old /\ Old[ids[m]] = m
  <2>1. ids[m] = CHOOSE i \in DOMAIN Old : Old[i] = m
    BY <1>1 DEF Init
  <2> QED
    BY <1>1, <2>1
<1>4. \A m \in Messages \ OldSet : ids[m] = 0
  BY DEF Init
<1>5. \A m \in Messages : ids[m] \in Nat
  BY <1>2, <1>3, <1>4
<1>6. DOMAIN ids = Messages /\ ids = [m \in Messages |-> ids[m]]
  BY DEF Init
<1>7. ids \in [Messages -> Nat]
  BY <1>5, <1>6
<1>8. Ided = OldSet
  BY <1>2, <1>3, <1>4 DEF Ided
<1> QED
  BY <1>3, <1>7, <1>8

LEMMA InvInit == Init => ClientInv
<1> SUFFICES ASSUME Init PROVE ClientInv
  OBVIOUS
<1>1. OldSet \subseteq Messages /\ OldSet \cap Mine = {} /\ Mine \subseteq Messages
  BY Shape
<1>2. Typed
  <2>1. view \in [Partners -> Seq(Entry)]
    BY DEF Init
  <2>2. /\ online = FALSE /\ uplink = <<>> /\ todo = <<>> /\ wire = <<>>
        /\ saving = {} /\ unsent = {} /\ store = OldSet
        /\ active = None /\ cursor = None /\ hasMore = TRUE /\ request = None
        /\ requests = 0 /\ cuts = 0 /\ typed = {} /\ refused = {} /\ ignored = {}
        /\ lost = {} /\ cut = {} /\ base = None /\ trimmed = FALSE
    BY DEF Init
  <2>3. uplink \in Seq(Mine) /\ todo \in Seq(Frame) /\ wire \in Seq(Frame)
    BY <2>2
  <2> QED
    BY <1>1, <2>1, <2>2, <2>3, InitIds DEF Typed
<1>3. Numbered
  <2>1. \A m \in OldSet : ids[m] <= Cardinality(OldSet)
    BY InitIds, OldFacts, Shape
  <2>2. \A m, k \in OldSet : ids[m] = ids[k] => m = k
    BY InitIds
  <2>3. store = OldSet /\ saving = {} /\ unsent = {}
    BY DEF Init
  <2> QED
    BY <1>1, <2>1, <2>2, <2>3, InitIds, OldFacts DEF Numbered
<1>4. Sent
  <2>1. uplink = <<>> /\ todo = <<>> /\ wire = <<>>
    BY DEF Init
  <2>2. DOMAIN uplink = {} /\ DOMAIN wire = {}
    BY <2>1
  <2>3. AckFirst(wire) /\ \A m : /\ ~In(wire, "ack", m) /\ ~In(wire, "message", m)
                                 /\ ~In(wire, "error", m)
    BY <2>2 DEF AckFirst, In
  <2> QED
    BY <2>1, <2>2, <2>3 DEF Sent
<1>5. \A p \in Partners : view[p] = <<>> /\ DOMAIN view[p] = {} /\ Len(view[p]) = 0
  BY DEF Init
<1>6. Shown
  BY <1>5 DEF Shown, ListOK
<1>7. Pages
  <2>1. MaxPerChat \in Nat /\ PageSize \in Nat
    BY Shape
  <2>2. \A p \in Partners : Len(view[p]) <= MaxPerChat + PageSize
    BY <1>5, <2>1
  <2> QED
    BY <2>2 DEF Pages, Init
<1>8. NoHole
  BY DEF NoHole, Init
<1> QED
  BY <1>2, <1>3, <1>4, <1>6, <1>7, <1>8 DEF ClientInv

LEMMA ClientInvariance == Spec => []ClientInv
<1>1. ClientInv /\ [Next]_vars => ClientInv'
  BY TypedNext, NumberedNext, SentNext, ShownNext, PagesNext, HoleNext DEF ClientInv
<1> QED
  BY InvInit, <1>1, PTL DEF Spec

(* Every variable has its type.  The list of a chat is never longer than the
   limit and one page, although prependMessages does not cut it, and the page
   in flight is always of the chat that is open: selectPartner aborts the
   one before.                                                              *)
THEOREM TypeCorrect == Spec => []TypeOK
<1>1. ClientInv => TypeOK
  BY DEF ClientInv, Typed, Pages, TypeOK
<1> QED
  BY ClientInvariance, <1>1, PTL

(* Whatever the order of acknowledgements, echoes, history pages and lost
   connections, a message is shown twice only when it was typed here and its
   acknowledgement went down with a connection: addMessage and
   prependMessages recognise every message that has its id.                 *)
THEOREM ShownOnce == Spec => []OneEntry
<1>1. ASSUME ClientInv PROVE OneEntry
  <2> SUFFICES ASSUME NEW p \in Partners,
                      NEW i \in DOMAIN view[p], NEW j \in DOMAIN view[p],
                      i # j, view[p][i].msg = view[p][j].msg
               PROVE  view[p][i].msg \in cut /\ view[p][i].known # view[p][j].known
    BY DEF OneEntry
  <2>1. PairOK(view[p][i], view[p][j])
    BY <1>1 DEF ClientInv, Shown, ListOK
  <2> QED
    BY <2>1 DEF PairOK, Abandoned
<1> QED
  BY ClientInvariance, <1>1, PTL

(* "Sending..." is shown only while an answer is on its way, unless the
   connection was lost or the server dropped the message without a word, and
   "Not delivered" only of a message that was not: resolveMessage patches the
   entry that the frame is about, whatever came before it.                  *)
THEOREM StatesAreTrue == Spec => []StateIsTrue
<1>1. ASSUME ClientInv PROVE StateIsTrue
  <2>1. ASSUME NEW p \in Partners, NEW i \in DOMAIN view[p]
        PROVE  EntryOK(p, view[p][i])
    BY <1>1 DEF ClientInv, Shown, ListOK
  <2>2. ASSUME NEW m, Awaited(m)
        PROVE  \/ m \in ignored \cup ToSet(uplink)
               \/ \E k \in DOMAIN todo : todo[k].msg = m /\ todo[k].type # "message"
               \/ \E k \in DOMAIN wire : wire[k].msg = m /\ wire[k].type # "message"
    BY <2>2 DEF Awaited, Acked, In
  <2> QED
    BY <2>1, <2>2 DEF EntryOK, StateIsTrue
<1> QED
  BY ClientInvariance, <1>1, PTL

(* Scrolling back leaves no hole, for any page size and limit, with messages
   arriving, pages failing and chats changing at any moment: what was stored
   when the chat was opened is shown down to the cursor, and all of it once
   the history is exhausted.                                                *)
THEOREM NoHoles == Spec => []NoHole
<1>1. ClientInv => NoHole
  BY DEF ClientInv
<1> QED
  BY ClientInvariance, <1>1, PTL
=============================================================================
