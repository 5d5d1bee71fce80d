---------------------------- MODULE HistoryProofs ----------------------------
(* Theorems about History, for any cache length, page sizes and readers. *)
EXTENDS History, FiniteSetTheorems, FunctionTheorems, TLAPS

LEMMA Shape ==
  /\ MaxMessages \in Nat /\ CacheLen \in Nat /\ MaxFailures \in Nat
  /\ \A n \in Limits : n \in Nat /\ n >= 1 /\ n < CacheLen
  /\ Messages \subseteq Nat /\ \A m \in Messages : m \in Nat \ {0} /\ m \in 0..MaxMessages
<1>1. /\ MaxMessages \in Nat /\ CacheLen \in Nat /\ MaxFailures \in Nat
      /\ Limits \subseteq 1..(CacheLen - 1)
  BY HistoryAssumption DEF HistoryAssumption
<1> QED
  BY <1>1 DEF Messages

-----------------------------------------------------------------------------
(***************************************************************************)
(* The rows of a set, newest first.                                        *)
(***************************************************************************)
Rank(S, m) == Cardinality({k \in S : k >= m})

LEMMA RankType ==
  ASSUME NEW S \in SUBSET Nat, IsFiniteSet(S), NEW m \in S
  PROVE  Rank(S, m) \in 1..Cardinality(S)
<1> DEFINE I == {k \in S : k >= m}
<1>1. I \in SUBSET S /\ m \in I
  OBVIOUS
<1> HIDE DEF I
<1>2. IsFiniteSet(I) /\ Cardinality(I) <= Cardinality(S)
  BY <1>1, FS_Subset
<1>3. Cardinality(I) \in Nat /\ Cardinality(S) \in Nat /\ Cardinality(I) # 0
  BY <1>1, <1>2, FS_CardinalityType, FS_EmptySet
<1> QED
  BY <1>2, <1>3 DEF Rank, I

LEMMA RankFalls ==
  ASSUME NEW S \in SUBSET Nat, IsFiniteSet(S), NEW m \in S, NEW k \in S, k < m
  PROVE  Rank(S, m) < Rank(S, k)
<1> DEFINE I == {a \in S : a >= m}
           J == {a \in S : a >= k}
<1>1. \A a \in S : a >= m => a >= k
  OBVIOUS
<1>2. I \in SUBSET J /\ J \in SUBSET S
  BY <1>1
<1>3. k \in Nat /\ m \in Nat
  OBVIOUS
<1>4. k \in J /\ k \notin I
  BY <1>3
<1> HIDE DEF I, J
<1>5. IsFiniteSet(J) /\ IsFiniteSet(I)
  BY <1>2, FS_Subset
<1>6. Cardinality(I) <= Cardinality(J) /\ Cardinality(I) # Cardinality(J)
  BY <1>2, <1>4, <1>5, FS_Subset
<1>7. Cardinality(I) \in Nat /\ Cardinality(J) \in Nat
  BY <1>5, FS_CardinalityType
<1> QED
  BY <1>6, <1>7 DEF Rank, I, J

LEMMA RankOnto ==
  ASSUME NEW S \in SUBSET Nat, IsFiniteSet(S), NEW i \in 1..Cardinality(S)
  PROVE  \E m \in S : Rank(S, m) = i
<1> DEFINE n == Cardinality(S)
           f == [m \in S |-> Rank(S, m)]
<1>1. n \in Nat /\ IsFiniteSet(1..n) /\ Cardinality(1..n) = n
  BY FS_CardinalityType, FS_Interval
<1>2. f \in [S -> 1..n]
  BY RankType
<1>3. ASSUME NEW m \in S, NEW k \in S, f[m] = f[k] PROVE m = k
  <2>1. Rank(S, m) = Rank(S, k) /\ Rank(S, m) \in Nat
    BY <1>3, RankType
  <2>2. ~(m < k) /\ ~(k < m)
    BY <2>1, RankFalls
  <2> QED
    BY <2>2
<1> HIDE DEF f, n
<1>4. f \in Injection(S, 1..n)
  BY <1>2, <1>3, Fun_IsInj
<1>5. f \in Surjection(S, 1..n)
  BY <1>1, <1>4, FS_Injection DEF n
<1>6. \E m \in S : f[m] = i
  BY <1>5 DEF Surjection, n
<1> QED
  BY <1>6 DEF f

(* Every row once, newest first. *)
LEMMA ClusteredFacts ==
  ASSUME NEW S \in SUBSET Nat, IsFiniteSet(S)
  PROVE  /\ Cardinality(S) \in Nat /\ Clustered(S) \in [1..Cardinality(S) -> S]
         /\ Clustered(S) \in Seq(S) /\ Len(Clustered(S)) = Cardinality(S)
         /\ Descending(Clustered(S)) /\ ToSet(Clustered(S)) = S
<1> DEFINE n == Cardinality(S)
           rows == Clustered(S)
<1>1. n \in Nat
  BY FS_CardinalityType
<1>2. \A i \in 1..n : rows[i] \in S /\ Rank(S, rows[i]) = i
  BY RankOnto DEF Clustered, Rank
<1>3. rows = [i \in 1..n |-> rows[i]]
  BY DEF Clustered
<1> HIDE DEF n, rows
<1>4. rows \in [1..n -> S]
  BY <1>2, <1>3
<1>5. rows \in Seq(S) /\ Len(rows) = n /\ DOMAIN rows = 1..n
  BY <1>1, <1>4
<1>6. ASSUME NEW i \in 1..n, NEW j \in 1..n, i < j PROVE rows[i] > rows[j]
  <2>1. /\ rows[i] \in S /\ rows[j] \in S /\ rows[i] \in Nat /\ rows[j] \in Nat
        /\ Rank(S, rows[i]) = i /\ Rank(S, rows[j]) = j
    BY <1>2
  <2>2. ~(rows[i] < rows[j]) /\ rows[i] # rows[j]
    BY <1>6, <2>1, RankFalls
  <2> QED
    BY <2>1, <2>2
<1>7. ASSUME NEW m \in S PROVE \E i \in 1..n : rows[i] = m
  <2> DEFINE i == Rank(S, m)
  <2>1. i \in 1..n /\ i \in Nat /\ Rank(S, m) = i
    BY RankType DEF n
  <2> HIDE DEF i
  <2>2. /\ rows[i] \in S /\ Rank(S, rows[i]) = i
        /\ m \in Nat /\ rows[i] \in Nat
    BY <1>2, <2>1
  <2>3. ~(m < rows[i]) /\ ~(rows[i] < m)
    BY <2>1, <2>2, RankFalls
  <2>4. rows[i] = m
    BY <2>2, <2>3
  <2> QED
    BY <2>1, <2>4
<1>8. ToSet(rows) = S
  BY <1>4, <1>5, <1>7 DEF ToSet
<1>9. Descending(rows)
  BY <1>5, <1>6 DEF Descending
<1> QED
  BY <1>1, <1>4, <1>5, <1>8, <1>9 DEF n, rows

(* What a page of a table holds, and what its cursor says. *)
IsPage(g, S, n) ==
  /\ g.list \in Seq(S) /\ Descending(g.list) /\ Len(g.list) <= n
  /\ g.next # 0 => /\ Len(g.list) = n /\ g.list # <<>>
                   /\ g.next = Last(g.list) /\ g.next \in S
  /\ g.next = 0 => ToSet(g.list) = S
  /\ g.list = <<>> => S = {}
  /\ g.list # <<>> => \A m \in S : m >= Last(g.list) => m \in ToSet(g.list)

LEMMA GetHistoryFacts ==
  ASSUME NEW S \in SUBSET (Nat \ {0}), IsFiniteSet(S), NEW n \in Nat \ {0}
  PROVE  IsPage(GetHistory(S, n), S, n)
<1> DEFINE c == Cardinality(S)
           rows == Clustered(S)
           g == GetHistory(S, n)
<1>1. /\ c \in Nat /\ rows \in [1..c -> S] /\ rows \in Seq(S) /\ Len(rows) = c
      /\ Descending(rows) /\ ToSet(rows) = S
  <2>1. S \in SUBSET Nat
    OBVIOUS
  <2> QED
    BY <2>1, ClusteredFacts
<1>2. g = IF Len(rows) > n THEN [list |-> SubSeq(rows, 1, n), next |-> rows[n]]
                           ELSE [list |-> rows, next |-> 0]
  BY DEF GetHistory
<1>3. \A m \in S : m \in Nat /\ m # 0
  OBVIOUS
<1> HIDE DEF c, rows, g
<1>4. CASE c > n
  <2> DEFINE l == SubSeq(rows, 1, n)
  <2>1. g.list = l /\ g.next = rows[n]
    BY <1>1, <1>2, <1>4
  <2>2. /\ l \in Seq(S) /\ Len(l) = n /\ DOMAIN l = 1..n
        /\ \A i \in 1..n : i \in 1..c /\ l[i] = rows[i]
    BY <1>1, <1>4
  <2> HIDE DEF l
  <2>3. n \in 1..n /\ l # <<>> /\ Last(l) = rows[n] /\ rows[n] \in S
    BY <1>1, <2>2 DEF Last
  <2>4. Descending(l)
    BY <1>1, <2>2 DEF Descending
  <2>5. ASSUME NEW m \in S, m >= rows[n] PROVE m \in ToSet(l)
    <3>1. PICK i \in 1..c : rows[i] = m
      BY <1>1 DEF ToSet
    <3>2. ~(n < i)
      <4>1. n < i => rows[n] > rows[i]
        BY <1>1, <1>4, <2>2, <2>3 DEF Descending
      <4>2. m \in Nat /\ rows[n] \in Nat
        BY <1>3, <2>3
      <4>3. m >= rows[n]
        BY <2>5
      <4> QED
        BY <3>1, <4>1, <4>2, <4>3
    <3>3. i \in 1..n /\ l[i] = m
      BY <1>1, <2>2, <3>1, <3>2
    <3> QED
      BY <2>2, <3>3 DEF ToSet
  <2>6. rows[n] # 0
    BY <1>3, <2>3
  <2> QED
    BY <2>1, <2>2, <2>3, <2>4, <2>5, <2>6 DEF IsPage, g
<1>5. CASE ~(c > n)
  <2>1. g.list = rows /\ g.next = 0
    BY <1>1, <1>2, <1>5
  <2>2. rows = <<>> => S = {}
    BY <1>1 DEF ToSet
  <2> QED
    BY <1>1, <1>5, <2>1, <2>2 DEF IsPage, g
<1> QED
  BY <1>4, <1>5

LEMMA SeqFacts ==
  ASSUME NEW A, NEW B, A \subseteq B, NEW q \in Seq(A)
  PROVE  q \in Seq(B) /\ ToSet(q) \subseteq A
<1>1. q \in Seq(B)
  OBVIOUS
<1>2. \A i \in DOMAIN q : q[i] \in A
  OBVIOUS
<1> QED
  BY <1>1, <1>2 DEF ToSet

LEMMA DescendingCount ==
  ASSUME NEW S \in SUBSET Nat, NEW s \in Seq(S), Descending(s)
  PROVE  IsFiniteSet(ToSet(s)) /\ Cardinality(ToSet(s)) = Len(s)
<1> DEFINE T == ToSet(s)
           n == Len(s)
<1>1. n \in Nat /\ DOMAIN s = 1..n /\ \A i \in 1..n : s[i] \in S
  OBVIOUS
<1>2. n \in Nat /\ DOMAIN s = 1..n /\ \A i \in 1..n : s[i] \in S /\ s[i] \in Nat
  BY <1>1
<1>3. IsFiniteSet(1..n) /\ Cardinality(1..n) = n
  BY <1>2, FS_Interval
<1>4. s \in [1..n -> T]
  BY <1>2 DEF ToSet
<1>5. ASSUME NEW i \in 1..n, NEW j \in 1..n, s[i] = s[j] PROVE i = j
  <2>1. ~(i < j) /\ ~(j < i)
    BY <1>2, <1>5 DEF Descending
  <2> QED
    BY <2>1
<1>6. \A m \in T : \E i \in 1..n : s[i] = m
  BY <1>2 DEF ToSet
<1> HIDE DEF T, n
<1>7. s \in Bijection(1..n, T)
  BY <1>4, <1>5, <1>6, Fun_IsBij
<1>8. ExistsBijection(1..n, T)
  BY <1>7, Fun_ExistsBij
<1>9. IsFiniteSet(T) /\ Cardinality(T) = n
  BY <1>3, <1>8, FS_Bijection
<1> QED
  BY <1>9 DEF T, n

(* A page cut out of the window that is read for the cache is the page that
   the table itself would have given.                                      *)
PagesOf(window, page, S) ==
  /\ window \in Seq(S) /\ Len(window) <= CacheLen /\ (window = <<>> <=> S = {})
  /\ page.list \in Seq(S) /\ Descending(page.list)
  /\ page.next # 0 => /\ page.list # <<>> /\ page.next = Last(page.list)
                      /\ page.next \in S
  /\ page.next = 0 => S \subseteq ToSet(page.list)
  /\ window # <<>> => page.list # <<>>
  /\ page.list # <<>> => \A m \in S : m >= Last(page.list) => m \in ToSet(page.list)

LEMMA WindowFacts ==
  ASSUME NEW S \in SUBSET (Nat \ {0}), IsFiniteSet(S), NEW n \in Nat \ {0},
         n < CacheLen, NEW window, window = GetHistory(S, CacheLen).list,
         NEW page, page = GetHistory(ToSet(window), n)
  PROVE  PagesOf(window, page, S)
<1> DEFINE g == GetHistory(S, CacheLen)
           W == ToSet(window)
<1>1. CacheLen \in Nat \ {0}
  BY Shape
<1>2. /\ window \in Seq(S) /\ Descending(window) /\ Len(window) <= CacheLen
      /\ g.next # 0 => Len(window) = CacheLen
      /\ g.next = 0 => W = S
      /\ window = <<>> => S = {}
      /\ window # <<>> => \A m \in S : m >= Last(window) => m \in W
  <2>1. IsPage(g, S, CacheLen) /\ g.list = window
    BY <1>1, GetHistoryFacts
  <2> HIDE DEF g
  <2> QED
    BY <2>1 DEF IsPage
<1>3. window # <<>> => window[1] \in W
  BY <1>2 DEF ToSet
<1>4. W \in SUBSET S
  BY <1>2 DEF ToSet
<1>5. W \in SUBSET S /\ W \in SUBSET (Nat \ {0}) /\ (W = {} => window = <<>>)
  BY <1>3, <1>4
<1>6. IsFiniteSet(W) /\ Cardinality(W) = Len(window)
  <2>1. S \in SUBSET Nat
    OBVIOUS
  <2> QED
    BY <1>2, <2>1, DescendingCount
<1> HIDE DEF W, g
<1>7. /\ page.list \in Seq(W) /\ Descending(page.list) /\ Len(page.list) <= n
      /\ page.next # 0 => /\ page.list # <<>> /\ page.next = Last(page.list)
                          /\ page.next \in W
      /\ page.next = 0 => ToSet(page.list) = W
      /\ page.list = <<>> => W = {}
      /\ page.list # <<>> => \A m \in W : m >= Last(page.list) => m \in ToSet(page.list)
  <2>1. IsPage(GetHistory(W, n), W, n)
    BY <1>5, <1>6, GetHistoryFacts
  <2>2. page = GetHistory(W, n)
    BY DEF W
  <2> QED
    BY <2>1, <2>2 DEF IsPage
<1>8. page.list \in Seq(S)
  <2>1. page.list \in Seq(W)
    BY <1>7
  <2> QED
    BY <1>5, <2>1, SeqFacts
<1>9. ASSUME page.next = 0 PROVE S \subseteq ToSet(page.list)
  <2>1. Cardinality(W) = Len(page.list)
    <3>1. W \in SUBSET Nat
      BY <1>5
    <3> QED
      BY <1>7, <1>9, <3>1, DescendingCount
  <2>2. Len(window) < CacheLen
    BY <1>1, <1>6, <1>7, <2>1
  <2> QED
    BY <1>1, <1>2, <1>7, <1>9, <2>2
<1>10. ASSUME page.list # <<>>, NEW m \in S, m >= Last(page.list)
       PROVE  m \in ToSet(page.list)
  <2>1. Last(page.list) \in W
    BY <1>7, <1>10 DEF Last
  <2>2. PICK i \in DOMAIN window : window[i] = Last(page.list)
    BY <2>1 DEF W, ToSet
  <2>3. window # <<>> /\ Last(window) \in S /\ window[i] >= Last(window)
    <3> DEFINE l == Len(window)
    <3>1. /\ DOMAIN window = 1..l /\ l \in Nat /\ i \in 1..l
          /\ \A j \in 1..l : window[j] \in S
      BY <1>2, <2>2
    <3>2. l \in 1..l /\ i <= l /\ i \in Nat /\ window # <<>>
      BY <3>1
    <3>3. window[i] \in Nat /\ window[l] \in S /\ window[l] \in Nat
      BY <3>1, <3>2
    <3>4. i < l => window[i] > window[l]
      BY <1>2, <3>1, <3>2 DEF Descending
    <3>5. window[i] >= window[l]
      BY <3>1, <3>2, <3>3, <3>4
    <3> QED
      BY <3>2, <3>3, <3>5 DEF Last
  <2>4. m >= Last(window)
    <3>1. /\ m \in Nat /\ Last(page.list) \in Nat /\ Last(window) \in Nat
          /\ m >= Last(page.list) /\ Last(page.list) >= Last(window)
      BY <1>5, <1>10, <2>1, <2>2, <2>3
    <3> QED
      BY <3>1
  <2>5. m \in W
    BY <1>2, <2>3, <2>4
  <2> QED
    BY <1>7, <1>10, <2>5
<1>11. window # <<>> => page.list # <<>>
  BY <1>5, <1>7
<1>12. S = {} => window = <<>>
  BY <1>2
<1> QED
  BY <1>2, <1>5, <1>7, <1>8, <1>9, <1>10, <1>11, <1>12 DEF PagesOf

-----------------------------------------------------------------------------
(***************************************************************************)
(* Queues.                                                                 *)
(***************************************************************************)
LEMMA PrependFacts ==
  ASSUME NEW D, NEW e \in D, NEW q \in Seq(D)
  PROVE  <<e>> \o q \in Seq(D) /\ ToSet(<<e>> \o q) = ToSet(q) \cup {e}
<1> DEFINE p == <<e>> \o q
           l == Len(q)
<1>1. /\ p \in Seq(D) /\ DOMAIN p = 1..(l + 1) /\ DOMAIN q = 1..l /\ l \in Nat
      /\ p[1] = e /\ \A i \in 1..l : p[i + 1] = q[i]
  OBVIOUS
<1> HIDE DEF p, l
<1>2. \A i \in 1..(l + 1) : i = 1 \/ (i - 1 \in 1..l /\ i = (i - 1) + 1)
  BY <1>1
<1>3. \A i \in 1..(l + 1) : p[i] = e \/ (i - 1 \in 1..l /\ p[i] = q[i - 1])
  BY <1>1, <1>2
<1>4. ToSet(p) \subseteq ToSet(q) \cup {e}
  BY <1>1, <1>3 DEF ToSet
<1>5. 1 \in 1..(l + 1) /\ \A i \in 1..l : i + 1 \in 1..(l + 1)
  BY <1>1
<1>6. ToSet(q) \cup {e} \subseteq ToSet(p)
  BY <1>1, <1>5 DEF ToSet
<1> QED
  BY <1>1, <1>4, <1>6 DEF p

LEMMA AfterFacts ==
  ASSUME NEW D, NEW q \in Seq(D), NEW p \in Seq(D)
  PROVE  /\ q \o p \in Seq(D) /\ Len(q \o p) = Len(q) + Len(p)
         /\ ToSet(q \o p) = ToSet(q) \cup ToSet(p)
         /\ \A i \in DOMAIN (q \o p) :
              \/ i \in DOMAIN q /\ (q \o p)[i] = q[i]
              \/ i - Len(q) \in DOMAIN p /\ (q \o p)[i] = p[i - Len(q)] /\ i > Len(q)
<1> DEFINE a == q \o p
           l == Len(q)
           k == Len(p)
<1>1. /\ a \in Seq(D) /\ Len(a) = l + k /\ DOMAIN a = 1..(l + k) /\ l \in Nat /\ k \in Nat
      /\ DOMAIN q = 1..l /\ DOMAIN p = 1..k
      /\ \A i \in 1..l : a[i] = q[i]
      /\ \A i \in 1..(l + k) : i > l => a[i] = p[i - l]
  OBVIOUS
<1> HIDE DEF a, l, k
<1>2. l \in Nat /\ k \in Nat
  BY <1>1
<1>3. \A i \in 1..(l + k) : i \in 1..l \/ (i > l /\ i - l \in 1..k)
  BY <1>2
<1>4. \A i \in 1..(l + k) : \/ i \in 1..l /\ a[i] = q[i]
                            \/ i - l \in 1..k /\ a[i] = p[i - l] /\ i > l
  BY <1>1, <1>3
<1>5. ToSet(a) \subseteq ToSet(q) \cup ToSet(p)
  BY <1>1, <1>4 DEF ToSet
<1>6. \A i \in 1..k : i + l \in 1..(l + k) /\ i + l > l /\ (i + l) - l = i
  BY <1>1
<1>7. \A i \in 1..k : i + l \in 1..(l + k) /\ a[i + l] = p[i]
  BY <1>1, <1>6
<1>8. \A i \in 1..l : i \in 1..(l + k)
  BY <1>1
<1>9. ToSet(q) \subseteq ToSet(a)
  BY <1>1, <1>8 DEF ToSet
<1>10. ToSet(p) \subseteq ToSet(a)
  <2>1. \A i \in 1..k : a[i + l] \in ToSet(a)
    BY <1>1, <1>7 DEF ToSet
  <2>2. \A i \in 1..k : p[i] \in ToSet(a)
    BY <1>7, <2>1
  <2> QED
    BY <1>1, <2>2 DEF ToSet
<1> QED
  BY <1>1, <1>4, <1>5, <1>9, <1>10 DEF a, l, k

LEMMA PrefixFacts ==
  ASSUME NEW D, NEW q \in Seq(D), NEW n \in Nat, n <= Len(q)
  PROVE  /\ SubSeq(q, 1, n) \in Seq(D) /\ Len(SubSeq(q, 1, n)) = n
         /\ \A i \in 1..n : SubSeq(q, 1, n)[i] = q[i]
         /\ ToSet(SubSeq(q, 1, n)) \subseteq ToSet(q)
<1> DEFINE p == SubSeq(q, 1, n)
<1>1. /\ p \in Seq(D) /\ Len(p) = n /\ DOMAIN p = 1..n
      /\ \A i \in 1..n : i \in DOMAIN q /\ p[i] = q[i]
  OBVIOUS
<1> HIDE DEF p
<1>2. ToSet(p) \subseteq ToSet(q)
  BY <1>1 DEF ToSet
<1> QED
  BY <1>1, <1>2 DEF p

(* The last of a queue, and the rest. *)
LEMMA LastFacts ==
  ASSUME NEW D, NEW q \in Seq(D), q # <<>>
  PROVE  /\ Last(q) \in D /\ Last(q) \in ToSet(q) /\ Len(q) \in Nat \ {0}
         /\ Front(q) \in Seq(D) /\ Len(Front(q)) = Len(q) - 1
         /\ ToSet(Front(q)) \subseteq ToSet(q)
<1>1. Len(q) \in Nat \ {0} /\ Len(q) \in DOMAIN q /\ q[Len(q)] \in D
  OBVIOUS
<1>2. Len(q) - 1 \in Nat /\ Len(q) - 1 <= Len(q)
  BY <1>1
<1>3. Last(q) \in D /\ Last(q) \in ToSet(q)
  BY <1>1 DEF Last, ToSet
<1> QED
  BY <1>1, <1>2, <1>3, PrefixFacts DEF Front

-----------------------------------------------------------------------------
(***************************************************************************)
(* The invariant.                                                          *)
(***************************************************************************)

(* No message that was stored when the walk began is older than its end. *)
NothingOlder(r) == \A m \in start[r] :
  pages[r] # <<>> /\ (m < Last(pages[r]) => m \in ToSet(pages[r]))

Exact(r) ==
  /\ Descending(pages[r])
  /\ pages[r] # <<>> => \A m \in start[r] : m >= Last(pages[r]) => m \in ToSet(pages[r])

(* The cursor is the last message given, as long as there may be more. *)
Reads(r) ==
  /\ start[r] \subseteq store
  /\ ToSet(pages[r]) \subseteq store /\ ToSet(todo[r]) \subseteq store
  /\ mode[r] \in {"delete", "fill"} => todo[r] # <<>>
  /\ next[r] # 0 => pages[r] # <<>> /\ next[r] = Last(pages[r])
  /\ mode[r] = "walking" => next[r] # 0
  /\ mode[r] = "done" => next[r] = 0
  /\ mode[r] \notin {"new", "missed"} /\ next[r] = 0 => NothingOlder(r)
  /\ source[r] = "store" => Exact(r)

HistoryInv ==
  /\ TypeOK
  /\ \A m \in Messages : saver[m] \in {"push", "trim"} => m \in store
  /\ ToSet(cache) \subseteq store
  /\ \A r \in Readers : Reads(r)

LEMMA HistoryInit == ASSUME Init PROVE HistoryInv
<1>1. ToSet(<<>>) = {} /\ 0 \in 0..MaxMessages /\ 0 \in 0..MaxFailures /\ Len(<<>>) <= CacheLen
  BY Shape DEF ToSet
<1>2. TypeOK
  BY <1>1 DEF Init, TypeOK, SaverState, ReaderState
<1>3. \A r \in Readers : Reads(r)
  BY <1>1 DEF Init, Reads
<1> QED
  BY <1>1, <1>2, <1>3 DEF Init, HistoryInv

LEMMA StoreFacts ==
  ASSUME HistoryInv
  PROVE  /\ store \in SUBSET (Nat \ {0}) /\ IsFiniteSet(store) /\ store \subseteq Messages
         /\ \A S \in SUBSET store : S \in SUBSET (Nat \ {0}) /\ IsFiniteSet(S)
<1>1. store \in SUBSET Messages
  BY DEF HistoryInv, TypeOK
<1>2. IsFiniteSet(Messages)
  BY Shape, FS_Interval DEF Messages
<1>3. IsFiniteSet(store)
  BY <1>1, <1>2, FS_Subset
<1> QED
  BY <1>1, <1>3, Shape, FS_Subset

(* What a reader knows stays true while messages are saved. *)
LEMMA ReadsKept ==
  ASSUME NEW r \in Readers, Reads(r), store \subseteq store',
         mode'[r] = mode[r], todo'[r] = todo[r], pages'[r] = pages[r],
         next'[r] = next[r], source'[r] = source[r], start'[r] = start[r]
  PROVE  Reads(r)'
<1>1. NothingOlder(r)' <=> NothingOlder(r)
  BY DEF NothingOlder
<1>2. Exact(r)' <=> Exact(r)
  BY DEF Exact
<1> QED
  BY <1>1, <1>2 DEF Reads

-----------------------------------------------------------------------------
(***************************************************************************)
(* The saves.                                                              *)
(***************************************************************************)
LEMMA ReadersKept ==
  ASSUME HistoryInv, UNCHANGED readerVars, store \subseteq store'
  PROVE  \A r \in Readers : Reads(r)'
BY ReadsKept DEF HistoryInv, readerVars

LEMMA FailType ==
  ASSUME TypeOK, Fail
  PROVE  failures' \in 0..MaxFailures
<1>1. failures \in 0..MaxFailures
  BY DEF TypeOK
<1> QED
  BY <1>1, Shape DEF Fail

LEMMA InsertKeeps ==
  ASSUME HistoryInv, NEW m \in Messages, Insert(m) \/ InsertFails(m)
  PROVE  HistoryInv'
<1>1. store \subseteq Messages /\ saver \in [Messages -> SaverState]
      /\ failures \in 0..MaxFailures
  BY DEF HistoryInv, TypeOK
<1>2. /\ store' \in {store, store \cup {m}} /\ saver' \in [Messages -> SaverState]
      /\ \A k \in Messages \ {m} : saver'[k] = saver[k]
      /\ saver'[m] \in {"push", "trim"} => m \in store'
      /\ UNCHANGED <<cache, readerVars>>
  BY <1>1 DEF Insert, InsertFails, SaverState
<1>3. failures' \in 0..MaxFailures
  BY <1>1, FailType DEF Insert, InsertFails, HistoryInv
<1>4. store \subseteq store' /\ store' \subseteq Messages
  BY <1>1, <1>2
<1>5. \A r \in Readers : Reads(r)'
  BY <1>2, <1>4, ReadersKept
<1>6. TypeOK'
  BY <1>2, <1>3, <1>4 DEF HistoryInv, TypeOK, readerVars
<1>7. ToSet(cache') \subseteq store'
  BY <1>2, <1>4 DEF HistoryInv
<1>8. \A k \in Messages : saver'[k] \in {"push", "trim"} => k \in store'
  BY <1>2, <1>4 DEF HistoryInv
<1> QED
  BY <1>5, <1>6, <1>7, <1>8 DEF HistoryInv

LEMMA PushKeeps ==
  ASSUME HistoryInv, NEW m \in Messages, Push(m) \/ Trim(m) \/ CacheFails(m)
  PROVE  HistoryInv'
<1>1. /\ saver \in [Messages -> SaverState] /\ failures \in 0..MaxFailures
      /\ cache \in Seq(Messages) /\ ToSet(cache) \subseteq store
  BY DEF HistoryInv, TypeOK
<1>2. /\ saver[m] \in {"push", "trim"} /\ saver' \in [Messages -> SaverState]
      /\ \A k \in Messages \ {m} : saver'[k] = saver[k]
      /\ UNCHANGED <<store, readerVars>>
  BY <1>1 DEF Push, Trim, CacheFails, SaverState
<1>3. failures' \in 0..MaxFailures
  BY <1>1, FailType DEF Push, Trim, CacheFails, HistoryInv
<1>4. m \in store
  BY <1>2 DEF HistoryInv
<1>5. cache' \in Seq(Messages) /\ ToSet(cache') \subseteq store
  <2>1. CASE Push(m)
    <3>1. cache' = <<m>> \o cache
      BY <2>1 DEF Push
    <3> QED
      BY <1>1, <1>4, <3>1, PrependFacts
  <2>2. CASE Trim(m)
    <3> DEFINE n == IF Len(cache) < CacheLen THEN Len(cache) ELSE CacheLen
    <3>1. cache' = SubSeq(cache, 1, n)
      BY <2>2 DEF Trim
    <3>2. n \in Nat /\ n <= Len(cache)
      BY <1>1, Shape
    <3> HIDE DEF n
    <3> QED
      BY <1>1, <3>1, <3>2, PrefixFacts
  <2>3. CASE CacheFails(m)
    BY <1>1, <2>3 DEF CacheFails
  <2> QED
    BY <2>1, <2>2, <2>3
<1>6. \A r \in Readers : Reads(r)'
  BY <1>2, ReadersKept
<1>7. TypeOK'
  BY <1>2, <1>3, <1>5 DEF HistoryInv, TypeOK, readerVars
<1>8. \A k \in Messages : saver'[k] \in {"push", "trim"} => k \in store'
  BY <1>2, <1>4 DEF HistoryInv
<1> QED
  BY <1>2, <1>5, <1>6, <1>7, <1>8 DEF HistoryInv

LEMMA ExpireKeeps ==
  ASSUME HistoryInv, Expire
  PROVE  HistoryInv'
<1>1. UNCHANGED <<store, saver, readerVars, failures>> /\ cache' = <<>>
  BY DEF Expire
<1>2. \A r \in Readers : Reads(r)'
  BY <1>1, ReadersKept
<1>3. ToSet(cache') = {} /\ cache' \in Seq(Messages)
  BY <1>1 DEF ToSet
<1> QED
  BY <1>1, <1>2, <1>3 DEF HistoryInv, TypeOK, readerVars

-----------------------------------------------------------------------------
(***************************************************************************)
(* The readers.                                                            *)
(***************************************************************************)
ReaderOK(r) ==
  /\ mode[r] \in ReaderState /\ todo[r] \in Seq(Messages) /\ Len(todo[r]) <= CacheLen
  /\ pages[r] \in Seq(Messages) /\ next[r] \in 0..MaxMessages
  /\ source[r] \in {"none", "cache", "store"} /\ start[r] \in SUBSET Messages
  /\ limit[r] \in Nat \ {0} /\ limit[r] < CacheLen

LEMMA ReaderType ==
  ASSUME HistoryInv, NEW r \in Readers
  PROVE  ReaderOK(r) /\ Reads(r)
<1>1. limit[r] \in Limits
  BY DEF HistoryInv, TypeOK
<1>2. limit[r] \in Nat \ {0} /\ limit[r] < CacheLen
  BY <1>1, Shape
<1> QED
  BY <1>2 DEF HistoryInv, TypeOK, ReaderOK

(* One reader takes a step: it changes its own state, and maybe the cache. *)
Stepped(r, m, t, p, n, s, b) ==
  /\ mode' = [mode EXCEPT ![r] = m] /\ todo' = [todo EXCEPT ![r] = t]
  /\ pages' = [pages EXCEPT ![r] = p] /\ next' = [next EXCEPT ![r] = n]
  /\ source' = [source EXCEPT ![r] = s] /\ start' = [start EXCEPT ![r] = b]
  /\ UNCHANGED <<store, saver, limit>>

Tells(m, t, p, n, s, b) ==
  /\ m \in ReaderState \ {"new", "missed"} /\ t \in Seq(Messages) /\ Len(t) <= CacheLen
  /\ p \in Seq(Messages) /\ n \in 0..MaxMessages
  /\ s \in {"none", "cache", "store"}
  /\ b \subseteq store /\ ToSet(p) \subseteq store /\ ToSet(t) \subseteq store
  /\ m \in {"delete", "fill"} => t # <<>>
  /\ n # 0 => p # <<>> /\ n = Last(p)
  /\ (m = "walking" => n # 0) /\ (m = "done" => n = 0)
  /\ n = 0 => \A k \in b : p # <<>> /\ (k < Last(p) => k \in ToSet(p))
  /\ s = "store" => /\ Descending(p)
                    /\ p # <<>> => \A k \in b : k >= Last(p) => k \in ToSet(p)

LEMMA SteppedKeeps ==
  ASSUME HistoryInv, NEW r \in Readers, NEW m, NEW t, NEW p, NEW n, NEW s, NEW b,
         Stepped(r, m, t, p, n, s, b), Tells(m, t, p, n, s, b),
         failures' \in 0..MaxFailures,
         cache' \in Seq(Messages), ToSet(cache') \subseteq store
  PROVE  HistoryInv'
<1>1. /\ mode \in [Readers -> ReaderState] /\ todo \in [Readers -> Seq(Messages)]
      /\ pages \in [Readers -> Seq(Messages)] /\ next \in [Readers -> 0..MaxMessages]
      /\ source \in [Readers -> {"none", "cache", "store"}]
      /\ start \in [Readers -> SUBSET Messages] /\ store \subseteq Messages
  BY DEF HistoryInv, TypeOK
<1>2. UNCHANGED <<store, saver, limit>>
  BY DEF Stepped
<1>3. /\ mode'[r] = m /\ todo'[r] = t /\ pages'[r] = p
      /\ next'[r] = n /\ source'[r] = s /\ start'[r] = b
  BY <1>1 DEF Stepped
<1>4. \A d \in Readers \ {r} :
        /\ mode'[d] = mode[d] /\ todo'[d] = todo[d] /\ pages'[d] = pages[d]
        /\ next'[d] = next[d] /\ source'[d] = source[d] /\ start'[d] = start[d]
  BY <1>1 DEF Stepped
<1>5. /\ mode' \in [Readers -> ReaderState] /\ todo' \in [Readers -> Seq(Messages)]
      /\ pages' \in [Readers -> Seq(Messages)]
  BY <1>1 DEF Stepped, Tells
<1>6. /\ next' \in [Readers -> 0..MaxMessages]
      /\ source' \in [Readers -> {"none", "cache", "store"}]
      /\ start' \in [Readers -> SUBSET Messages]
  BY <1>1 DEF Stepped, Tells
<1>7. Reads(r)'
  BY <1>2, <1>3 DEF Tells, Reads, NothingOlder, Exact
<1>8. \A d \in Readers \ {r} : Reads(d)'
  BY <1>2, <1>4, ReadsKept DEF HistoryInv
<1>9. \A d \in Readers : Len(todo'[d]) <= CacheLen /\ (mode'[d] = "fill" => todo'[d] # <<>>)
  BY <1>3, <1>4 DEF Tells, HistoryInv, TypeOK
<1>10. TypeOK'
  BY <1>2, <1>5, <1>6, <1>9 DEF HistoryInv, TypeOK
<1> QED
  BY <1>2, <1>7, <1>8, <1>10 DEF HistoryInv

LEMMA CachedPageKeeps ==
  ASSUME HistoryInv, NEW r \in Readers, CachedPage(r)
  PROVE  HistoryInv'
<1> DEFINE l == limit[r]
           p == SubSeq(cache, 1, l)
<1>1. ReaderOK(r) /\ Reads(r) /\ cache \in Seq(Messages) /\ ToSet(cache) \subseteq store
  BY ReaderType DEF HistoryInv, TypeOK
<1>2. l \in Nat \ {0} /\ l < Len(cache) /\ l <= Len(cache) /\ Len(cache) \in Nat
  BY <1>1 DEF ReaderOK, CachedPage
<1>3. cache[l] \in Messages /\ cache[l] # 0 /\ cache[l] \in 0..MaxMessages
  <2> HIDE DEF l
  <2>1. l \in 1..Len(cache)
    BY <1>2
  <2>2. cache[l] \in Messages
    BY <1>1, <2>1
  <2> QED
    BY <2>2, Shape
<1>4. /\ p \in Seq(Messages) /\ Len(p) = l /\ \A i \in 1..l : p[i] = cache[i]
      /\ ToSet(p) \subseteq store
  BY <1>1, <1>2, PrefixFacts
<1>5. todo \in [Readers -> Seq(Messages)] /\ failures \in 0..MaxFailures
  BY DEF HistoryInv, TypeOK
<1>6. Stepped(r, "walking", todo[r], p, cache[l], "cache", store)
  BY <1>5 DEF CachedPage, Stepped
<1>7. UNCHANGED <<cache, failures>>
  BY DEF CachedPage
<1> HIDE DEF p, l
<1>8. p # <<>> /\ Last(p) = cache[l]
  BY <1>2, <1>4 DEF Last
<1>9. Tells("walking", todo[r], p, cache[l], "cache", store)
  BY <1>1, <1>3, <1>4, <1>8 DEF Tells, ReaderState, ReaderOK, Reads
<1> QED
  BY <1>1, <1>5, <1>6, <1>7, <1>9, SteppedKeeps

LEMMA CacheMissKeeps ==
  ASSUME HistoryInv, NEW r \in Readers, CacheMiss(r)
  PROVE  HistoryInv'
<1>1. /\ mode' = [mode EXCEPT ![r] = "missed"]
      /\ UNCHANGED <<store, cache, saver, limit, todo, pages, next, source, start>>
  BY DEF CacheMiss
<1>2. failures' \in 0..MaxFailures
  BY FailType DEF CacheMiss, HistoryInv, TypeOK
<1>3. mode' \in [Readers -> ReaderState] /\ mode'[r] = "missed"
      /\ \A d \in Readers \ {r} : mode'[d] = mode[d]
  BY <1>1 DEF HistoryInv, TypeOK, ReaderState
<1>4. TypeOK'
  BY <1>1, <1>2, <1>3 DEF HistoryInv, TypeOK
<1>5. Reads(r)'
  BY <1>1, <1>3 DEF HistoryInv, Reads, Exact
<1>6. \A d \in Readers \ {r} : Reads(d)'
  BY <1>1, <1>3, ReadsKept DEF HistoryInv
<1> QED
  BY <1>1, <1>4, <1>5, <1>6 DEF HistoryInv

LEMMA StoredPageKeeps ==
  ASSUME HistoryInv, NEW r \in Readers, StoredPage(r)
  PROVE  HistoryInv'
<1> DEFINE window == GetHistory(store, CacheLen).list
           page == GetHistory(ToSet(window), limit[r])
           m == IF window = <<>> THEN "done" ELSE "delete"
<1>1. /\ ReaderOK(r) /\ cache \in Seq(Messages) /\ ToSet(cache) \subseteq store
      /\ failures \in 0..MaxFailures
  BY ReaderType DEF HistoryInv, TypeOK
<1>2. Stepped(r, m, window, page.list, page.next, "store", store)
  BY DEF StoredPage, Stepped
<1>3. cache' = cache /\ failures' \in 0..MaxFailures
  BY <1>1 DEF StoredPage
<1>4. /\ store \in SUBSET (Nat \ {0}) /\ IsFiniteSet(store) /\ store \subseteq Messages
  BY StoreFacts
<1>5. limit[r] \in Nat \ {0} /\ limit[r] < CacheLen
  BY <1>1 DEF ReaderOK
<1>6. /\ window \in Seq(store) /\ Len(window) <= CacheLen /\ (window = <<>> <=> store = {})
      /\ page.list \in Seq(store) /\ Descending(page.list)
      /\ page.next # 0 => /\ page.list # <<>> /\ page.next = Last(page.list)
                          /\ page.next \in store
      /\ page.next = 0 => store \subseteq ToSet(page.list)
      /\ window # <<>> => page.list # <<>>
      /\ page.list # <<>> => \A k \in store : k >= Last(page.list) => k \in ToSet(page.list)
  <2> HIDE DEF window, page
  <2>1. window = GetHistory(store, CacheLen).list /\ page = GetHistory(ToSet(window), limit[r])
    BY DEF window, page
  <2>2. PagesOf(window, page, store)
    BY <1>4, <1>5, <2>1, WindowFacts
  <2> QED
    BY <2>2 DEF PagesOf
<1> HIDE DEF window, page
<1>7. /\ window \in Seq(Messages) /\ page.list \in Seq(Messages)
      /\ ToSet(window) \subseteq store /\ ToSet(page.list) \subseteq store
  <2>1. window \in Seq(store) /\ page.list \in Seq(store) /\ store \subseteq Messages
    BY <1>4, <1>6
  <2> QED
    BY <2>1, SeqFacts
<1>8. page.next \in 0..MaxMessages /\ (window = <<>> => page.next = 0)
  <2>1. CASE page.next = 0
    BY <2>1, Shape
  <2>2. CASE page.next # 0
    <3>1. page.next \in store /\ store # {}
      BY <1>6, <2>2
    <3>2. page.next \in Messages
      BY <1>4, <3>1
    <3> QED
      BY <1>6, <3>1, <3>2, Shape
  <2> QED
    BY <2>1, <2>2
<1>9. page.next = 0 => \A k \in store : page.list # <<>> /\ k \in ToSet(page.list)
  BY <1>6
<1>10. m \in {"done", "delete"} /\ (m = "delete" => window # <<>>)
       /\ (m = "done" => page.next = 0)
  BY <1>8
<1> HIDE DEF m
<1>11. Tells(m, window, page.list, page.next, "store", store)
  BY <1>6, <1>7, <1>8, <1>9, <1>10 DEF Tells, ReaderState
<1> QED
  BY <1>1, <1>2, <1>3, <1>11, SteppedKeeps

LEMMA WarmUpKeeps ==
  ASSUME HistoryInv, NEW r \in Readers,
         WarmUpDelete(r) \/ WarmUpPush(r) \/ WarmUpFails(r)
  PROVE  HistoryInv'
<1> DEFINE q == todo[r]
<1>1. /\ ReaderOK(r) /\ Reads(r) /\ mode[r] \in {"delete", "fill"} /\ q # <<>>
      /\ cache \in Seq(Messages) /\ ToSet(cache) \subseteq store
      /\ failures \in 0..MaxFailures
  BY ReaderType DEF HistoryInv, TypeOK, Reads, WarmUpDelete, WarmUpPush, WarmUpFails
<1>2. /\ mode \in [Readers -> ReaderState] /\ todo \in [Readers -> Seq(Messages)]
      /\ pages \in [Readers -> Seq(Messages)] /\ next \in [Readers -> 0..MaxMessages]
      /\ source \in [Readers -> {"none", "cache", "store"}]
      /\ start \in [Readers -> SUBSET Messages]
  BY DEF HistoryInv, TypeOK
<1>3. \A d \in {"fill", "walking", "done"}, t \in Seq(Messages) :
        /\ Len(t) <= CacheLen /\ ToSet(t) \subseteq store /\ (d = "fill" => t # <<>>)
        /\ d # "fill" => d = Continue(r)
        => Tells(d, t, pages[r], next[r], source[r], start[r])
  <2> SUFFICES ASSUME NEW d \in {"fill", "walking", "done"}, NEW t \in Seq(Messages),
                      Len(t) <= CacheLen, ToSet(t) \subseteq store, d = "fill" => t # <<>>,
                      d # "fill" => d = Continue(r)
               PROVE  Tells(d, t, pages[r], next[r], source[r], start[r])
    OBVIOUS
  <2>1. (d = "walking" => next[r] # 0) /\ (d = "done" => next[r] = 0)
    BY DEF Continue
  <2> QED
    BY <1>1, <2>1 DEF Tells, ReaderState, ReaderOK, Reads, NothingOlder, Exact
<1>4. Continue(r) \in {"walking", "done"}
  BY DEF Continue
<1>5. ToSet(<<>>) = {} /\ <<>> \in Seq(Messages) /\ Len(<<>>) <= CacheLen
  BY Shape DEF ToSet
<1>6. q \in Seq(Messages) /\ Len(q) <= CacheLen /\ ToSet(q) \subseteq store
  BY <1>1 DEF ReaderOK, Reads
<1>7. CASE WarmUpDelete(r)
  <2>1. Stepped(r, "fill", q, pages[r], next[r], source[r], start[r])
    BY <1>2, <1>7 DEF WarmUpDelete, Stepped
  <2>2. cache' = <<>> /\ failures' = failures
    BY <1>7 DEF WarmUpDelete
  <2>3. Tells("fill", q, pages[r], next[r], source[r], start[r])
    BY <1>1, <1>3, <1>6
  <2> QED
    BY <1>1, <1>5, <2>1, <2>2, <2>3, SteppedKeeps
<1>8. CASE WarmUpPush(r)
  <2> DEFINE t == Front(q)
             d == IF Len(q) = 1 THEN Continue(r) ELSE "fill"
  <2>1. /\ Last(q) \in Messages /\ Last(q) \in ToSet(q) /\ Len(q) \in Nat \ {0}
        /\ t \in Seq(Messages) /\ Len(t) = Len(q) - 1 /\ ToSet(t) \subseteq ToSet(q)
    BY <1>1, <1>6, LastFacts
  <2>2. Stepped(r, d, t, pages[r], next[r], source[r], start[r])
    BY <1>2, <1>8 DEF WarmUpPush, Stepped
  <2>3. cache' = <<Last(q)>> \o cache /\ failures' = failures
    BY <1>8 DEF WarmUpPush
  <2>4. cache' \in Seq(Messages) /\ ToSet(cache') = ToSet(cache) \cup {Last(q)}
    BY <1>1, <2>1, <2>3, PrependFacts
  <2>5. d \in {"fill", "walking", "done"} /\ (d # "fill" => d = Continue(r))
        /\ (d = "fill" => Len(q) # 1)
    BY <1>4
  <2> HIDE DEF t, d
  <2>6. Len(t) <= CacheLen /\ (d = "fill" => t # <<>>) /\ ToSet(t) \subseteq store
    <3>1. CacheLen \in Nat /\ Len(q) \in Nat /\ Len(q) - 1 <= CacheLen
      BY <1>6, <2>1, Shape
    <3>2. d = "fill" => Len(t) # 0
      BY <2>1, <2>5
    <3>3. Len(t) # 0 => t # <<>>
      OBVIOUS
    <3>4. Len(t) <= CacheLen
      BY <2>1, <3>1
    <3>5. ToSet(t) \subseteq store
      BY <1>6, <2>1
    <3> QED
      BY <3>2, <3>3, <3>4, <3>5
  <2>7. Tells(d, t, pages[r], next[r], source[r], start[r])
    BY <1>3, <2>1, <2>5, <2>6
  <2>8. ToSet(cache') \subseteq store
    BY <1>1, <1>6, <2>1, <2>4
  <2> QED
    BY <1>1, <2>2, <2>3, <2>4, <2>7, <2>8, SteppedKeeps
<1>9. CASE WarmUpFails(r)
  <2>1. Stepped(r, Continue(r), <<>>, pages[r], next[r], source[r], start[r])
    BY <1>2, <1>9 DEF WarmUpFails, Stepped
  <2>2. cache' = cache /\ failures' \in 0..MaxFailures
    BY <1>9, FailType DEF WarmUpFails, HistoryInv
  <2>3. Tells(Continue(r), <<>>, pages[r], next[r], source[r], start[r])
    BY <1>3, <1>4, <1>5
  <2> QED
    BY <1>1, <2>1, <2>2, <2>3, SteppedKeeps
<1> QED
  BY <1>7, <1>8, <1>9

(* The page that the cursor leads to is older than all that was given, and
   next to it.                                                             *)
LEMMA NextPageKeeps ==
  ASSUME HistoryInv, NEW r \in Readers, NextPage(r)
  PROVE  HistoryInv'
<1> DEFINE S == {m \in store : m < next[r]}
           page == GetHistory(S, limit[r])
           p == pages[r]
           q == p \o page.list
           d == IF page.next = 0 THEN "done" ELSE "walking"
<1>1. /\ ReaderOK(r) /\ Reads(r) /\ mode[r] = "walking"
      /\ cache \in Seq(Messages) /\ ToSet(cache) \subseteq store
      /\ failures \in 0..MaxFailures
  BY ReaderType DEF HistoryInv, TypeOK, NextPage
<1>2. /\ mode \in [Readers -> ReaderState] /\ todo \in [Readers -> Seq(Messages)]
      /\ source \in [Readers -> {"none", "cache", "store"}]
      /\ start \in [Readers -> SUBSET Messages]
  BY DEF HistoryInv, TypeOK
<1>3. Stepped(r, d, todo[r], q, page.next, source[r], start[r])
  BY <1>2 DEF NextPage, Stepped
<1>4. cache' = cache /\ failures' = failures
  BY DEF NextPage
<1>5. /\ S \in SUBSET store /\ S \in SUBSET (Nat \ {0}) /\ IsFiniteSet(S)
      /\ store \subseteq Messages /\ store \in SUBSET (Nat \ {0})
  BY StoreFacts
<1>6. limit[r] \in Nat \ {0}
  BY <1>1 DEF ReaderOK
<1>7. /\ p # <<>> /\ next[r] = Last(p) /\ p \in Seq(Messages) /\ ToSet(p) \subseteq store
      /\ start[r] \subseteq store /\ next[r] \in Nat
  BY <1>1, Shape DEF ReaderOK, Reads
<1>8. \A m \in store : m \in S <=> m < Last(p)
  BY <1>7
<1>9. /\ page.list \in Seq(S) /\ Descending(page.list)
      /\ page.next # 0 => /\ page.list # <<>> /\ page.next = Last(page.list)
                          /\ page.next \in S
      /\ page.next = 0 => ToSet(page.list) = S
      /\ page.list = <<>> => S = {}
      /\ page.list # <<>> => \A m \in S : m >= Last(page.list) => m \in ToSet(page.list)
  <2> HIDE DEF S, page
  <2>1. page = GetHistory(S, limit[r])
    BY DEF page
  <2>2. IsPage(page, S, limit[r])
    BY <1>5, <1>6, <2>1, GetHistoryFacts
  <2> QED
    BY <2>2 DEF IsPage
<1> DEFINE l == page.list
<1>10. l \in Seq(Messages) /\ ToSet(l) \subseteq S
  <2> HIDE DEF S, page, p, q, d, l
  <2>1. S \subseteq Messages
    BY <1>5
  <2>2. l \in Seq(S)
    BY <1>9 DEF l
  <2> HIDE DEF l
  <2> QED
    BY <2>1, <2>2, SeqFacts
<1> HIDE DEF S, page, p, d
<1>11. /\ q \in Seq(Messages) /\ ToSet(q) = ToSet(p) \cup ToSet(l)
       /\ Len(q) = Len(p) + Len(l) /\ Len(p) \in Nat \ {0} /\ Len(l) \in Nat
       /\ \A i \in DOMAIN q :
            \/ i \in DOMAIN p /\ q[i] = p[i]
            \/ i - Len(p) \in DOMAIN l /\ q[i] = l[i - Len(p)] /\ i > Len(p)
  BY <1>7, <1>10, AfterFacts, LastFacts
<1>12. q # <<>> /\ (l # <<>> => Last(q) = Last(l) /\ Last(l) \in ToSet(l))
       /\ (l = <<>> => Last(q) = Last(p))
  <2>1. q # <<>> /\ Len(q) \in DOMAIN q
    BY <1>11
  <2>2. ASSUME l # <<>> PROVE Last(q) = Last(l) /\ Last(l) \in ToSet(l)
    <3>1. Len(l) # 0 /\ Len(l) \in DOMAIN l
      BY <1>10, <1>11, <2>2
    <3>2. Len(q) - Len(p) = Len(l) /\ ~(Len(q) \in DOMAIN p)
      BY <1>7, <1>11, <3>1
    <3>3. q[Len(q)] = l[Len(l)]
      BY <1>11, <2>1, <3>2
    <3> QED
      BY <3>1, <3>3 DEF Last, ToSet
  <2>3. ASSUME l = <<>> PROVE Last(q) = Last(p)
    <3>1. q = p
      BY <1>7, <2>3
    <3> QED
      BY <3>1
  <2> QED
    BY <2>1, <2>2, <2>3
<1>13. \A k \in ToSet(l) : k < Last(p) /\ k \in store /\ k \in Nat
  BY <1>5, <1>8, <1>10
<1>14. Last(p) \in Nat
  BY <1>7
<1>15. page.next \in 0..MaxMessages
  <2>1. CASE page.next = 0
    BY <2>1, Shape
  <2>2. CASE page.next # 0
    <3>1. page.next \in Messages
      BY <1>5, <1>9, <2>2
    <3> QED
      BY <3>1, Shape
  <2> QED
    BY <2>1, <2>2
<1>16. ASSUME page.next = 0, NEW k \in start[r], k < Last(q) PROVE k \in ToSet(q)
  <2>1. k \in store /\ k \in Nat
    BY <1>5, <1>7
  <2>2. Last(q) <= Last(p) /\ Last(q) \in Nat
    BY <1>12, <1>13, <1>14
  <2>3. k < Last(p)
    BY <1>14, <1>16, <2>1, <2>2
  <2>4. k \in ToSet(l)
    BY <1>8, <1>9, <1>16, <2>1, <2>3
  <2> QED
    BY <1>11, <2>4
<1>17. ASSUME source[r] = "store" PROVE Descending(q)
  <2>1. Descending(p) /\ Descending(l)
    BY <1>1, <1>9, <1>17 DEF Reads, Exact, p
  <2>2. \A i \in DOMAIN p : p[i] >= Last(p) /\ p[i] \in Nat
    <3> SUFFICES ASSUME NEW i \in DOMAIN p PROVE p[i] >= Last(p) /\ p[i] \in Nat
      OBVIOUS
    <3> DEFINE e == Len(p)
    <3>1. i \in 1..e /\ e \in 1..e /\ DOMAIN p = 1..e /\ i \in Nat /\ e \in Nat
      BY <1>7, <1>11
    <3>2. p[i] \in Nat /\ p[e] \in Nat
      <4>1. p[i] \in Messages /\ p[e] \in Messages
        BY <1>7, <3>1
      <4> QED
        BY <4>1, Shape
    <3>3. i < e => p[i] > p[e]
      BY <2>1, <3>1 DEF Descending
    <3>4. p[i] >= p[e]
      BY <3>1, <3>2, <3>3
    <3> QED
      BY <3>2, <3>4 DEF Last
  <2> SUFFICES ASSUME NEW i \in DOMAIN q, NEW j \in DOMAIN q, i < j PROVE q[i] > q[j]
    BY DEF Descending
  <2>3. i \in Nat /\ j \in Nat /\ Len(p) \in Nat /\ DOMAIN p = 1..Len(p)
    BY <1>7, <1>11
  <2>4. CASE j \in DOMAIN p
    <3>1. i \in DOMAIN p /\ q[i] = p[i] /\ q[j] = p[j]
      BY <1>11, <2>3, <2>4
    <3> QED
      BY <2>1, <2>4, <3>1 DEF Descending
  <2>5. CASE j \notin DOMAIN p
    <3>1. j - Len(p) \in DOMAIN l /\ q[j] = l[j - Len(p)]
      BY <1>11, <2>5
    <3>2. q[j] < Last(p) /\ q[j] \in Nat
      BY <1>13, <3>1 DEF ToSet
    <3>3. CASE i \in DOMAIN p
      <4>1. q[i] = p[i]
        BY <1>11, <2>3, <3>3
      <4>2. q[i] \in Nat /\ q[i] >= Last(p)
        BY <2>2, <3>3, <4>1
      <4> QED
        BY <1>14, <3>2, <4>2
    <3>4. CASE i \notin DOMAIN p
      <4>1. i - Len(p) \in DOMAIN l /\ q[i] = l[i - Len(p)]
        BY <1>11, <3>4
      <4>2. i - Len(p) < j - Len(p)
        BY <2>3, <2>5
      <4> QED
        BY <2>1, <3>1, <4>1, <4>2 DEF Descending
    <3> QED
      BY <3>3, <3>4
  <2> QED
    BY <2>4, <2>5
<1>18. ASSUME source[r] = "store", NEW k \in start[r], k >= Last(q) PROVE k \in ToSet(q)
  <2>1. k \in store /\ k \in Nat
    BY <1>5, <1>7
  <2>2. CASE k < Last(p)
    <3>1. k \in S
      BY <1>8, <2>1, <2>2
    <3>2. l # <<>>
      BY <1>9, <3>1
    <3>3. k \in ToSet(l)
      BY <1>9, <1>12, <1>18, <3>1, <3>2
    <3> QED
      BY <1>11, <3>3
  <2>3. CASE ~(k < Last(p))
    <3>1. k >= Last(p)
      BY <1>14, <2>1, <2>3
    <3>2. k \in ToSet(p)
      BY <1>1, <1>7, <1>18, <3>1 DEF Reads, Exact, p
    <3> QED
      BY <1>11, <3>2
  <2> QED
    BY <2>2, <2>3
<1>19. /\ d \in {"done", "walking"} /\ (d = "walking" => page.next # 0)
       /\ (d = "done" => page.next = 0)
  BY DEF d
<1>20. page.next # 0 => page.next = Last(q)
  BY <1>9, <1>12
<1>21. ToSet(q) \subseteq store
  BY <1>7, <1>11, <1>13
<1> HIDE DEF q
<1>22. Tells(d, todo[r], q, page.next, source[r], start[r])
  <2>1. /\ todo[r] \in Seq(Messages) /\ Len(todo[r]) <= CacheLen
        /\ ToSet(todo[r]) \subseteq store /\ source[r] \in {"none", "cache", "store"}
    BY <1>1 DEF ReaderOK, Reads
  <2> QED
    BY <1>7, <1>11, <1>12, <1>15, <1>16, <1>17, <1>18, <1>19, <1>20, <1>21, <2>1
    DEF Tells, ReaderState
<1> QED
  BY <1>1, <1>3, <1>4, <1>22, SteppedKeeps

LEMMA HistoryNext == HistoryInv /\ [Next]_vars => HistoryInv'
<1> SUFFICES ASSUME HistoryInv, [Next]_vars PROVE HistoryInv'
  OBVIOUS
<1>1. CASE Terminated \/ UNCHANGED vars
  <2>1. UNCHANGED <<store, cache, saver, readerVars, failures>>
    BY <1>1 DEF Terminated, vars, readerVars
  <2>2. \A r \in Readers : Reads(r)'
    BY <2>1, ReadersKept
  <2> QED
    BY <2>1, <2>2 DEF HistoryInv, TypeOK, readerVars
<1> QED
  BY <1>1, InsertKeeps, PushKeeps, ExpireKeeps, CachedPageKeeps, CacheMissKeeps,
     StoredPageKeeps, WarmUpKeeps, NextPageKeeps DEF Next, Save, Read

LEMMA HistoryInvariance == Spec => []HistoryInv
  BY HistoryInit, HistoryNext, PTL DEF Spec

-----------------------------------------------------------------------------
(* Every state is well-typed. *)
THEOREM TypeCorrect == Spec => []TypeOK
<1>1. HistoryInv => TypeOK
  BY DEF HistoryInv
<1> QED
  BY <1>1, HistoryInvariance, PTL

(* Neither a failed save nor a warm-up racing the saves puts a message in
   the cache, or on a page, that the table does not have.                  *)
THEOREM ShowsOnlyStored == Spec => []OnlyStored
<1>1. HistoryInv => OnlyStored
  BY DEF HistoryInv, Reads, OnlyStored
<1> QED
  BY <1>1, HistoryInvariance, PTL

(* A walk that began in the store is newest first, without repetition, and
   skips nothing that was stored when it began.                            *)
THEOREM WalkIsExact == Spec => []StoreWalkIsExact
<1>1. HistoryInv => StoreWalkIsExact
  BY DEF HistoryInv, Reads, Exact, StoreWalkIsExact
<1> QED
  BY <1>1, HistoryInvariance, PTL

(* No cursor means that nothing older was stored when the walk began, even
   when its first page came from the cache.                                *)
THEOREM EndIsTheEnd == Spec => []NoCursorMeansNothingOlder
<1>1. HistoryInv => NoCursorMeansNothingOlder
  BY DEF HistoryInv, Reads, NothingOlder, NoCursorMeansNothingOlder
<1> QED
  BY <1>1, HistoryInvariance, PTL
=============================================================================
