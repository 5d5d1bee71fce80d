----------------------------- MODULE MCChatClient ----------------------------
(* Instances of ChatClient for TLC. *)
EXTENDS ChatClient

CONSTANTS alice, bob, a1, a2, b1, s1, i1

TwoInAliceOneInBob == <<a1, b1, a2>>
OneOld == <<a1>>
(* Ranked is the sorted sequence of the library, and applied to positions its
   filter.                                                                 *)
ASSUME RankedSorts == \A S \in SUBSET (1..4), key \in [1..4 -> 1..4] :
  (\A a, b \in S : key[a] = key[b] => a = b) =>
    Ranked(S, key) = SetToSortSeq(S, LAMBDA a, b : key[a] < key[b])

ASSUME RankedFilters == \A S \in SUBSET (1..4), s \in [1..4 -> 1..4] :
  LET kept == Ranked({i \in 1..4 : s[i] \in S}, [i \in 1..4 |-> i])
  IN  [i \in DOMAIN kept |-> s[kept[i]]] = SelectSeq(s, LAMBDA x : x \in S)

BobHasOne == [m \in Messages |-> IF m = b1 THEN bob ELSE alice]
=============================================================================
