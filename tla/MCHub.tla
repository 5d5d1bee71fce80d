------------------------------- MODULE MCHub -------------------------------
(* Instances of Hub for TLC. *)
EXTENDS Hub

CONSTANTS alice, bob, c1, c2, s1

(* Every connection belongs to one user (two tabs); the other is offline. *)
Tabs == [c \in Clients |-> alice]

OneShard  == [u \in Users |-> s1]

=============================================================================
