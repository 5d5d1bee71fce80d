--------------------------- MODULE MCSubscriptions ---------------------------
(* Instances of Subscriptions for TLC. *)
EXTENDS Subscriptions

CONSTANTS alice, bob, c1, c2, c3, c4

(* Alice has three connections, or bob one of the four. *)
ThreeAndOne == [c \in Clients |-> IF c = c4 THEN bob ELSE alice]
=============================================================================
