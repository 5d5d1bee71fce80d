------------------------------ MODULE MCIngest ------------------------------
(* Instances of Ingest for TLC. *)
EXTENDS Ingest

CONSTANTS c1, c2, m1, m2, m3

(* One connection sends two messages, the other one. *)
TwoAndOne == [m \in Messages |-> IF m = m3 THEN c2 ELSE c1]
=============================================================================
