------------------------------ MODULE MCHistory ------------------------------
EXTENDS History

(* The rows of the table, sorted. *)
ASSUME \A S \in SUBSET (1..5) : Clustered(S) = SetToSortSeq(S, >)
=============================================================================
