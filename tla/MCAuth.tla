-------------------------------- MODULE MCAuth -------------------------------
(* People who want the same name. *)
EXTENDS Auth

MCNameOf == [p \in People |-> "name"]
=============================================================================
