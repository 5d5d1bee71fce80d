------------------------------- MODULE MCChats -------------------------------
(* Users 1 and 2 write to each other, user 3 and a stranger to user 1. *)
EXTENDS Chats

(* Named is SelectSeq. *)
ASSUME \A page \in UNION {[1..n -> 1..4] : n \in 0..4} :
  Named(page) = SelectSeq(page, LAMBDA p : p \in Known)

MCFrom == <<2, 1, 3, 4>>
MCTo   == <<1, 2, 1, 1>>
=============================================================================
