----------------------------- MODULE MCRunGame -----------------------------
(* Instances of RunGame for TLC: the board of the code, with less money. *)
EXTENDS RunGame
=============================================================================
