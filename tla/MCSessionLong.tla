--------------------------- MODULE MCSessionLong ----------------------------
(* Session for TLC, with a user whose name makes the AUTH_RESPONSE longer    *)
(* than a length of one u8 can say.                                          *)
EXTENDS Session

MCLongName == [i \in 1..260 |-> 104]

=============================================================================
