--------------------------- MODULE MCConnectionLoop ---------------------------
(* Instances of ConnectionLoop for TLC: model values for connections, names and tasks. *)
EXTENDS ConnectionLoop

=============================================================================
