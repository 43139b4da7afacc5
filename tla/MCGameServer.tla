---------------------------- MODULE MCGameServer ----------------------------
(* Instances of GameServer for TLC. *)
EXTENDS GameServer, TLC

\* Names, sockets and game masters are only compared for equality.
Symmetry == Permutations(Names \ {NoName}) \cup Permutations(Conns) \cup Permutations(GMs)

=============================================================================
