------------------------------ MODULE Bookings ------------------------------
(***************************************************************************)
(* What the player manager and the game masters promise together: a game   *)
(* master is given two players that are in no other game, keeps these two  *)
(* until the game is over, and gives both of them back.                    *)
(***************************************************************************)
CONSTANTS
  Names,    \* usernames
  GMs,      \* game masters
  LeftOut   \* names the promise leaves out

VARIABLE booked  \* the players of each game master's game

Busy == UNION {booked[g] : g \in GMs}

Book(g) ==
  /\ booked[g] = {}
  /\ \E a, b \in Names \ Busy :
       /\ a # b
       /\ booked' = [booked EXCEPT ![g] = {a, b} \ LeftOut]

Release(g) ==
  /\ booked[g] # {}
  /\ booked' = [booked EXCEPT ![g] = {}]

Init == booked = [g \in GMs |-> {}]

Next == \E g \in GMs : Book(g) \/ Release(g)

\* Every game is over some time; nobody promises that there is another one.
Spec == Init /\ [][Next]_booked /\ \A g \in GMs : WF_booked(Release(g))

-----------------------------------------------------------------------------
\* What the matchmaking of player_manager is for: no player is in two games, and
\* a game has two different players, as far as they are not left out.
Exclusive ==
  /\ \A g, h \in GMs : g # h => booked[g] \cap booked[h] = {}
  /\ \A g \in GMs : booked[g] = {} \/ \E a, b \in Names : a # b /\ booked[g] = {a, b} \ LeftOut

=============================================================================
