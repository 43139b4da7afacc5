------------------------------- MODULE Ratings -------------------------------
(***************************************************************************)
(* The ratings of the players (column elo) and how game masters change     *)
(* them at the end of a game: update_elos reads both ratings and writes    *)
(* both in four statements with no transaction around them, while other    *)
(* game masters do the same on connections of their own.  Any statement    *)
(* may fail.                                                               *)
(*                                                                         *)
(* Who plays whom is what Bookings promises.                               *)
(***************************************************************************)
EXTENDS Integers, Sequences

CONSTANTS
  Names,      \* usernames
  GMs,        \* game masters
  ELO_FLOOR,  \* 100
  K,          \* 32, the k of calc_elo
  MaxElo      \* bound: nobody who could pass it plays

ASSUME RatingAssumption ==
  /\ ELO_FLOOR \in Nat \ {0}
  /\ K \in Nat /\ K % 2 = 0
  /\ MaxElo \in Nat

VARIABLES
  booked,  \* the players of each game master's game, as in Bookings
  elo,     \* the elo column
  step,    \* the statement each game master's update_elos comes to next
  pair,    \* its winner and loser; the two players of a draw
  drawn,   \* is its game a draw?
  read,    \* winner_elo and loser_elo
  new,     \* the tuple elos
  told     \* the elo fields of the two GAME_END messages

taskVars == <<step, pair, drawn, read, new, told>>
vars == <<booked, elo, taskVars>>

B == INSTANCE Bookings WITH LeftOut <- {}

-----------------------------------------------------------------------------
(* calc_elo.  The expectations are floating point powers: what is used of   *)
(* them is that the better player gains less than half of K by winning and  *)
(* loses by drawing, equal players half of K and nothing, and that the      *)
(* casts to u32 round towards zero and stop there.                          *)

Cut(r) == IF r < 0 THEN 0 ELSE r

\* Where k * (1 - E1) may lie, by whom of the two is better.
Stakes(r1, r2) ==
  LET half == K \div 2 IN
    IF r1 = r2 THEN {half} ELSE IF r1 > r2 THEN 0..half ELSE half..K

\* Variant with a bug: a draw adds to the better player's rating, too.
DrawAdds(r1, r2, draw) ==
  LET half == IF draw THEN K \div 2 ELSE 0 IN
    {<<Cut(r1 + x[1] + half), Cut(r2 - x[2] + half)>> :
       x \in {y \in Stakes(r1, r2) \X Stakes(r1, r2) : y[2] - y[1] \in {0, 1}}}

\* One side's gain is the other's loss, less a fraction that is cut off the one
\* and charged to the other; a draw is half a win for each.
CalcElo(r1, r2, draw) ==
  LET half == IF draw THEN K \div 2 ELSE 0 IN
    {<<Cut(r1 + x[1] - half), Cut(r2 - x[2] + half)>> :
       x \in {y \in Stakes(r1, r2) \X Stakes(r1, r2) : y[2] - y[1] \in {0, 1}}}

\* Variant with a bug: only the winner is kept above the floor.
WinnerFloored(e) == <<IF e[1] < ELO_FLOOR THEN ELO_FLOOR ELSE e[1], e[2]>>

Floored(e) == [i \in 1..2 |-> IF e[i] < ELO_FLOOR THEN ELO_FLOOR ELSE e[i]]

-----------------------------------------------------------------------------
(* One game master. *)

NoElos == <<0, 0>>

\* The task's local variables are gone after a game.
Forget(g) ==
  /\ pair' = [pair EXCEPT ![g] = <<>>]
  /\ drawn' = [drawn EXCEPT ![g] = FALSE]
  /\ read' = [read EXCEPT ![g] = NoElos]
  /\ new' = [new EXCEPT ![g] = NoElos]
  /\ told' = [told EXCEPT ![g] = NoElos]

\* A new game is handed out.
Begin(g) ==
  /\ step[g] = "idle"
  /\ B!Book(g)
  /\ \A n \in booked'[g] : elo[n] + K <= MaxElo
  /\ UNCHANGED <<elo, taskVars>>

\* Variant with a bug: the result is reported before the ratings are updated.
FinishReported(g, w, l) ==
  /\ step[g] = "idle"
  /\ booked[g] = {w, l} /\ w # l
  /\ step' = [step EXCEPT ![g] = "winner_elo"]
  /\ pair' = [pair EXCEPT ![g] = <<w, l>>]
  /\ drawn' \in {[drawn EXCEPT ![g] = d] : d \in BOOLEAN}
  /\ booked' = [booked EXCEPT ![g] = {}]
  /\ UNCHANGED <<elo, read, new, told>>

\* run_game has a winner, or a draw.
Finish(g, w, l) ==
  /\ step[g] = "idle"
  /\ booked[g] = {w, l} /\ w # l
  /\ step' = [step EXCEPT ![g] = "winner_elo"]
  /\ pair' = [pair EXCEPT ![g] = <<w, l>>]
  /\ drawn' \in {[drawn EXCEPT ![g] = d] : d \in BOOLEAN}
  /\ UNCHANGED <<booked, elo, read, new, told>>

\* An abandoned game changes no rating.
Abandoned(g) ==
  /\ step[g] = "idle"
  /\ B!Release(g)
  /\ UNCHANGED <<elo, taskVars>>

\* Variant with a bug: the error ends the task.
FailHard(g) ==
  /\ step[g] \in {"winner_elo", "loser_elo", "set_winner", "set_loser"}
  /\ step' = [step EXCEPT ![g] = "exited"]
  /\ UNCHANGED <<booked, elo, pair, drawn, read, new, told>>

\* A statement fails, or a rating is NULL: update_elos stops and both are told 0.
Fail(g) ==
  /\ step[g] \in {"winner_elo", "loser_elo", "set_winner", "set_loser"}
  /\ step' = [step EXCEPT ![g] = "tell"]
  /\ UNCHANGED <<booked, elo, pair, drawn, read, new, told>>

GetWinnerElo(g) ==
  /\ step[g] = "winner_elo"
  /\ read' = [read EXCEPT ![g][1] = elo[pair[g][1]]]
  /\ step' = [step EXCEPT ![g] = "loser_elo"]
  /\ UNCHANGED <<booked, elo, pair, drawn, new, told>>

\* The second rating, then the new ones.
GetLoserElo(g) ==
  /\ step[g] = "loser_elo"
  /\ read' = [read EXCEPT ![g][2] = elo[pair[g][2]]]
  /\ \E e \in CalcElo(read'[g][1], read'[g][2], drawn[g]) :
       new' = [new EXCEPT ![g] = Floored(e)]
  /\ step' = [step EXCEPT ![g] = "set_winner"]
  /\ UNCHANGED <<booked, elo, pair, drawn, told>>

SetElo(g, i) == elo' = [elo EXCEPT ![pair[g][i]] = new[g][i]]

\* Variant with a bug: the loser's rating is written first.
LoserFirst == <<2, 1>>

\* Whose rating is written first.
WriteOrder == <<1, 2>>

UpdateFirst(g) ==
  /\ step[g] = "set_winner"
  /\ SetElo(g, WriteOrder[1])
  /\ step' = [step EXCEPT ![g] = "set_loser"]
  /\ UNCHANGED <<booked, pair, drawn, read, new, told>>

\* Variant with a bug: the ratings before the game are told.
TellOld(g) == told' = [told EXCEPT ![g] = read[g]]

Tell(g) == told' = [told EXCEPT ![g] = new[g]]

\* The second write, and the result of update_elos.
UpdateSecond(g) ==
  /\ step[g] = "set_loser"
  /\ SetElo(g, WriteOrder[2])
  /\ Tell(g)
  /\ step' = [step EXCEPT ![g] = "tell"]
  /\ UNCHANGED <<booked, pair, drawn, read, new>>

\* GAME_END to both, whether it can be sent or not, and the result reported.
Return(g) ==
  /\ step[g] = "tell"
  /\ step' = [step EXCEPT ![g] = "idle"]
  /\ B!Release(g)
  /\ Forget(g)
  /\ UNCHANGED elo

Init ==
  /\ B!Init
  /\ elo \in [Names -> ELO_FLOOR..MaxElo]
  /\ step = [g \in GMs |-> "idle"]
  /\ pair = [g \in GMs |-> <<>>]
  /\ drawn = [g \in GMs |-> FALSE]
  /\ read = [g \in GMs |-> NoElos]
  /\ new = [g \in GMs |-> NoElos]
  /\ told = [g \in GMs |-> NoElos]

GameMaster(g) ==
  \/ \E w, l \in Names : Finish(g, w, l)
  \/ Abandoned(g)
  \/ Fail(g)
  \/ GetWinnerElo(g)
  \/ GetLoserElo(g)
  \/ UpdateFirst(g)
  \/ UpdateSecond(g)
  \/ Return(g)

Next == \E g \in GMs : Begin(g) \/ GameMaster(g)

\* A game master goes on once it has a game: the clients let it end, statements return.
Spec == Init /\ [][Next]_vars /\ \A g \in GMs : WF_vars(GameMaster(g))

-----------------------------------------------------------------------------
(* Properties. *)

\* Every variable has its type.
TypeOK ==
  /\ booked \in [GMs -> SUBSET Names]
  /\ elo \in [Names -> Nat]
  /\ step \in [GMs -> {"idle", "winner_elo", "loser_elo", "set_winner", "set_loser", "tell"}]
  /\ pair \in [GMs -> {<<>>} \cup (Names \X Names)]
  /\ drawn \in [GMs -> BOOLEAN]
  /\ read \in [GMs -> Nat \X Nat]
  /\ new \in [GMs -> Nat \X Nat]
  /\ told \in [GMs -> Nat \X Nat]

\* Which ratings update_elos has read and not yet overwritten.
Relied(g) ==
  CASE step[g] = "loser_elo"  -> {1}
    [] step[g] = "set_winner" -> {1, 2}
    [] step[g] = "set_loser"  -> {WriteOrder[2]}
    [] OTHER                  -> {}

\* No update is lost: a rating update_elos has read and is about to replace is
\* still the one in the table, although nothing locks it in between.
ReadsAreCurrent ==
  \A g \in GMs : \A i \in Relied(g) : elo[pair[g][i]] = read[g][i]

\* What the clients are told in GAME_END is in the table when they are told,
\* or they are told 0.
ToldIsStored ==
  \A g \in GMs :
    step[g] = "tell" =>
      \/ told[g] = NoElos
      \/ \A i \in 1..2 : told[g][i] = elo[pair[g][i]]

\* An update that breaks off half way favours the winner: the loser is charged
\* only after the winner has been credited.
LoserPaysLast ==
  \A g \in GMs :
    /\ new[g] # NoElos
    /\ elo[pair[g][2]] # read[g][2]
    => elo[pair[g][1]] = new[g][1]

\* The floor of ELO_FLOOR holds for both sides of every game.
NobodyBelowFloor == \A n \in Names : elo[n] >= ELO_FLOOR

\* No statement moves anybody's rating by more than K.
MovesAtMostK ==
  [][\A n \in Names : elo'[n] <= elo[n] + K /\ elo[n] <= elo'[n] + K]_vars

\* The game is given back whatever the database does, as Bookings promises.
StillBooksAsPromised == B!Spec

=============================================================================
