--------------------------- MODULE Ratings_proofs ---------------------------
(* Proofs about Ratings: no update is lost, whatever the two game masters'  *)
(* statements interleave to, because Bookings keeps their players apart.    *)
EXTENDS Ratings, TLAPS

\* A game master that updates ratings holds exactly the two players it updates.
HoldsItsPair ==
  \A g \in GMs :
    step[g] # "idle" =>
      /\ pair[g] \in Names \X Names
      /\ pair[g][1] # pair[g][2]
      /\ booked[g] = {pair[g][1], pair[g][2]}

\* No player is in two games (the part of B!Exclusive that is needed).
Apart == \A g, h \in GMs : g # h => booked[g] \cap booked[h] = {}

\* The new ratings, once there, are at most K from those they replace.
NewIsClose ==
  \A g \in GMs :
    /\ step[g] \in {"set_winner", "set_loser"} => new[g] # NoElos
    /\ step[g] \in {"loser_elo", "set_winner", "set_loser"} => read[g][1] >= ELO_FLOOR
    /\ step[g] \in {"idle", "winner_elo", "loser_elo"} => new[g] = NoElos
    /\ new[g] # NoElos =>
         \A i \in 1..2 :
           /\ new[g][i] >= ELO_FLOOR
           /\ new[g][i] <= read[g][i] + K
           /\ read[g][i] <= new[g][i] + K

\* The winner is credited before the loser is charged, and stays so.
CreditedFirst ==
  \A g \in GMs : step[g] = "set_loser" => elo[pair[g][1]] = new[g][1]

\* Nothing is told before the update is over.
NothingToldYet == \A g \in GMs : step[g] # "tell" => told[g] = NoElos

IInv ==
  /\ TypeOK
  /\ NothingToldYet
  /\ HoldsItsPair
  /\ Apart
  /\ NewIsClose
  /\ CreditedFirst
  /\ NobodyBelowFloor
  /\ ReadsAreCurrent
  /\ ToldIsStored
  /\ LoserPaysLast

-----------------------------------------------------------------------------
\* What calc_elo and the floor make of two ratings that respect the floor.
LEMMA NewRatings ==
  ASSUME NEW r1 \in Nat, NEW r2 \in Nat, r1 >= ELO_FLOOR, r2 >= ELO_FLOOR,
         NEW draw \in BOOLEAN, NEW e \in CalcElo(r1, r2, draw)
  PROVE  /\ Floored(e) \in Nat \X Nat
         /\ Floored(e)[1] >= ELO_FLOOR /\ Floored(e)[2] >= ELO_FLOOR
         /\ Floored(e)[1] <= r1 + K /\ r1 <= Floored(e)[1] + K
         /\ Floored(e)[2] <= r2 + K /\ r2 <= Floored(e)[2] + K
<1> DEFINE half == IF draw THEN K \div 2 ELSE 0
<1>0. ELO_FLOOR \in Nat /\ K \in Nat /\ K \div 2 \in Nat /\ K \div 2 <= K
  BY RatingAssumption
<1>1. PICK s, t \in Stakes(r1, r2) :
        /\ t - s \in {0, 1}
        /\ e = <<Cut(r1 + s - half), Cut(r2 - t + half)>>
  BY DEF CalcElo
<1>2. s \in 0..K /\ t \in 0..K
  BY <1>0, <1>1 DEF Stakes
<1>3. half \in 0..K
  BY <1>0
<1> HIDE DEF half
<1>4. /\ Cut(r1 + s - half) \in Nat
      /\ Cut(r1 + s - half) <= r1 + K
      /\ r1 <= Cut(r1 + s - half) + K
  BY <1>0, <1>2, <1>3 DEF Cut
<1>5. /\ Cut(r2 - t + half) \in Nat
      /\ Cut(r2 - t + half) <= r2 + K
      /\ r2 <= Cut(r2 - t + half) + K
  BY <1>0, <1>2, <1>3 DEF Cut
<1>6. \A i \in 1..2 :
        Floored(e)[i] = IF e[i] < ELO_FLOOR THEN ELO_FLOOR ELSE e[i]
  BY DEF Floored
<1>7. e[1] = Cut(r1 + s - half) /\ e[2] = Cut(r2 - t + half)
  BY <1>1
<1>8. Floored(e) = <<Floored(e)[1], Floored(e)[2]>>
  BY DEF Floored
<1>9. /\ Floored(e)[1] \in Nat /\ Floored(e)[1] >= ELO_FLOOR
      /\ Floored(e)[1] <= r1 + K /\ r1 <= Floored(e)[1] + K
  BY <1>0, <1>4, <1>6, <1>7
<1>10. /\ Floored(e)[2] \in Nat /\ Floored(e)[2] >= ELO_FLOOR
       /\ Floored(e)[2] <= r2 + K /\ r2 <= Floored(e)[2] + K
  BY <1>0, <1>5, <1>6, <1>7
<1> QED BY <1>8, <1>9, <1>10

\* A write of g touches no rating another game master relies on.
LEMMA OthersUntouched ==
  ASSUME IInv, NEW g \in GMs, NEW h \in GMs, g # h,
         step[g] # "idle", step[h] # "idle",
         NEW i \in 1..2, NEW j \in 1..2
  PROVE  pair[g][i] # pair[h][j]
<1>1. pair[g][i] \in booked[g] /\ pair[h][j] \in booked[h]
  BY DEF IInv, HoldsItsPair
<1> QED BY <1>1 DEF IInv, Apart

-----------------------------------------------------------------------------
USE RatingAssumption DEF WriteOrder

LEMMA InitIInv == Init => IInv
<1> SUFFICES ASSUME Init PROVE IInv
  OBVIOUS
<1>1. NoElos \in Nat \X Nat
  BY DEF NoElos
<1>2. TypeOK /\ NobodyBelowFloor
  BY <1>1 DEF Init, TypeOK, NobodyBelowFloor, B!Init
<1>3. HoldsItsPair /\ Apart /\ CreditedFirst /\ ToldIsStored /\ NothingToldYet
  BY DEF Init, NothingToldYet, HoldsItsPair, Apart, CreditedFirst, ToldIsStored, B!Init
<1>4. NewIsClose /\ LoserPaysLast
  BY DEF Init, NewIsClose, LoserPaysLast
<1>5. ReadsAreCurrent
  BY DEF Init, ReadsAreCurrent, Relied
<1> QED BY <1>2, <1>3, <1>4, <1>5 DEF IInv

LEMMA BeginStep == ASSUME IInv, NEW g \in GMs, Begin(g) PROVE IInv'
<1>1. PICK a, b \in Names \ B!Busy : a # b /\ booked' = [booked EXCEPT ![g] = {a, b} \ {}]
  BY DEF Begin, B!Book
<1>2. \A h \in GMs : booked'[h] = IF h = g THEN {a, b} ELSE booked[h]
  BY <1>1 DEF IInv, TypeOK
<1>3. \A h \in GMs : a \notin booked[h] /\ b \notin booked[h]
  BY DEF B!Busy
<1>4. Apart'
  BY <1>2, <1>3 DEF IInv, Apart
<1>5. HoldsItsPair'
  BY <1>2 DEF IInv, HoldsItsPair, Begin, taskVars
<1>6. TypeOK'
  BY <1>1 DEF IInv, TypeOK, Begin, taskVars
<1> QED
  BY <1>4, <1>5, <1>6
  DEF IInv, Begin, taskVars, NothingToldYet, NewIsClose, CreditedFirst, NobodyBelowFloor,
      ReadsAreCurrent, Relied, ToldIsStored, LoserPaysLast

LEMMA FinishStep ==
  ASSUME IInv, NEW g \in GMs, NEW w \in Names, NEW l \in Names, Finish(g, w, l)
  PROVE  IInv'
<1>1. \A h \in GMs :
        /\ step'[h] = IF h = g THEN "winner_elo" ELSE step[h]
        /\ pair'[h] = IF h = g THEN <<w, l>> ELSE pair[h]
  BY DEF Finish, IInv, TypeOK
<1>2. step[g] = "idle" /\ booked[g] = {w, l} /\ w # l
  BY DEF Finish
<1>3. UNCHANGED <<booked, elo, read, new, told>>
  BY DEF Finish
<1>4. TypeOK'
  BY <1>3 DEF IInv, TypeOK, Finish
<1>5. HoldsItsPair' /\ Apart' /\ CreditedFirst' /\ NobodyBelowFloor' /\ ToldIsStored'
  BY <1>1, <1>2, <1>3
  DEF IInv, HoldsItsPair, Apart, CreditedFirst, NobodyBelowFloor, ToldIsStored
<1>6. NewIsClose' /\ LoserPaysLast' /\ NothingToldYet'
  BY <1>1, <1>2, <1>3 DEF IInv, NewIsClose, LoserPaysLast, NothingToldYet
<1>7. ReadsAreCurrent'
  BY <1>1, <1>3 DEF IInv, ReadsAreCurrent, Relied
<1> QED BY <1>4, <1>5, <1>6, <1>7 DEF IInv

LEMMA AbandonedStep == ASSUME IInv, NEW g \in GMs, Abandoned(g) PROVE IInv'
<1>1. \A h \in GMs : booked'[h] = IF h = g THEN {} ELSE booked[h]
  BY DEF Abandoned, B!Release, IInv, TypeOK
<1>2. TypeOK'
  BY DEF IInv, TypeOK, Abandoned, B!Release, taskVars
<1>3. HoldsItsPair' /\ Apart'
  BY <1>1 DEF IInv, HoldsItsPair, Apart, Abandoned, taskVars
<1> QED
  BY <1>2, <1>3
  DEF IInv, Abandoned, taskVars, NothingToldYet, NewIsClose, CreditedFirst, NobodyBelowFloor,
      ReadsAreCurrent, Relied, ToldIsStored, LoserPaysLast

LEMMA FailStep == ASSUME IInv, NEW g \in GMs, Fail(g) PROVE IInv'
<1>1. \A h \in GMs : step'[h] = IF h = g THEN "tell" ELSE step[h]
  BY DEF Fail, IInv, TypeOK
<1>2. UNCHANGED <<booked, elo, pair, drawn, read, new, told>>
  BY DEF Fail
<1>3. step[g] \notin {"idle", "tell"}
  BY DEF Fail
<1>4. TypeOK'
  BY <1>2 DEF IInv, TypeOK, Fail
<1>5. HoldsItsPair' /\ Apart' /\ CreditedFirst' /\ NobodyBelowFloor' /\ LoserPaysLast'
  BY <1>1, <1>2, <1>3
  DEF IInv, HoldsItsPair, Apart, CreditedFirst, NobodyBelowFloor, LoserPaysLast
<1>6. NewIsClose' /\ NothingToldYet'
  BY <1>1, <1>2, <1>3 DEF IInv, NewIsClose, NothingToldYet
<1>7. ToldIsStored'
  BY <1>1, <1>2, <1>3 DEF IInv, ToldIsStored, NothingToldYet
<1>8. ReadsAreCurrent'
  BY <1>1, <1>2 DEF IInv, ReadsAreCurrent, Relied
<1> QED BY <1>4, <1>5, <1>6, <1>7, <1>8 DEF IInv

LEMMA GetWinnerEloStep == ASSUME IInv, NEW g \in GMs, GetWinnerElo(g) PROVE IInv'
<1>1. \A h \in GMs : step'[h] = IF h = g THEN "loser_elo" ELSE step[h]
  BY DEF GetWinnerElo, IInv, TypeOK
<1>2. step[g] = "winner_elo" /\ UNCHANGED <<booked, elo, pair, drawn, new, told>>
  BY DEF GetWinnerElo
<1>3. pair[g][1] \in Names /\ elo[pair[g][1]] \in Nat /\ elo[pair[g][1]] >= ELO_FLOOR
  BY <1>2 DEF IInv, HoldsItsPair, TypeOK, NobodyBelowFloor
<1>4. /\ \A h \in GMs : h # g => read'[h] = read[h]
      /\ read'[g] = <<elo[pair[g][1]], read[g][2]>>
  <2>1. read[g] \in Nat \X Nat /\ read' = [read EXCEPT ![g][1] = elo[pair[g][1]]]
    BY DEF GetWinnerElo, IInv, TypeOK
  <2>2. read'[g] = [read[g] EXCEPT ![1] = elo[pair[g][1]]]
    BY <2>1 DEF IInv, TypeOK
  <2>3. read'[g] = <<elo[pair[g][1]], read[g][2]>>
    BY <2>1, <2>2
  <2>4. \A h \in GMs : h # g => read'[h] = read[h]
    BY <2>1 DEF IInv, TypeOK
  <2> QED BY <2>3, <2>4
<1>5. TypeOK'
  <2>1. read[g] \in Nat \X Nat
    BY DEF IInv, TypeOK
  <2>2. read'[g] \in Nat \X Nat
    BY <1>3, <1>4, <2>1
  <2>3. \A h \in GMs : read'[h] \in Nat \X Nat
    BY <1>4, <2>2 DEF IInv, TypeOK
  <2>4. read' = [h \in GMs |-> read'[h]]
    BY DEF GetWinnerElo, IInv, TypeOK
  <2>5. read' \in [GMs -> Nat \X Nat]
    BY <2>3, <2>4
  <2> QED BY <1>2, <2>5 DEF IInv, TypeOK, GetWinnerElo
<1>6. HoldsItsPair' /\ Apart' /\ CreditedFirst' /\ NobodyBelowFloor' /\ ToldIsStored'
  BY <1>1, <1>2 DEF IInv, HoldsItsPair, Apart, CreditedFirst, NobodyBelowFloor, ToldIsStored
<1>7. NewIsClose' /\ NothingToldYet' /\ LoserPaysLast'
  BY <1>1, <1>2, <1>3, <1>4 DEF IInv, NewIsClose, NothingToldYet, LoserPaysLast
<1>8. ReadsAreCurrent'
  BY <1>1, <1>2, <1>4 DEF IInv, ReadsAreCurrent, Relied
<1> QED BY <1>5, <1>6, <1>7, <1>8 DEF IInv

LEMMA GetLoserEloStep == ASSUME IInv, NEW g \in GMs, GetLoserElo(g) PROVE IInv'
<1>1. \A h \in GMs : step'[h] = IF h = g THEN "set_winner" ELSE step[h]
  BY DEF GetLoserElo, IInv, TypeOK
<1>2. step[g] = "loser_elo" /\ UNCHANGED <<booked, elo, pair, drawn, told>>
  BY DEF GetLoserElo
<1>3. /\ pair[g][1] \in Names /\ pair[g][2] \in Names
      /\ elo[pair[g][1]] = read[g][1]
      /\ elo[pair[g][1]] \in Nat /\ elo[pair[g][1]] >= ELO_FLOOR
      /\ elo[pair[g][2]] \in Nat /\ elo[pair[g][2]] >= ELO_FLOOR
  BY <1>2 DEF IInv, HoldsItsPair, TypeOK, NobodyBelowFloor, ReadsAreCurrent, Relied
<1>4. /\ \A h \in GMs : h # g => read'[h] = read[h]
      /\ read'[g] = <<elo[pair[g][1]], elo[pair[g][2]]>>
  <2>1. read[g] \in Nat \X Nat /\ read' = [read EXCEPT ![g][2] = elo[pair[g][2]]]
    BY DEF GetLoserElo, IInv, TypeOK
  <2>2. read'[g] = [read[g] EXCEPT ![2] = elo[pair[g][2]]]
    BY <2>1 DEF IInv, TypeOK
  <2>3. read'[g] = <<read[g][1], elo[pair[g][2]]>>
    BY <2>1, <2>2
  <2> QED BY <1>3, <2>1, <2>3 DEF IInv, TypeOK
<1>5. read'[g][1] = elo[pair[g][1]] /\ read'[g][2] = elo[pair[g][2]] /\ read'[g] \in Nat \X Nat
  BY <1>3, <1>4
<1>6. PICK e \in CalcElo(read'[g][1], read'[g][2], drawn[g]) :
        new' = [new EXCEPT ![g] = Floored(e)]
  BY DEF GetLoserElo
<1>7. \A h \in GMs : new'[h] = IF h = g THEN Floored(e) ELSE new[h]
  BY <1>6 DEF IInv, TypeOK
<1>8. drawn[g] \in BOOLEAN
  BY DEF IInv, TypeOK
<1>9. /\ new'[g] \in Nat \X Nat
      /\ new'[g][1] >= ELO_FLOOR /\ new'[g][2] >= ELO_FLOOR
      /\ new'[g][1] <= read'[g][1] + K /\ read'[g][1] <= new'[g][1] + K
      /\ new'[g][2] <= read'[g][2] + K /\ read'[g][2] <= new'[g][2] + K
  BY <1>3, <1>5, <1>6, <1>7, <1>8, NewRatings
<1>10. new'[g] # NoElos
  BY <1>9 DEF NoElos
<1>11. read' \in [GMs -> Nat \X Nat] /\ new' \in [GMs -> Nat \X Nat]
  <2>1. \A h \in GMs : read'[h] \in Nat \X Nat /\ new'[h] \in Nat \X Nat
    BY <1>4, <1>5, <1>7, <1>9 DEF IInv, TypeOK
  <2>2. read' = [h \in GMs |-> read'[h]] /\ new' = [h \in GMs |-> new'[h]]
    BY <1>6 DEF GetLoserElo, IInv, TypeOK
  <2> QED BY <2>1, <2>2
<1>12. TypeOK'
  BY <1>2, <1>11 DEF IInv, TypeOK, GetLoserElo
<1>13. HoldsItsPair' /\ Apart' /\ CreditedFirst' /\ NobodyBelowFloor'
  BY <1>1, <1>2, <1>7 DEF IInv, HoldsItsPair, Apart, CreditedFirst, NobodyBelowFloor
<1>14. ToldIsStored' /\ NothingToldYet'
  BY <1>1, <1>2 DEF IInv, ToldIsStored, NothingToldYet
<1>15. NewIsClose'
  BY <1>1, <1>3, <1>4, <1>5, <1>7, <1>9, <1>10 DEF IInv, NewIsClose
<1>16. LoserPaysLast'
  BY <1>1, <1>2, <1>4, <1>5, <1>7 DEF IInv, LoserPaysLast
<1>17. ReadsAreCurrent'
  BY <1>1, <1>2, <1>4, <1>5 DEF IInv, ReadsAreCurrent, Relied
<1> QED BY <1>12, <1>13, <1>14, <1>15, <1>16, <1>17 DEF IInv

\* What a write of g does to the table, and what it leaves to the others.
LEMMA WriteFacts ==
  ASSUME IInv, NEW g \in GMs, NEW i \in 1..2, SetElo(g, i),
         step[g] \in {"set_winner", "set_loser"}
  PROVE  /\ elo' \in [Names -> Nat]
         /\ \A n \in Names : elo'[n] = IF n = pair[g][i] THEN new[g][i] ELSE elo[n]
         /\ pair[g][1] \in Names /\ pair[g][2] \in Names /\ pair[g][1] # pair[g][2]
         /\ new[g] # NoElos /\ new[g][i] >= ELO_FLOOR
         /\ \A h \in GMs : \A j \in 1..2 :
              h # g /\ step[h] # "idle" =>
                pair[h][j] \in Names /\ elo'[pair[h][j]] = elo[pair[h][j]]
<1>1. pair[g][1] \in Names /\ pair[g][2] \in Names /\ pair[g][1] # pair[g][2]
  BY DEF IInv, HoldsItsPair
<1>2. new[g] # NoElos /\ new[g][i] >= ELO_FLOOR /\ new[g][i] \in Nat
  BY DEF IInv, NewIsClose, TypeOK
<1>3. pair[g][i] \in Names
  BY <1>1
<1>4. elo' = [elo EXCEPT ![pair[g][i]] = new[g][i]]
  BY DEF SetElo
<1>5. \A n \in Names : elo'[n] = IF n = pair[g][i] THEN new[g][i] ELSE elo[n]
  BY <1>3, <1>4 DEF IInv, TypeOK
<1>6. elo' \in [Names -> Nat]
  BY <1>2, <1>4 DEF IInv, TypeOK
<1>7. ASSUME NEW h \in GMs, NEW j \in 1..2, h # g, step[h] # "idle"
      PROVE  pair[h][j] \in Names /\ elo'[pair[h][j]] = elo[pair[h][j]]
  <2>1. pair[h][j] \in Names
    BY <1>7 DEF IInv, HoldsItsPair
  <2>2. pair[g][i] # pair[h][j]
    BY <1>7, OthersUntouched
  <2> QED BY <1>5, <2>1, <2>2
<1> QED BY <1>1, <1>2, <1>5, <1>6, <1>7

LEMMA UpdateFirstStep == ASSUME IInv, NEW g \in GMs, UpdateFirst(g) PROVE IInv'
<1>1. \A h \in GMs : step'[h] = IF h = g THEN "set_loser" ELSE step[h]
  BY DEF UpdateFirst, IInv, TypeOK
<1>2. /\ step[g] = "set_winner" /\ SetElo(g, 1)
      /\ UNCHANGED <<booked, pair, drawn, read, new, told>>
  BY DEF UpdateFirst
<1>3. /\ elo' \in [Names -> Nat]
      /\ \A n \in Names : elo'[n] = IF n = pair[g][1] THEN new[g][1] ELSE elo[n]
      /\ pair[g][1] \in Names /\ pair[g][2] \in Names /\ pair[g][1] # pair[g][2]
      /\ new[g] # NoElos /\ new[g][1] >= ELO_FLOOR
      /\ \A h \in GMs : \A j \in 1..2 :
           h # g /\ step[h] # "idle" =>
             pair[h][j] \in Names /\ elo'[pair[h][j]] = elo[pair[h][j]]
  BY <1>2, WriteFacts
<1>4. TypeOK'
  BY <1>2, <1>3 DEF IInv, TypeOK, UpdateFirst
<1>5. HoldsItsPair' /\ Apart' /\ NewIsClose' /\ NothingToldYet'
  BY <1>1, <1>2 DEF IInv, HoldsItsPair, Apart, NewIsClose, NothingToldYet
<1>6. CreditedFirst'
  BY <1>1, <1>2, <1>3 DEF IInv, CreditedFirst
<1>7. NobodyBelowFloor'
  BY <1>3 DEF IInv, NobodyBelowFloor
<1>8. ReadsAreCurrent'
  <2>1. ASSUME NEW h \in GMs, h # g PROVE \A i \in Relied(h)' : elo'[pair'[h][i]] = read'[h][i]
    <3>1. Relied(h)' = Relied(h) /\ Relied(h) \subseteq 1..2
      BY <1>1, <1>2, <2>1 DEF Relied
    <3>2. step[h] # "idle" \/ Relied(h) = {}
      BY DEF Relied
    <3> QED BY <1>2, <1>3, <2>1, <3>1, <3>2 DEF IInv, ReadsAreCurrent
  <2>2. Relied(g)' = {2} /\ 2 \in Relied(g)
    BY <1>1, <1>2 DEF Relied
  <2>3. elo'[pair'[g][2]] = read'[g][2]
    BY <1>2, <1>3, <2>2 DEF IInv, ReadsAreCurrent
  <2> QED BY <2>1, <2>2, <2>3 DEF ReadsAreCurrent
<1>9. ToldIsStored'
  BY <1>1, <1>2, <1>3 DEF IInv, ToldIsStored
<1>10. LoserPaysLast'
  <2>1. ASSUME NEW h \in GMs, h # g, new'[h] # NoElos, elo'[pair'[h][2]] # read'[h][2]
        PROVE  elo'[pair'[h][1]] = new'[h][1]
    <3>1. step[h] # "idle"
      BY <1>2, <2>1 DEF IInv, NewIsClose
    <3> QED BY <1>2, <1>3, <2>1, <3>1 DEF IInv, LoserPaysLast
  <2>2. elo'[pair'[g][1]] = new'[g][1]
    BY <1>2, <1>3
  <2> QED BY <2>1, <2>2 DEF LoserPaysLast
<1> QED BY <1>4, <1>5, <1>6, <1>7, <1>8, <1>9, <1>10 DEF IInv

LEMMA UpdateSecondStep == ASSUME IInv, NEW g \in GMs, UpdateSecond(g) PROVE IInv'
<1>1. \A h \in GMs :
        /\ step'[h] = IF h = g THEN "tell" ELSE step[h]
        /\ told'[h] = IF h = g THEN new[g] ELSE told[h]
  BY DEF UpdateSecond, Tell, IInv, TypeOK
<1>2. step[g] = "set_loser" /\ SetElo(g, 2) /\ UNCHANGED <<booked, pair, drawn, read, new>>
  BY DEF UpdateSecond
<1>3. /\ elo' \in [Names -> Nat]
      /\ \A n \in Names : elo'[n] = IF n = pair[g][2] THEN new[g][2] ELSE elo[n]
      /\ pair[g][1] \in Names /\ pair[g][2] \in Names /\ pair[g][1] # pair[g][2]
      /\ new[g] # NoElos /\ new[g][2] >= ELO_FLOOR
      /\ \A h \in GMs : \A j \in 1..2 :
           h # g /\ step[h] # "idle" =>
             pair[h][j] \in Names /\ elo'[pair[h][j]] = elo[pair[h][j]]
  BY <1>2, WriteFacts
<1>4. elo'[pair'[g][1]] = new'[g][1] /\ elo'[pair'[g][2]] = new'[g][2]
  BY <1>2, <1>3 DEF IInv, CreditedFirst
<1>5. TypeOK'
  BY <1>2, <1>3 DEF IInv, TypeOK, UpdateSecond, Tell
<1>6. HoldsItsPair' /\ Apart' /\ NewIsClose' /\ NothingToldYet'
  BY <1>1, <1>2 DEF IInv, HoldsItsPair, Apart, NewIsClose, NothingToldYet
<1>7. CreditedFirst'
  BY <1>1, <1>2, <1>3 DEF IInv, CreditedFirst
<1>8. NobodyBelowFloor'
  BY <1>3 DEF IInv, NobodyBelowFloor
<1>9. ReadsAreCurrent'
  <2>1. ASSUME NEW h \in GMs, h # g PROVE \A i \in Relied(h)' : elo'[pair'[h][i]] = read'[h][i]
    <3>1. Relied(h)' = Relied(h) /\ Relied(h) \subseteq 1..2
      BY <1>1, <1>2, <2>1 DEF Relied
    <3>2. step[h] # "idle" \/ Relied(h) = {}
      BY DEF Relied
    <3> QED BY <1>2, <1>3, <2>1, <3>1, <3>2 DEF IInv, ReadsAreCurrent
  <2>2. Relied(g)' = {}
    BY <1>1 DEF Relied
  <2> QED BY <2>1, <2>2 DEF ReadsAreCurrent
<1>10. ToldIsStored'
  <2>1. \A i \in 1..2 : told'[g][i] = elo'[pair'[g][i]]
    BY <1>1, <1>2, <1>4
  <2>2. ASSUME NEW h \in GMs, h # g, step'[h] = "tell"
        PROVE  told'[h] = NoElos \/ \A i \in 1..2 : told'[h][i] = elo'[pair'[h][i]]
    BY <1>1, <1>2, <1>3, <2>2 DEF IInv, ToldIsStored
  <2> QED BY <2>1, <2>2 DEF ToldIsStored
<1>11. LoserPaysLast'
  <2>1. ASSUME NEW h \in GMs, h # g, new'[h] # NoElos, elo'[pair'[h][2]] # read'[h][2]
        PROVE  elo'[pair'[h][1]] = new'[h][1]
    <3>1. step[h] # "idle"
      BY <1>2, <2>1 DEF IInv, NewIsClose
    <3> QED BY <1>2, <1>3, <2>1, <3>1 DEF IInv, LoserPaysLast
  <2> QED BY <1>4, <2>1 DEF LoserPaysLast
<1> QED BY <1>5, <1>6, <1>7, <1>8, <1>9, <1>10, <1>11 DEF IInv

LEMMA ReturnStep == ASSUME IInv, NEW g \in GMs, Return(g) PROVE IInv'
<1>1. \A h \in GMs :
        /\ step'[h] = IF h = g THEN "idle" ELSE step[h]
        /\ booked'[h] = IF h = g THEN {} ELSE booked[h]
        /\ pair'[h] = IF h = g THEN <<>> ELSE pair[h]
        /\ read'[h] = IF h = g THEN NoElos ELSE read[h]
        /\ new'[h] = IF h = g THEN NoElos ELSE new[h]
        /\ told'[h] = IF h = g THEN NoElos ELSE told[h]
  BY DEF Return, Forget, B!Release, IInv, TypeOK
<1>2. UNCHANGED elo
  BY DEF Return
<1>3. TypeOK'
  BY DEF IInv, TypeOK, Return, Forget, B!Release, NoElos
<1>4. HoldsItsPair' /\ Apart' /\ CreditedFirst' /\ NobodyBelowFloor' /\ ToldIsStored'
  BY <1>1, <1>2 DEF IInv, HoldsItsPair, Apart, CreditedFirst, NobodyBelowFloor, ToldIsStored
<1>5. NewIsClose' /\ NothingToldYet' /\ LoserPaysLast'
  BY <1>1, <1>2 DEF IInv, NewIsClose, NothingToldYet, LoserPaysLast
<1>6. ReadsAreCurrent'
  BY <1>1, <1>2 DEF IInv, ReadsAreCurrent, Relied
<1> QED BY <1>3, <1>4, <1>5, <1>6 DEF IInv

LEMMA NextIInv == IInv /\ [Next]_vars => IInv'
<1> SUFFICES ASSUME IInv, [Next]_vars PROVE IInv'
  OBVIOUS
<1>1. ASSUME NEW g \in GMs, Begin(g) PROVE IInv'
  BY <1>1, BeginStep
<1>2. ASSUME NEW g \in GMs, GameMaster(g) PROVE IInv'
  BY <1>2, FinishStep, AbandonedStep, FailStep, GetWinnerEloStep, GetLoserEloStep,
     UpdateFirstStep, UpdateSecondStep, ReturnStep DEF GameMaster
<1>3. CASE UNCHANGED vars
  BY <1>3 DEF vars, taskVars, IInv, TypeOK, NothingToldYet, HoldsItsPair, Apart, NewIsClose,
              CreditedFirst, NobodyBelowFloor, ReadsAreCurrent, Relied, ToldIsStored, LoserPaysLast
<1> QED BY <1>1, <1>2, <1>3 DEF Next

LEMMA Invariance == Spec => []IInv
  BY InitIInv, NextIInv, PTL DEF Spec

-----------------------------------------------------------------------------
\* The variables of Ratings keep their types.
THEOREM RatingsTyped == Spec => []TypeOK
<1>1. IInv => TypeOK
  BY DEF IInv
<1> QED BY <1>1, Invariance, PTL

\* No game master ever replaces a rating that changed since it read it.
THEOREM NoLostUpdate == Spec => []ReadsAreCurrent
<1>1. IInv => ReadsAreCurrent
  BY DEF IInv
<1> QED BY <1>1, Invariance, PTL

\* Clients are told the ratings the table has, or 0.
THEOREM ToldRight == Spec => []ToldIsStored
<1>1. IInv => ToldIsStored
  BY DEF IInv
<1> QED BY <1>1, Invariance, PTL

\* Wherever update_elos breaks off, the loser has not paid for nothing.
THEOREM HalfUpdates == Spec => []LoserPaysLast
<1>1. IInv => LoserPaysLast
  BY DEF IInv
<1> QED BY <1>1, Invariance, PTL

\* The floor holds.
THEOREM FloorHolds == Spec => []NobodyBelowFloor
<1>1. IInv => NobodyBelowFloor
  BY DEF IInv
<1> QED BY <1>1, Invariance, PTL

\* A rating moves by at most K at a time: what is written was computed from
\* what it replaces, and the floor is below both.
THEOREM SmallMoves == Spec => MovesAtMostK
<1> DEFINE Small == \A n \in Names : elo'[n] <= elo[n] + K /\ elo[n] <= elo'[n] + K
<1>1. ASSUME IInv, [Next]_vars PROVE [Small]_vars
  <2>1. ASSUME NEW g \in GMs, NEW i \in 1..2, i \in Relied(g), SetElo(g, i),
               step[g] \in {"set_winner", "set_loser"}
        PROVE  Small
    <3>1. /\ \A n \in Names : elo'[n] = IF n = pair[g][i] THEN new[g][i] ELSE elo[n]
          /\ new[g] # NoElos
      BY <1>1, <2>1, WriteFacts
    <3>2. elo[pair[g][i]] = read[g][i]
      BY <1>1, <2>1 DEF IInv, ReadsAreCurrent
    <3>3. new[g][i] <= read[g][i] + K /\ read[g][i] <= new[g][i] + K
      BY <1>1, <3>1 DEF IInv, NewIsClose
    <3>4. K \in Nat /\ \A n \in Names : elo[n] \in Nat
      BY <1>1 DEF IInv, TypeOK
    <3> QED BY <3>1, <3>2, <3>3, <3>4
  <2>2. CASE UNCHANGED elo
    <3>1. K \in Nat /\ \A n \in Names : elo[n] \in Nat
      BY <1>1 DEF IInv, TypeOK
    <3> QED BY <2>2, <3>1
  <2>3. ASSUME NEW g \in GMs, Begin(g) PROVE UNCHANGED elo
    BY <2>3 DEF Begin
  <2>4. ASSUME NEW g \in GMs, UpdateFirst(g) \/ UpdateSecond(g) PROVE Small
    <3>1. CASE UpdateFirst(g)
      <4>1. step[g] = "set_winner" /\ SetElo(g, 1)
        BY <3>1 DEF UpdateFirst
      <4>2. 1 \in Relied(g)
        BY <4>1 DEF Relied
      <4> QED BY <2>1, <4>1, <4>2
    <3>2. CASE UpdateSecond(g)
      <4>1. step[g] = "set_loser" /\ SetElo(g, 2)
        BY <3>2 DEF UpdateSecond
      <4>2. 2 \in Relied(g)
        BY <4>1 DEF Relied
      <4> QED BY <2>1, <4>1, <4>2
    <3> QED BY <2>4, <3>1, <3>2
  <2>5. ASSUME NEW g \in GMs, GameMaster(g)
        PROVE  UNCHANGED elo \/ UpdateFirst(g) \/ UpdateSecond(g)
    BY <2>5 DEF GameMaster, Finish, Abandoned, Fail, GetWinnerElo, GetLoserElo, Return
  <2> QED BY <1>1, <2>2, <2>3, <2>4, <2>5 DEF Next, vars
<1> QED BY <1>1, Invariance, PTL DEF Spec, MovesAtMostK

=============================================================================
