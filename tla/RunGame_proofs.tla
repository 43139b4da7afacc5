--------------------------- MODULE RunGame_proofs ---------------------------
(***************************************************************************)
(* Proofs about one game, for every board, every amount of money and every *)
(* number of rounds and chances that satisfy the assumptions of RunGame.   *)
(***************************************************************************)
EXTENDS RunGame, TLAPS

(* The inductive invariant. *)

\* Both sides are asked for a bid, and a bid that was accepted can be paid.
LegalBids ==
  phase = "bids" =>
    \A p \in Side :
      /\ bidding[p] # "idle"
      /\ bidding[p] = "done" => BidAllowed(bid[p], money[p])

\* How often the bottle has moved.
Moves == IF phase = "report" THEN round + 1 ELSE round

\* Every settled round moves the bottle by exactly one place.
Parity == phase # "over" => (bottle - BOTTLE_START) % 2 = Moves % 2

\* A round is only played before the last one is over and with the bottle not home.
RoundsLeft ==
  /\ phase \in {"bids", "report"} => round < MAX_GAME_ROUNDS
  /\ phase = "bids" => ~BottleHome

\* A bid loop that has failed is dealt with before anything else happens.
FailureIsFinal ==
  phase \notin {"bids", "over"} => \A p \in Side : bidding[p] # "failed"

\* A player is only asked while it has a chance left.
ChancesLeft ==
  phase = "bids" =>
    \A p \in Side : bidding[p] = "asking" => error_count[p] < MAX_BID_ERRORS

\* There is a result when the game is over, and only then.
OverMeansOutcome == phase = "over" <=> outcome # "none"

IInv ==
  /\ TypeOK
  /\ LegalBids
  /\ Parity
  /\ RoundsLeft
  /\ FailureIsFinal
  /\ ChancesLeft
  /\ OverMeansOutcome
  /\ OutcomeMatchesBottle
  /\ ProgressIsPaidFor
  /\ BlameIsDeserved

-----------------------------------------------------------------------------
\* One step up or down changes the parity.
LEMMA ParityStep ==
  ASSUME NEW b \in Int, NEW r \in Int, b % 2 = r % 2
  PROVE  (b + 1) % 2 = (r + 1) % 2 /\ (b - 1) % 2 = (r + 1) % 2
  BY SMT

\* The distances of the two ends have the other parity than the number of rounds.
LEMMA HomeIsOffParity ==
  /\ (BOTTLE_MAX - BOTTLE_START) % 2 # MAX_GAME_ROUNDS % 2
  /\ (BOTTLE_MIN - BOTTLE_START) % 2 # MAX_GAME_ROUNDS % 2
  BY GameAssumption, ParityAssumption, SMT

LEMMA InitIInv == Init => IInv
<1> SUFFICES ASSUME Init PROVE IInv
  OBVIOUS
<1>1. TypeOK
  BY GameAssumption, SMT DEF Init, TypeOK, Side
<1>2. LegalBids /\ RoundsLeft /\ FailureIsFinal /\ ChancesLeft /\ OverMeansOutcome /\ OutcomeMatchesBottle /\ BlameIsDeserved
  BY DEF Init, LegalBids, RoundsLeft, FailureIsFinal, ChancesLeft, OverMeansOutcome, OutcomeMatchesBottle, BlameIsDeserved
<1>3. Parity
  BY GameAssumption, SMT DEF Init, Parity, Moves
<1>4. ProgressIsPaidFor
  BY GameAssumption, SMT DEF Init, ProgressIsPaidFor, Side
<1> QED BY <1>1, <1>2, <1>3, <1>4 DEF IInv

\* Giving up on a player ends the game and blames one that failed.
LEMMA AbandonIInv ==
  ASSUME IInv, phase # "over", gone' = gone,
         NEW failed \in SUBSET Side, Abandon(failed),
         \A p \in failed : p \in gone \/ bidding[p] = "failed",
         "A" \notin failed => bidding["A"] # "failed"
  PROVE  IInv'
<1> USE DEF Abandon, Return, AbandonedBy, Side
<1>1. TypeOK'
  BY SMT DEF IInv, TypeOK, boardVars, bidVars
<1>2. LegalBids' /\ RoundsLeft' /\ FailureIsFinal' /\ ChancesLeft' /\ OverMeansOutcome' /\ Parity'
  BY SMT DEF LegalBids, RoundsLeft, FailureIsFinal, ChancesLeft, OverMeansOutcome, Parity
<1>3. OutcomeMatchesBottle'
  BY SMT DEF OutcomeMatchesBottle
<1>4. ProgressIsPaidFor'
  BY SMT DEF IInv, ProgressIsPaidFor, boardVars
<1>5. BlameIsDeserved'
  <2>1. "A" \notin failed => "B" \in failed
    OBVIOUS
  <2> QED BY <2>1, SMT DEF BlameIsDeserved, bidVars
<1> QED BY <1>1, <1>2, <1>3, <1>4, <1>5 DEF IInv

LEMMA SendStartIInv == IInv /\ SendStart => IInv'
<1> SUFFICES ASSUME IInv, SendStart PROVE IInv'
  OBVIOUS
<1> PICK failed \in Failures :
      \/ Abandon(failed)
      \/ /\ failed = {}
         /\ phase' = "round"
         /\ UNCHANGED <<boardVars, bidVars, outcome>>
  BY DEF SendStart
<1>1. CASE Abandon(failed)
  BY <1>1, AbandonIInv, SMT DEF SendStart, IInv, TypeOK, Failures, FailureIsFinal, Side
<1>2. CASE failed = {} /\ phase' = "round" /\ UNCHANGED <<boardVars, bidVars, outcome>>
  <2> USE <1>2 DEF SendStart, boardVars, bidVars
  <2>1. TypeOK' /\ ProgressIsPaidFor'
    BY DEF IInv, TypeOK, ProgressIsPaidFor
  <2>2. LegalBids' /\ RoundsLeft' /\ FailureIsFinal' /\ ChancesLeft' /\ OverMeansOutcome'
    BY DEF IInv, LegalBids, RoundsLeft, FailureIsFinal, ChancesLeft, OverMeansOutcome
  <2>3. Parity'
    BY DEF IInv, Parity, Moves
  <2>4. OutcomeMatchesBottle' /\ BlameIsDeserved'
    BY DEF IInv, OutcomeMatchesBottle, BottleHome, BlameIsDeserved
  <2> QED BY <2>1, <2>2, <2>3, <2>4 DEF IInv
<1> QED BY <1>1, <1>2

LEMMA BeginRoundIInv == IInv /\ BeginRound => IInv'
<1> SUFFICES ASSUME IInv, BeginRound PROVE IInv'
  OBVIOUS
<1> PICK failed \in Failures :
      \/ Abandon(failed)
      \/ /\ failed = {}
         /\ BottleHome
         /\ Return(WinnerAtHome)
         /\ UNCHANGED <<boardVars, bidVars>>
      \/ /\ failed = {}
         /\ ~BottleHome
         /\ phase' = "bids"
         /\ bidding' = [p \in Side |-> "asking"]
         /\ error_count' = [p \in Side |-> 0]
         /\ UNCHANGED <<boardVars, bid, outcome>>
  BY DEF BeginRound
<1> USE DEF BeginRound
<1>1. CASE Abandon(failed)
  BY <1>1, AbandonIInv, SMT DEF IInv, TypeOK, Failures, FailureIsFinal, Side
<1>2. CASE BottleHome /\ Return(WinnerAtHome) /\ UNCHANGED <<boardVars, bidVars>>
  <2> USE <1>2 DEF Return, WinnerAtHome, boardVars, bidVars
  <2>1. TypeOK' /\ ProgressIsPaidFor'
    BY DEF IInv, TypeOK, ProgressIsPaidFor
  <2>2. LegalBids' /\ RoundsLeft' /\ FailureIsFinal' /\ ChancesLeft' /\ OverMeansOutcome' /\ Parity'
    BY DEF LegalBids, RoundsLeft, FailureIsFinal, ChancesLeft, OverMeansOutcome, Parity
  <2>3. OutcomeMatchesBottle' /\ BlameIsDeserved'
    BY DEF OutcomeMatchesBottle, BottleHome, BlameIsDeserved
  <2> QED BY <2>1, <2>2, <2>3 DEF IInv
<1>3. CASE /\ ~BottleHome
           /\ phase' = "bids"
           /\ bidding' = [p \in Side |-> "asking"]
           /\ error_count' = [p \in Side |-> 0]
           /\ UNCHANGED <<boardVars, bid, outcome>>
  <2> USE <1>3 DEF boardVars
  <2>1. TypeOK' /\ ProgressIsPaidFor'
    BY GameAssumption DEF IInv, TypeOK, ProgressIsPaidFor
  <2>2. LegalBids' /\ FailureIsFinal' /\ ChancesLeft' /\ OverMeansOutcome'
    BY GameAssumption DEF IInv, LegalBids, FailureIsFinal, ChancesLeft, OverMeansOutcome
  <2>3. RoundsLeft'
    BY SMT DEF RoundsLeft, BottleHome
  <2>4. Parity'
    BY DEF IInv, Parity, Moves
  <2>5. OutcomeMatchesBottle' /\ BlameIsDeserved'
    BY DEF IInv, OverMeansOutcome, OutcomeMatchesBottle, BlameIsDeserved
  <2> QED BY <2>1, <2>2, <2>3, <2>4, <2>5 DEF IInv
<1> QED BY <1>1, <1>2, <1>3

\* The parity of the moves keeps the bottle off both ends when the loop ends.
LEMMA OutOfRoundsIInv == IInv /\ OutOfRounds => IInv'
<1> SUFFICES ASSUME IInv, OutOfRounds PROVE IInv'
  OBVIOUS
<1> USE DEF OutOfRounds, Return, boardVars, bidVars
<1>1. ~BottleHome
  <2>1. (bottle - BOTTLE_START) % 2 = MAX_GAME_ROUNDS % 2
    BY DEF IInv, Parity, Moves
  <2> QED BY <2>1, HomeIsOffParity DEF BottleHome
<1>2. TypeOK' /\ ProgressIsPaidFor'
  BY DEF IInv, TypeOK, ProgressIsPaidFor
<1>3. LegalBids' /\ RoundsLeft' /\ FailureIsFinal' /\ ChancesLeft' /\ OverMeansOutcome' /\ Parity'
  BY DEF LegalBids, RoundsLeft, FailureIsFinal, ChancesLeft, OverMeansOutcome, Parity
<1>4. OutcomeMatchesBottle' /\ BlameIsDeserved'
  BY <1>1 DEF OutcomeMatchesBottle, BottleHome, BlameIsDeserved
<1> QED BY <1>2, <1>3, <1>4 DEF IInv

-----------------------------------------------------------------------------
(* The bid loops. *)

\* An iteration of a bid loop changes its own status, errors and bid and
\* nothing else; if it accepts a bid, it is one the player can pay.
LEMMA AnswerIInv ==
  ASSUME IInv, NEW p \in Side, Asking(p),
         NEW status \in {"asking", "done", "failed"}, NEW errors \in 0..MAX_BID_ERRORS,
         NEW amount \in 0..START_MONEY,
         bidding' = [bidding EXCEPT ![p] = status],
         error_count' = [error_count EXCEPT ![p] = errors],
         bid' = [bid EXCEPT ![p] = amount],
         status = "done" => BidAllowed(amount, money[p]),
         status = "asking" => errors < MAX_BID_ERRORS
  PROVE  IInv'
<1> USE DEF Asking, boardVars
<1>1. TypeOK'
  BY DEF IInv, TypeOK
<1>2. LegalBids'
  BY DEF IInv, TypeOK, LegalBids, BidAllowed
<1>3. Parity' /\ RoundsLeft' /\ OverMeansOutcome'
  BY DEF IInv, Parity, Moves, RoundsLeft, BottleHome, OverMeansOutcome
<1>4. FailureIsFinal' /\ ChancesLeft' /\ OutcomeMatchesBottle' /\ BlameIsDeserved'
  BY DEF IInv, TypeOK, FailureIsFinal, ChancesLeft, OverMeansOutcome, OutcomeMatchesBottle, BlameIsDeserved
<1>5. ProgressIsPaidFor'
  BY DEF IInv, ProgressIsPaidFor
<1> QED BY <1>1, <1>2, <1>3, <1>4, <1>5 DEF IInv

LEMMA StrikeIInv ==
  ASSUME IInv, NEW p \in Side, Asking(p), Strike(p)
  PROVE  IInv'
<1> DEFINE status == IF error_count[p] + 1 < MAX_BID_ERRORS THEN bidding[p] ELSE "failed"
<1>1. /\ error_count[p] + 1 \in 0..MAX_BID_ERRORS
      /\ bid[p] \in 0..START_MONEY
      /\ status \in {"asking", "failed"}
      /\ status = "asking" => error_count[p] + 1 < MAX_BID_ERRORS
  BY GameAssumption DEF IInv, TypeOK, ChancesLeft, Asking
<1>2. /\ bidding' = [bidding EXCEPT ![p] = status]
      /\ error_count' = [error_count EXCEPT ![p] = error_count[p] + 1]
      /\ bid' = [bid EXCEPT ![p] = bid[p]]
  BY DEF Strike, IInv, TypeOK
<1> QED BY <1>1, <1>2, AnswerIInv

\* A panic ends the game without a result.
LEMMA OverflowIInv == ASSUME IInv, NEW p \in Side, Overflow(p) PROVE IInv'
<1> USE DEF Overflow, Return, boardVars, bidVars
<1>1. TypeOK' /\ ProgressIsPaidFor'
  BY DEF IInv, TypeOK, ProgressIsPaidFor
<1>2. LegalBids' /\ RoundsLeft' /\ FailureIsFinal' /\ ChancesLeft' /\ OverMeansOutcome' /\ Parity'
  BY DEF LegalBids, RoundsLeft, FailureIsFinal, ChancesLeft, OverMeansOutcome, Parity
<1>3. OutcomeMatchesBottle' /\ BlameIsDeserved'
  BY DEF OutcomeMatchesBottle, BlameIsDeserved
<1> QED BY <1>1, <1>2, <1>3 DEF IInv

LEMMA BidderIInv == ASSUME IInv, NEW p \in Side, Answer(p) PROVE IInv'
<1>1. CASE NoAnswer(p)
  <2>1. /\ bidding' = [bidding EXCEPT ![p] = "failed"]
        /\ error_count' = [error_count EXCEPT ![p] = error_count[p]]
        /\ bid' = [bid EXCEPT ![p] = bid[p]]
        /\ error_count[p] \in 0..MAX_BID_ERRORS
        /\ bid[p] \in 0..START_MONEY
    BY <1>1 DEF NoAnswer, BidFails, IInv, TypeOK
  <2> QED BY <1>1, <2>1, AnswerIInv DEF NoAnswer
<1>2. CASE BadAnswer(p)
  BY <1>2, StrikeIInv DEF BadAnswer
<1>3. CASE \E amount \in Amounts : AnswerBid(p, amount)
  <2> PICK amount \in Amounts : AnswerBid(p, amount)
    BY <1>3
  <2>1. CASE BidAllowed(amount, money[p])
    <3>1. /\ bidding' = [bidding EXCEPT ![p] = "done"]
          /\ error_count' = [error_count EXCEPT ![p] = error_count[p]]
          /\ bid' = [bid EXCEPT ![p] = amount]
          /\ error_count[p] \in 0..MAX_BID_ERRORS
      BY <2>1 DEF AnswerBid, IInv, TypeOK
    <3>2. amount \in 0..START_MONEY
      BY <2>1, GameAssumption DEF IInv, TypeOK, BidAllowed, Amounts
    <3> QED BY <2>1, <3>1, <3>2, AnswerIInv DEF AnswerBid
  <2>2. CASE ~BidAllowed(amount, money[p])
    BY <2>2, StrikeIInv DEF AnswerBid
  <2> QED BY <2>1, <2>2
<1>4. CASE Overflow(p)
  BY <1>4, OverflowIInv
<1> QED BY <1>1, <1>2, <1>3, <1>4 DEF Answer

-----------------------------------------------------------------------------
(* Settling and reporting a round. *)

\* The winner of the round takes a step home and pays an allowed bid for it.
LEMMA SettleIInv == IInv /\ Settle => IInv'
<1> SUFFICES ASSUME IInv, Settle PROVE IInv'
  OBVIOUS
<1> DEFINE failed == {p \in Side : bidding[p] = "failed"}
<1> USE DEF Settle
<1>1. CASE Abandon(failed)
  BY <1>1, AbandonIInv DEF Side
<1>2. CASE /\ failed = {}
           /\ bottle' = Moved(RoundWinner)
           /\ money' = Paid(RoundWinner)
           /\ draw_advantage' = IF bid["A"] = bid["B"] THEN ~draw_advantage ELSE draw_advantage
           /\ phase' = "report"
           /\ UNCHANGED <<round, bidVars, outcome>>
  <2> USE <1>2 DEF bidVars
  <2> DEFINE w == RoundWinner
  <2>1. w \in Side
    BY DEF RoundWinner, Side
  <2>2. \A p \in Side : BidAllowed(bid[p], money[p])
    <3>1. \A p \in Side : bidding[p] \notin {"idle", "asking", "failed"}
      BY DEF IInv, LegalBids
    <3> QED BY <3>1 DEF IInv, TypeOK, LegalBids
  <2>3. /\ bottle \in (BOTTLE_MIN + 1)..(BOTTLE_MAX - 1)
        /\ round \in 0..(MAX_GAME_ROUNDS - 1)
    BY GameAssumption DEF IInv, TypeOK, RoundsLeft, BottleHome
  <2>4. /\ bottle' = IF w = "A" THEN bottle + 1 ELSE bottle - 1
        /\ money' = [money EXCEPT ![w] = money[w] - bid[w]]
    BY DEF Moved, Paid, IInv, TypeOK
  <2> HIDE DEF w
  <2>5. TypeOK'
    <3>1. money[w] - bid[w] \in 0..START_MONEY
      BY <2>1, <2>2, GameAssumption DEF IInv, TypeOK, BidAllowed
    <3>2. money' \in [Side -> 0..START_MONEY]
      BY <2>1, <2>4, <3>1 DEF IInv, TypeOK
    <3>3. bottle' \in BOTTLE_MIN..BOTTLE_MAX
      BY <2>3, <2>4, GameAssumption
    <3>4. draw_advantage' \in BOOLEAN
      BY DEF IInv, TypeOK
    <3> QED BY <3>2, <3>3, <3>4 DEF IInv, TypeOK
  <2>6. Parity'
    BY <2>3, <2>4, ParityStep, GameAssumption DEF IInv, Parity, Moves
  <2>7. ProgressIsPaidFor'
    <3>1. CASE w = "A"
      <4>1. /\ money' = [money EXCEPT !["A"] = money["A"] - bid["A"]]
            /\ bottle' = bottle + 1
        BY <2>4, <3>1
      <4>2. /\ money["A"] \in 0..START_MONEY /\ money["B"] \in 0..START_MONEY
            /\ bid["A"] \in 0..money["A"]
            /\ bid["A"] = 0 => money["A"] = 0
            /\ money'["A"] = money["A"] - bid["A"]
            /\ money'["B"] = money["B"]
        BY <4>1, <2>2 DEF IInv, TypeOK, BidAllowed, Side
      <4> QED BY <4>1, <4>2, <2>3, GameAssumption DEF IInv, ProgressIsPaidFor
    <3>2. CASE w = "B"
      <4>1. /\ money' = [money EXCEPT !["B"] = money["B"] - bid["B"]]
            /\ bottle' = bottle - 1
        BY <2>4, <3>2
      <4>2. /\ money["A"] \in 0..START_MONEY /\ money["B"] \in 0..START_MONEY
            /\ bid["B"] \in 0..money["B"]
            /\ bid["B"] = 0 => money["B"] = 0
            /\ money'["B"] = money["B"] - bid["B"]
            /\ money'["A"] = money["A"]
        BY <4>1, <2>2 DEF IInv, TypeOK, BidAllowed, Side
      <4> QED BY <4>1, <4>2, <2>3, GameAssumption DEF IInv, ProgressIsPaidFor
    <3> QED BY <2>1, <3>1, <3>2 DEF Side
  <2>8. LegalBids' /\ RoundsLeft' /\ OverMeansOutcome' /\ FailureIsFinal' /\ ChancesLeft'
    BY <2>3, GameAssumption
       DEF IInv, LegalBids, RoundsLeft, OverMeansOutcome, FailureIsFinal, ChancesLeft
  <2>9. OutcomeMatchesBottle' /\ BlameIsDeserved'
    BY DEF IInv, OverMeansOutcome, OutcomeMatchesBottle, BlameIsDeserved
  <2> QED BY <2>5, <2>6, <2>7, <2>8, <2>9 DEF IInv
<1> QED BY <1>1, <1>2

LEMMA ReportIInv == IInv /\ Report => IInv'
<1> SUFFICES ASSUME IInv, Report PROVE IInv'
  OBVIOUS
<1> PICK failed \in Failures :
      \/ Abandon(failed)
      \/ /\ failed = {}
         /\ phase' = "round"
         /\ round' = round + 1
         /\ bidding' = [p \in Side |-> "idle"]
         /\ error_count' = [p \in Side |-> 0]
         /\ bid' = [p \in Side |-> 0]
         /\ UNCHANGED <<money, bottle, draw_advantage, outcome>>
  BY DEF Report, RoundAfter
<1> USE DEF Report
<1>1. CASE Abandon(failed)
  BY <1>1, AbandonIInv, SMT DEF IInv, TypeOK, Failures, FailureIsFinal, Side
<1>2. CASE /\ phase' = "round"
           /\ round' = round + 1
           /\ bidding' = [p \in Side |-> "idle"]
           /\ error_count' = [p \in Side |-> 0]
           /\ bid' = [p \in Side |-> 0]
           /\ UNCHANGED <<money, bottle, draw_advantage, outcome>>
  <2> USE <1>2
  <2>1. TypeOK' /\ ProgressIsPaidFor'
    BY GameAssumption DEF IInv, TypeOK, RoundsLeft, ProgressIsPaidFor
  <2>2. LegalBids' /\ RoundsLeft' /\ FailureIsFinal' /\ ChancesLeft' /\ OverMeansOutcome'
    BY DEF IInv, LegalBids, RoundsLeft, FailureIsFinal, ChancesLeft, OverMeansOutcome
  <2>3. Parity'
    BY DEF IInv, Parity, Moves
  <2>4. OutcomeMatchesBottle' /\ BlameIsDeserved'
    BY DEF IInv, OverMeansOutcome, OutcomeMatchesBottle, BlameIsDeserved
  <2> QED BY <2>1, <2>2, <2>3, <2>4 DEF IInv
<1> QED BY <1>1, <1>2

\* A client that goes away changes nothing but whom a game may blame.
LEMMA LeaveIInv == ASSUME IInv, NEW p \in Side, Leave(p) PROVE IInv'
<1> USE DEF Leave, boardVars, bidVars
<1>1. TypeOK' /\ ProgressIsPaidFor'
  BY DEF IInv, TypeOK, ProgressIsPaidFor
<1>2. LegalBids' /\ RoundsLeft' /\ FailureIsFinal' /\ ChancesLeft' /\ OverMeansOutcome'
  BY DEF IInv, LegalBids, RoundsLeft, BottleHome, FailureIsFinal, ChancesLeft, OverMeansOutcome
<1>3. Parity'
  BY DEF IInv, Parity, Moves
<1>4. OutcomeMatchesBottle' /\ BlameIsDeserved'
  BY DEF IInv, OverMeansOutcome, OutcomeMatchesBottle, BlameIsDeserved
<1> QED BY <1>1, <1>2, <1>3, <1>4 DEF IInv

-----------------------------------------------------------------------------
LEMMA StutterIInv == IInv /\ UNCHANGED vars => IInv'
BY DEF vars, boardVars, bidVars, IInv, TypeOK, LegalBids, Parity, Moves, RoundsLeft,
       BottleHome, FailureIsFinal, ChancesLeft, OverMeansOutcome, OutcomeMatchesBottle,
       ProgressIsPaidFor, BlameIsDeserved

\* The invariant holds throughout every game.
THEOREM Invariance == Spec => []IInv
<1>1. IInv /\ [Next]_vars => IInv'
  <2> SUFFICES ASSUME IInv, [Next]_vars PROVE IInv'
    OBVIOUS
  <2>1. CASE Server
    BY <2>1, SendStartIInv, BeginRoundIInv, OutOfRoundsIInv, SettleIInv, ReportIInv DEF Server
  <2>2. CASE \E p \in Side : Answer(p)
    BY <2>2, BidderIInv
  <2>3. CASE \E p \in Side : Leave(p)
    BY <2>3, LeaveIInv
  <2>4. CASE UNCHANGED vars
    BY <2>4, StutterIInv
  <2> QED BY <2>1, <2>2, <2>3, <2>4 DEF Next
<1> QED BY InitIInv, <1>1, PTL DEF Spec

\* The money and the bottle (run_game's unchecked u32 arithmetic) never leave
\* their ranges.
THEOREM TypeCorrect == Spec => []TypeOK
<1>1. IInv => TypeOK
  BY DEF IInv
<1> QED BY Invariance, <1>1, PTL

\* run_game returns a win exactly with the bottle home, and never calls a won
\* game a draw although it does not look at the bottle after the last round.
THEOREM OutcomeCorrect == Spec => []OutcomeMatchesBottle
<1>1. IInv => OutcomeMatchesBottle
  BY DEF IInv
<1> QED BY Invariance, <1>1, PTL

\* The bid rule of get_bid_from_client makes every step of the bottle cost
\* something, for any amount of money.
THEOREM ProgressPaid == Spec => []ProgressIsPaidFor
<1>1. IInv => ProgressIsPaidFor
  BY DEF IInv
<1> QED BY Invariance, <1>1, PTL

\* The side an abandoned game is blamed on did leave or fail.
THEOREM BlameCorrect == Spec => []BlameIsDeserved
<1>1. IInv => BlameIsDeserved
  BY DEF IInv
<1> QED BY Invariance, <1>1, PTL

=============================================================================
