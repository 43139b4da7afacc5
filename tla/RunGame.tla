------------------------------- MODULE RunGame -------------------------------
(***************************************************************************)
(* One game between players A and B: run_game and the two concurrent       *)
(* get_bid_from_client loops it joins in every round.                      *)
(*                                                                         *)
(* A player holds the bottle's end: A wins at BOTTLE_MAX, B at BOTTLE_MIN. *)
(* Each round both bid; the higher bid pays and moves the bottle one step, *)
(* equal bids go to the holder of the draw advantage, which then changes   *)
(* hands.                                                                  *)
(***************************************************************************)
EXTENDS Integers

CONSTANTS
  MAX_GAME_ROUNDS,  \* 10
  BOTTLE_MIN,       \* 0
  BOTTLE_MAX,       \* 10
  BOTTLE_START,     \* 5
  START_MONEY,      \* 100
  MAX_BID_ERRORS,   \* 3
  Endless,          \* sides whose client may keep a read from ever ending
  Overflows         \* sides whose client may send a third length byte to a checked build

Side == {"A", "B"}

ASSUME GameAssumption ==
  /\ MAX_GAME_ROUNDS \in Nat
  /\ BOTTLE_MIN \in Nat /\ BOTTLE_MAX \in Nat /\ BOTTLE_START \in Nat
  /\ BOTTLE_MIN < BOTTLE_START /\ BOTTLE_START < BOTTLE_MAX
  /\ START_MONEY \in Nat
  /\ MAX_BID_ERRORS \in Nat \ {0}
  /\ Endless \cup Overflows \subseteq Side

\* Neither end can be reached in exactly MAX_GAME_ROUNDS moves.  The code never
\* says so, but its constants satisfy it and its draw depends on it.
ASSUME ParityAssumption ==
  /\ (BOTTLE_MAX - BOTTLE_START) % 2 # MAX_GAME_ROUNDS % 2
  /\ (BOTTLE_START - BOTTLE_MIN) % 2 # MAX_GAME_ROUNDS % 2

VARIABLES
  phase,           \* where run_game stands
  round,           \* rounds completed
  money,           \* player_a_money_left, player_b_money_left
  bottle,          \* bottle_position
  draw_advantage,  \* TRUE: equal bids go to A
  bidding,         \* each bid loop: "idle", "asking", "done" or "failed"
  error_count,     \* each bid loop's errors
  bid,             \* each bid loop's result, meaningful when "done"
  gone,            \* clients whose socket is dead
  outcome          \* what run_game returned, "none", or "panicked"

bidVars == <<bidding, error_count, bid>>
boardVars == <<round, money, bottle, draw_advantage>>
vars == <<phase, boardVars, bidVars, gone, outcome>>

-----------------------------------------------------------------------------
\* A send fails only on a dead socket, but may still succeed on one.  The
\* handler looks at A's result first.
Failures == SUBSET gone

\* Variant with a bug: the match of create_game_result_abandoned swapped.
OtherAbandoned(failed) ==
  IF "A" \in failed THEN "PlayerBAbandoned" ELSE "PlayerAAbandoned"

AbandonedBy(failed) ==
  IF "A" \in failed THEN "PlayerAAbandoned" ELSE "PlayerBAbandoned"

Return(result) == phase' = "over" /\ outcome' = result

Abandon(failed) ==
  /\ failed # {}
  /\ Return(AbandonedBy(failed))
  /\ UNCHANGED <<boardVars, bidVars>>

\* GAME_START to both.
SendStart ==
  /\ phase = "start"
  /\ \E failed \in Failures :
       \/ Abandon(failed)
       \/ /\ failed = {}
          /\ phase' = "round"
          /\ UNCHANGED <<boardVars, bidVars, outcome>>
  /\ UNCHANGED gone

\* The side whose end the bottle has reached.
BottleHome == bottle \in {BOTTLE_MIN, BOTTLE_MAX}

WinnerAtHome == IF bottle = BOTTLE_MIN THEN "PlayerBWins" ELSE "PlayerAWins"

\* ROUND_START to both, then the check for a winner, then the two bid loops.
BeginRound ==
  /\ phase = "round"
  /\ round < MAX_GAME_ROUNDS
  /\ \E failed \in Failures :
       \/ Abandon(failed)
       \/ /\ failed = {}
          /\ BottleHome
          /\ Return(WinnerAtHome)
          /\ UNCHANGED <<boardVars, bidVars>>
       \/ /\ failed = {}
          /\ ~BottleHome
          /\ phase' = "bids"
          /\ bidding' = [p \in Side |-> "asking"]
          /\ error_count' = [p \in Side |-> 0]
          /\ UNCHANGED <<boardVars, bid, outcome>>
  /\ UNCHANGED gone

\* Variant with a bug: 1..MAX_GAME_ROUNDS, one round less.
OutOfRoundsEarly ==
  /\ phase = "round"
  /\ round = MAX_GAME_ROUNDS - 1
  /\ Return("Draw")
  /\ UNCHANGED <<boardVars, bidVars, gone>>

\* The for loop is exhausted.
OutOfRounds ==
  /\ phase = "round"
  /\ round = MAX_GAME_ROUNDS
  /\ Return("Draw")
  /\ UNCHANGED <<boardVars, bidVars, gone>>

-----------------------------------------------------------------------------
(* get_bid_from_client, one iteration per action. *)

BidFails(p) ==
  /\ bidding' = [bidding EXCEPT ![p] = "failed"]
  /\ UNCHANGED <<error_count, bid>>

\* One more error; the third is MaxBidErrorsReached.
Strike(p) ==
  /\ error_count' = [error_count EXCEPT ![p] = @ + 1]
  /\ bidding' = [bidding EXCEPT ![p] =
                   IF error_count[p] + 1 < MAX_BID_ERRORS THEN @ ELSE "failed"]
  /\ UNCHANGED bid

\* Variant with a bug: a player with money may bid 0.
FreeBidAllowed(amount, left) == amount <= left

\* You cannot bid more than you have, nor 0 unless 0 is all you have.
BidAllowed(amount, left) == amount <= left /\ (amount = 0 => left = 0)

Asking(p) ==
  /\ phase = "bids"
  /\ bidding[p] = "asking"
  /\ UNCHANGED <<phase, boardVars, gone, outcome>>

\* BID_REQUEST, BID_REJECT or ACK cannot be sent, or a byte of the length prefix
\* of the answer does not arrive in SOCKET_READ_TIMEOUT: ErrorOnRead, for a closed
\* socket and for a silent client alike.
NoAnswer(p) == Asking(p) /\ BidFails(p)

\* The body is late (PlayerTimedOut), does not parse, is of another type or
\* names no amount.
BadAnswer(p) == Asking(p) /\ Strike(p)

AnswerBid(p, amount) ==
  /\ Asking(p)
  /\ IF BidAllowed(amount, money[p])
       THEN /\ bid' = [bid EXCEPT ![p] = amount]
            /\ bidding' = [bidding EXCEPT ![p] = "done"]
            /\ UNCHANGED error_count
       ELSE Strike(p)

\* The third byte of a length is shifted past the width of a byte: a checked
\* build panics, and the game is over for the game master's task, too.
Overflow(p) ==
  /\ phase = "bids"
  /\ bidding[p] = "asking"
  /\ p \in Overflows
  /\ Return("panicked")
  /\ UNCHANGED <<boardVars, bidVars, gone>>

-----------------------------------------------------------------------------
\* Who moves the bottle.
RoundWinner ==
  IF bid["A"] > bid["B"] \/ (bid["A"] = bid["B"] /\ draw_advantage) THEN "A" ELSE "B"

Moved(p) == IF p = "A" THEN bottle + 1 ELSE bottle - 1

\* Variant with a bug: the loser of the round pays the winning bid.
LoserPays(p) == [money EXCEPT ![IF p = "A" THEN "B" ELSE "A"] = @ - bid[p]]

Paid(p) == [money EXCEPT ![p] = @ - bid[p]]

\* join! returns when both loops have ended.
Settle ==
  /\ phase = "bids"
  /\ \A p \in Side : bidding[p] # "asking"
  /\ LET failed == {p \in Side : bidding[p] = "failed"} IN
       \/ Abandon(failed)
       \/ /\ failed = {}
          /\ bottle' = Moved(RoundWinner)
          /\ money' = Paid(RoundWinner)
          /\ draw_advantage' = IF bid["A"] = bid["B"] THEN ~draw_advantage ELSE draw_advantage
          /\ phase' = "report"
          /\ UNCHANGED <<round, bidVars, outcome>>
  /\ UNCHANGED gone

\* Variant with a bug: a round with equal bids is played again.
RoundAfterDrawSame == IF bid["A"] = bid["B"] THEN round ELSE round + 1

RoundAfter == round + 1

\* BID_RESULT to A, then to B; the loop variables are fresh in the next round.
Report ==
  /\ phase = "report"
  /\ \E failed \in Failures :
       \/ Abandon(failed)
       \/ /\ failed = {}
          /\ phase' = "round"
          /\ round' = RoundAfter
          /\ bidding' = [p \in Side |-> "idle"]
          /\ error_count' = [p \in Side |-> 0]
          /\ bid' = [p \in Side |-> 0]
          /\ UNCHANGED <<money, bottle, draw_advantage, outcome>>
  /\ UNCHANGED gone

\* A client goes away.
Leave(p) ==
  /\ phase # "over"
  /\ p \notin gone
  /\ gone' = gone \cup {p}
  /\ UNCHANGED <<phase, boardVars, bidVars, outcome>>

Init ==
  /\ phase = "start"
  /\ round = 0
  /\ money = [p \in Side |-> START_MONEY]
  /\ bottle = BOTTLE_START
  /\ draw_advantage = TRUE
  /\ bidding = [p \in Side |-> "idle"]
  /\ error_count = [p \in Side |-> 0]
  /\ bid = [p \in Side |-> 0]
  /\ gone = {}
  /\ outcome = "none"

\* Amounts above the money a player has are all alike: one of them is enough.
Amounts == 0..(START_MONEY + 1)

Answer(p) ==
  \/ NoAnswer(p)
  \/ BadAnswer(p)
  \/ Overflow(p)
  \/ \E amount \in Amounts : AnswerBid(p, amount)

Server == SendStart \/ BeginRound \/ OutOfRounds \/ Settle \/ Report

Next ==
  \/ Server
  \/ \E p \in Side : Answer(p)
  \/ \E p \in Side : Leave(p)

Spec == Init /\ [][Next]_vars

(* Fairness.  The sends are small enough for the socket buffer to take.  A  *)
(* read has a timeout, but every byte of a length has one of its own: a     *)
(* client in Endless that stays may drip the bytes of a length for ever.    *)

\* The read of the bid of p may never end.
Drags(p) == phase = "bids" /\ bidding[p] = "asking" /\ p \in Endless \ gone

FairSpec ==
  Spec /\ WF_vars(Server) /\ \A p \in Side : WF_vars(~Drags(p) /\ Answer(p))

-----------------------------------------------------------------------------
(* Properties. *)

\* Every variable has its type.  The code's money and bottle are u32 and are
\* decremented unchecked: their ranges say that nothing wraps below zero.
TypeOK ==
  /\ phase \in {"start", "round", "bids", "report", "over"}
  /\ round \in 0..MAX_GAME_ROUNDS
  /\ money \in [Side -> 0..START_MONEY]
  /\ bottle \in BOTTLE_MIN..BOTTLE_MAX
  /\ draw_advantage \in BOOLEAN
  /\ bidding \in [Side -> {"idle", "asking", "done", "failed"}]
  /\ error_count \in [Side -> 0..MAX_BID_ERRORS]
  /\ bid \in [Side -> 0..START_MONEY]
  /\ gone \in SUBSET Side
  /\ outcome \in {"none", "PlayerAWins", "PlayerBWins", "Draw",
                  "PlayerAAbandoned", "PlayerBAbandoned", "panicked"}

\* The result agrees with the bottle: a winner has it home, and a draw leaves
\* it between the ends although the loop ends without looking at it again.
OutcomeMatchesBottle ==
  /\ outcome = "PlayerAWins" => bottle = BOTTLE_MAX
  /\ outcome = "PlayerBWins" => bottle = BOTTLE_MIN
  /\ outcome = "Draw" => ~BottleHome

\* Nobody gets the bottle nearer home for free: a side that still has money
\* has paid at least 1 for every step the bottle stands on its side.
ProgressIsPaidFor ==
  /\ money["A"] = 0 \/ START_MONEY - money["A"] >= bottle - BOTTLE_START
  /\ money["B"] = 0 \/ START_MONEY - money["B"] >= BOTTLE_START - bottle

\* Whoever is said to have abandoned the game has left or failed to bid, and
\* B is only blamed when A has not failed to bid.
BlameIsDeserved ==
  /\ outcome = "PlayerAAbandoned" => "A" \in gone \/ bidding["A"] = "failed"
  /\ outcome = "PlayerBAbandoned" =>
       /\ "B" \in gone \/ bidding["B"] = "failed"
       /\ bidding["A"] # "failed"

\* Every game ends, be it with a panic, whatever the clients send and whenever they
\* go, unless one of them keeps a read from ending for ever.
Termination == (\A p \in Side : []<>~Drags(p)) => <>(phase = "over")

\* A client that is still connected is only given up after all its chances
\* (the log line of get_bid_from_client: "They have {} chances left").
AbandonedAfterAllChances ==
  /\ outcome = "PlayerAAbandoned" => "A" \in gone \/ error_count["A"] = MAX_BID_ERRORS
  /\ outcome = "PlayerBAbandoned" => "B" \in gone \/ error_count["B"] = MAX_BID_ERRORS

=============================================================================
