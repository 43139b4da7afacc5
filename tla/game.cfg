SPECIFICATION FairSpec
CONSTANTS
  MAX_GAME_ROUNDS = 10
  BOTTLE_MIN = 0
  BOTTLE_MAX = 10
  BOTTLE_START = 5
  START_MONEY = 7
  MAX_BID_ERRORS = 3
  Endless = {"B"}
  Overflows = {"A"}
INVARIANTS TypeOK OutcomeMatchesBottle ProgressIsPaidFor BlameIsDeserved
PROPERTIES Termination
\* A game ends.
CHECK_DEADLOCK FALSE
