SPECIFICATION Spec
CONSTANTS
  MAX_GAME_ROUNDS = 10
  BOTTLE_MIN = 0
  BOTTLE_MAX = 10
  BOTTLE_START = 5
  START_MONEY = 2
  MAX_BID_ERRORS = 3
  Endless = {}
  Overflows = {}
INVARIANTS AbandonedAfterAllChances
\* A game ends.
CHECK_DEADLOCK FALSE
