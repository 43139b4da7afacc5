SPECIFICATION Spec
CONSTANTS
  Names = {n1, n2}
  Conns = {c1, c2}
  GMs = {g1}
  NoName = NoName
  NoConn = NoConn
  Relogin = {}
  Laggards = {n1, n2}
  Endless = {}
  Overflows = {}
  DbReliable = FALSE
  MaxStat = 0
SYMMETRY Symmetry
INVARIANTS InGameMeansBooked
\* Clients may all stay away, and game masters exit.
CHECK_DEADLOCK FALSE
