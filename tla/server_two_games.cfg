SPECIFICATION Spec
CONSTANTS
  Names = {n1, n2}
  Conns = {c1, c2, c3, c4}
  GMs = {g1, g2}
  NoName = NoName
  NoConn = NoConn
  Relogin = {n1, n2}
  Laggards = {n1, n2}
  Endless = {}
  Overflows = {}
  DbReliable = FALSE
  MaxStat = 0
SYMMETRY Symmetry
INVARIANTS NoDoubleBooking
\* Clients may all stay away, and game masters exit.
CHECK_DEADLOCK FALSE
