SPECIFICATION Spec
CONSTANTS
  Names = {NoName, n1, n2, n3}
  Conns = {c1, c2, c3, c4}
  GMs = {g1, g2}
  NoName = NoName
  NoConn = NoConn
  Relogin = {}
  Laggards = {NoName, n1, n2, n3}
  Endless = {}
  Overflows = {NoName, n1, n2, n3}
  DbReliable = FALSE
  MaxStat = 0
SYMMETRY Symmetry
INVARIANTS NoDoubleBooking RegistryAgrees
PROPERTIES KeepsItsSession BookedStepByStep
\* Clients may all stay away, and game masters exit.
CHECK_DEADLOCK FALSE
