SPECIFICATION Spec
CONSTANTS
  Conns = {c1, c2}
  Names = {n1, Empty}
  Empty = Empty
  GMs = {g1}
  PM = PM
  Endless = {c2}
  PoolSize = 2
INVARIANTS VerdictStands PoolAccounted
PROPERTIES NobodyHangs ImplementsAdmissions
\* The listener may not open, and clients may all stay away.
CHECK_DEADLOCK FALSE
