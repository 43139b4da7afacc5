SPECIFICATION Spec
CONSTANTS
  Names = {n1, n2, n3, n4}
  GMs = {g1, g2}
  ELO_FLOOR = 2
  K = 2
  MaxElo = 5
INVARIANTS ReadsAreCurrent ToldIsStored LoserPaysLast NobodyBelowFloor
PROPERTIES MovesAtMostK StillBooksAsPromised
\* Nobody plays once every rating is so high that a win could pass MaxElo.
CHECK_DEADLOCK FALSE
