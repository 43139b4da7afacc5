SPECIFICATION FairSpec
CONSTANTS
  Names = {n1, n2}
  Conns = {c1, c2, c3}
  GMs = {g1, g2}
  NoName = NoName
  NoConn = NoConn
  Relogin = {n1}
  Laggards = {n1, n2}
  Endless = {n1}
  Overflows = {n2}
  DbReliable = FALSE
  MaxStat = 0
INVARIANTS TypeOK OneConversation ResultBeforeRequest GamesAccounted StatsInRange OneOwnerPerSocket
PROPERTIES WindDown 
\* Clients may all stay away, and game masters exit.
CHECK_DEADLOCK FALSE
