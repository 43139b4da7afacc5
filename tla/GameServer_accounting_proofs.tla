--------------------- MODULE GameServer_accounting_proofs ---------------------
(***************************************************************************)
(* Proofs that the player manager's count of games is right and that a     *)
(* socket serves one player, second logins and panics included, and that   *)
(* the standings balance.                                                  *)
(***************************************************************************)
EXTENDS GameServer_proofs, FiniteSetTheorems

-----------------------------------------------------------------------------
(* The games handed out and not yet accounted for. *)

OutstandingGMs == {g \in GMs : Outstanding(g)}

AccountInv ==
  /\ ConversationInv
  /\ GamesAccounted
  /\ StatsInRange

\* There are never more games than game masters.
LEMMA CountInRange ==
  /\ IsFiniteSet(OutstandingGMs)
  /\ Cardinality(OutstandingGMs) \in 0..Cardinality(GMs)
<1>1. OutstandingGMs \in SUBSET GMs /\ IsFiniteSet(GMs)
  BY ServerAssumption DEF OutstandingGMs
<1>2. IsFiniteSet(OutstandingGMs) /\ Cardinality(OutstandingGMs) <= Cardinality(GMs)
  BY <1>1, FS_Subset
<1>3. Cardinality(OutstandingGMs) \in Nat /\ Cardinality(GMs) \in Nat
  BY <1>1, <1>2, FS_CardinalityType
<1> QED BY <1>2, <1>3

\* What a serving player manager publishes is in range.
LEMMA PublishInRange ==
  ASSUME AccountInv, pm # "stopped", PublishStats
  PROVE  StatsInRange'
<1>1. concurrent_games \in 0..Cardinality(GMs)
  BY CountInRange DEF AccountInv, GamesAccounted, OutstandingGMs
<1> QED BY <1>1 DEF AccountInv, PublishStats, StatsInRange

\* A step that neither hands out a game nor accounts for one.
LEMMA SameGames ==
  ASSUME AccountInv, ConversationInv', StatsInRange',
         pm' # "stopped" =>
           /\ pm # "stopped"
           /\ concurrent_games' = concurrent_games
           /\ \A g \in GMs : Outstanding(g)' <=> Outstanding(g)
  PROVE  AccountInv'
<1>1. ASSUME pm' # "stopped"
      PROVE  concurrent_games' = Cardinality({g \in GMs : Outstanding(g)'})
  <2>1. {g \in GMs : Outstanding(g)'} = {g \in GMs : Outstanding(g)}
    BY <1>1
  <2> QED BY <1>1, <2>1 DEF AccountInv, GamesAccounted
<1>2. GamesAccounted'
  BY <1>1 DEF GamesAccounted
<1> QED BY <1>2 DEF AccountInv

\* A channel that holds one reply.
LEMMA OnlyFacts ==
  ASSUME NEW S, NEW q \in Seq(S), q # <<>>, Len(q) <= 1
  PROVE  /\ Len(q) = 1 /\ DOMAIN q = {1}
         /\ Head(q) = q[1]
         /\ Tail(q) = <<>>
<1>1. Len(q) \in Nat \ {0} /\ DOMAIN q = 1..Len(q) /\ Head(q) = q[1]
  OBVIOUS
<1>2. Len(q) = 1
  BY <1>1
<1>3. DOMAIN q = {1}
  BY <1>1, <1>2
<1>4. Tail(q) \in Seq(S) /\ Len(Tail(q)) = 0
  BY <1>2, <1>1
<1>5. Tail(q) = <<>>
  BY <1>4
<1> QED BY <1>1, <1>2, <1>3, <1>5

\* What is left of the results when the first event is taken.
LEMMA TailResults ==
  ASSUME TypeOK, inbox # <<>>, inbox' = Tail(inbox), NEW h \in GMs, 1 \notin Results(h)
  PROVE  Results(h)' = {} <=> Results(h) = {}
<1>1. /\ DOMAIN inbox = 1..Len(inbox) /\ Len(inbox) \in Nat \ {0}
      /\ DOMAIN inbox' = 1..(Len(inbox) - 1)
      /\ \A i \in DOMAIN inbox' : inbox'[i] = inbox[i + 1]
  BY TailFacts DEF TypeOK
<1>2. ASSUME NEW i \in Results(h)
      PROVE  i - 1 \in Results(h)'
  <2>1. i \in DOMAIN inbox /\ i # 1 /\ inbox[i].type = "GameOver" /\ inbox[i].gm = h
    BY <1>2 DEF Results
  <2>2. i - 1 \in DOMAIN inbox' /\ (i - 1) + 1 = i
    BY <1>1, <2>1
  <2>3. inbox'[i - 1] = inbox[i]
    BY <1>1, <2>2
  <2> QED BY <2>1, <2>2, <2>3 DEF Results
<1>3. \A i : i \in Results(h)' => i + 1 \in Results(h)
  BY TailAsks
<1> QED BY <1>2, <1>3

LEMMA InitAccounts == Init => AccountInv
<1> SUFFICES ASSUME Init PROVE AccountInv
  OBVIOUS
<1>1. OutstandingGMs = {}
  BY DEF Init, OutstandingGMs, Outstanding, Results
<1>2. Cardinality(OutstandingGMs) = 0
  BY <1>1, FS_EmptySet
<1>3. GamesAccounted /\ StatsInRange
  BY <1>2, CountInRange DEF Init, GamesAccounted, StatsInRange, OutstandingGMs
<1> QED BY <1>3, InitConversation DEF AccountInv

-----------------------------------------------------------------------------
(* The player manager keeps the count. *)

\* A login is taken from the queue.
LEMMA NewPlayerAccounts ==
  ASSUME AccountInv, ConversationInv', HandleNewPlayer
  PROVE  AccountInv'
<1>1. /\ inbox # <<>> /\ inbox' = Tail(inbox) /\ Head(inbox).type = "NewPlayer"
      /\ pm = "serving" /\ PublishStats
      /\ UNCHANGED <<pm, concurrent_games, gm, gmbox>>
  BY DEF HandleNewPlayer, Receiving, gmVars
<1>2. \A g \in GMs : Results(g)' = {} <=> Results(g) = {}
  BY <1>1, TailAsks, TailResults DEF AccountInv, ConversationInv
<1>3. \A g \in GMs : Outstanding(g)' <=> Outstanding(g)
  BY <1>1, <1>2 DEF Outstanding
<1>4. StatsInRange'
  BY <1>1, PublishInRange
<1> QED BY <1>1, <1>3, <1>4, SameGames

\* A result is taken from the queue: its game master has no other game.
LEMMA GameOverAccounts ==
  ASSUME AccountInv, ConversationInv', HandleGameOver
  PROVE  AccountInv'
<1>1. /\ inbox # <<>> /\ inbox' = Tail(inbox) /\ Head(inbox).type = "GameOver"
      /\ pm = "serving" /\ PublishStats
      /\ concurrent_games' = concurrent_games - 1
      /\ UNCHANGED <<pm, gm, gmbox>>
  BY DEF HandleGameOver, Receiving, gmVars
<1>2. TypeOK /\ OneConversation /\ ResultBeforeRequest
  BY DEF AccountInv, ConversationInv
<1>3. Head(inbox).gm \in GMs
  BY <1>1, <1>2, TailFacts, EventFields DEF TypeOK
<1> PICK g \in GMs : g = Head(inbox).gm
  BY <1>3
<1>4. \A h \in GMs : 1 \in Results(h) <=> h = g
  BY <1>1, <1>2, TailAsks
<1>5. Outstanding(g)
  BY <1>3, <1>4 DEF Outstanding
<1>6. ~Outstanding(g)'
  <2>1. gm[g] \notin {"play", "panicked"} /\ gmbox[g] = <<>>
    BY <1>2, <1>3, <1>4 DEF ResultBeforeRequest
  <2>2. Results(g) = {1}
    BY <1>2, <1>3, <1>4 DEF ResultBeforeRequest
  <2>3. \A i : i \in Results(g)' => i \in Nat \ {0} /\ i + 1 = 1
    BY <1>1, <1>2, <1>3, <2>2, TailAsks
  <2>4. \A i \in Nat \ {0} : i + 1 # 1
    OBVIOUS
  <2>5. Results(g)' = {}
    BY <2>3, <2>4
  <2> QED BY <1>1, <2>1, <2>5 DEF Outstanding
<1>7. \A h \in GMs : h # g => (Outstanding(h)' <=> Outstanding(h))
  <2>1. \A h \in GMs : h # g => (Results(h)' = {} <=> Results(h) = {})
    BY <1>1, <1>2, <1>4, TailResults
  <2> QED BY <1>1, <2>1 DEF Outstanding
<1>8. {h \in GMs : Outstanding(h)'} = OutstandingGMs \ {g}
  BY <1>6, <1>7 DEF OutstandingGMs
<1>9. Cardinality(OutstandingGMs \ {g}) = Cardinality(OutstandingGMs) - 1
  BY <1>3, <1>5, CountInRange, FS_RemoveElement DEF OutstandingGMs
<1>10. GamesAccounted'
  BY <1>1, <1>8, <1>9 DEF AccountInv, GamesAccounted, OutstandingGMs
<1> QED BY <1>1, <1>10, PublishInRange DEF AccountInv

\* A request is answered: only a game handed out counts, and it is a new one.
LEMMA NeedPlayersAccounts ==
  ASSUME AccountInv, ConversationInv', HandleNeedPlayers
  PROVE  AccountInv'
<1>1. /\ inbox # <<>> /\ inbox' = Tail(inbox) /\ Head(inbox).type = "NeedPlayers"
      /\ pm = "serving" /\ PublishStats
      /\ UNCHANGED <<pm, gm>>
  BY DEF HandleNeedPlayers, Receiving
<1>2. TypeOK /\ OneConversation /\ ResultBeforeRequest
  BY DEF AccountInv, ConversationInv
<1>3. Head(inbox).gm \in GMs
  BY <1>1, <1>2, TailFacts, EventFields DEF TypeOK
<1> PICK g \in GMs : g = Head(inbox).gm
  BY <1>3
<1>4. 1 \in Asks(g) /\ \A h \in GMs : 1 \notin Results(h)
  BY <1>1, <1>2, <1>3, TailAsks
<1>5. Decline(g) \/ \E a, b : Match(g, a, b)
  BY DEF HandleNeedPlayers
<1>6. gm[g] = "wait" /\ gmbox[g] = <<>>
  BY <1>1, <1>2, <1>3, <1>4 DEF OneConversation
<1>7. Results(g) = {}
  <2>1. \A i \in Results(g) : i < 1 /\ i \in Nat \ {0}
    BY <1>1, <1>2, <1>3, <1>4, TailAsks DEF ResultBeforeRequest
  <2> QED BY <2>1
<1>8. \A h \in GMs : Results(h)' = {} <=> Results(h) = {}
  BY <1>1, <1>2, <1>4, TailResults
<1>9. ~Outstanding(g)
  BY <1>6, <1>7 DEF Outstanding
<1>10. ASSUME NEW r, PostToGM(g, r)
       PROVE  /\ gmbox'[g] = <<r>>
              /\ \A h \in GMs : h # g => gmbox'[h] = gmbox[h]
  BY <1>2, <1>3, <1>6, <1>10 DEF PostToGM, TypeOK
<1>11. CASE Decline(g)
  <2>1. gmbox'[g] = <<NoPlayersAvailable>>
    BY <1>10, <1>11 DEF Decline
  <2>2. ~Outstanding(g)'
    BY <1>1, <1>3, <1>6, <1>7, <1>8, <2>1, ReplyTypes DEF Outstanding
  <2>3. \A h \in GMs : h # g => gmbox'[h] = gmbox[h]
    BY <1>10, <1>11 DEF Decline
  <2>4. \A h \in GMs : Outstanding(h)' <=> Outstanding(h)
    BY <1>1, <1>8, <1>9, <2>2, <2>3 DEF Outstanding
  <2>5. concurrent_games' = concurrent_games
    BY <1>11 DEF Decline
  <2> QED BY <1>1, <2>4, <2>5, PublishInRange, SameGames
<1>12. CASE \E a, b : Match(g, a, b)
  <2> PICK a, b : Match(g, a, b)
    BY <1>12
  <2>1. gmbox'[g] = <<NewGame(a, b)>> /\ NewGame(a, b).type = "NewGame"
    BY <1>10 DEF Match, NewGame
  <2>2. Outstanding(g)'
    <3>1. 1 \in DOMAIN gmbox'[g] /\ gmbox'[g][1].type = "NewGame"
      BY <2>1
    <3> QED BY <3>1 DEF Outstanding
  <2>3. \A h \in GMs : h # g => gmbox'[h] = gmbox[h]
    BY <1>10 DEF Match
  <2>4. \A h \in GMs : h # g => (Outstanding(h)' <=> Outstanding(h))
    BY <1>1, <1>8, <2>3 DEF Outstanding
  <2>5. {h \in GMs : Outstanding(h)'} = OutstandingGMs \cup {g}
    BY <1>3, <2>2, <2>4 DEF OutstandingGMs
  <2>6. Cardinality(OutstandingGMs \cup {g}) = Cardinality(OutstandingGMs) + 1
    BY <1>9, CountInRange, FS_AddElement DEF OutstandingGMs
  <2>7. concurrent_games' = concurrent_games + 1
    BY DEF Match
  <2>8. GamesAccounted'
    BY <1>1, <2>5, <2>6, <2>7 DEF AccountInv, GamesAccounted, OutstandingGMs
  <2> QED BY <1>1, <2>8, PublishInRange DEF AccountInv
<1> QED BY <1>5, <1>11, <1>12

LEMMA PlayerManagerAccounts ==
  ASSUME AccountInv, ConversationInv', PlayerManager
  PROVE  AccountInv'
<1>1. CASE StartupFails
  <2>1. pm' = "stopped" /\ StatsInRange'
    BY <1>1 DEF StartupFails, AccountInv, StatsInRange
  <2> QED BY <2>1, SameGames
<1>2. CASE \E g \in GMs : SpawnGM(g)
  <2> PICK g \in GMs : SpawnGM(g)
    BY <1>2
  <2>1. /\ gm[g] = "unspawned" /\ gm' = [gm EXCEPT ![g] = "ask"]
        /\ UNCHANGED <<pm, inbox, gmbox, concurrent_games, server_stats>>
    BY DEF SpawnGM, pmVars
  <2>2. \A h \in GMs : gm'[h] \in {"play", "panicked"} <=> gm[h] \in {"play", "panicked"}
    BY <2>1 DEF AccountInv, ConversationInv, TypeOK
  <2>3. \A h \in GMs : Outstanding(h)' <=> Outstanding(h)
    BY <2>1, <2>2 DEF Outstanding, Results
  <2> QED BY <2>1, <2>3, SameGames DEF AccountInv, StatsInRange
<1>3. CASE BeginServing
  <2>1. \A h \in GMs : Outstanding(h)' <=> Outstanding(h)
    BY <1>3 DEF BeginServing, gmVars, Outstanding, Results
  <2> QED BY <1>3, <2>1, SameGames DEF BeginServing, AccountInv, StatsInRange
<1>4. CASE PanicOnGameOver \/ PanicOnAlive
  <2>1. pm' = "stopped" /\ pm = "serving" /\ PublishStats
    BY <1>4 DEF PanicOnGameOver, PanicOnAlive, Panic, Receiving
  <2> QED BY <2>1, PublishInRange, SameGames
<1> QED BY <1>1, <1>2, <1>3, <1>4, NewPlayerAccounts, GameOverAccounts, NeedPlayersAccounts
        DEF PlayerManager

-----------------------------------------------------------------------------
(* Game masters and clients do not change the number of games. *)

\* The end of a game becomes a result in the queue.
LEMMA EndGameAccounts ==
  ASSUME AccountInv, ConversationInv', NEW g \in GMs, gm[g] = "play",
         NEW status, NEW w, NEW l, GameOver(g, status, w, l) \in Event,
         EndGame(g, status, w, l)
  PROVE  AccountInv'
<1> DEFINE e == GameOver(g, status, w, l)
<1>1. /\ gm' = [gm EXCEPT ![g] = "ask"] /\ Post(e)
      /\ UNCHANGED <<pm, gmbox, concurrent_games, server_stats>>
  BY DEF EndGame
<1>2. TypeOK
  BY DEF AccountInv, ConversationInv
<1>3. e \in Event /\ e.type = "GameOver" /\ e.gm = g
  BY DEF GameOver
<1> HIDE DEF e
<1>4. ASSUME pm # "stopped", NEW h \in GMs
      PROVE  Outstanding(h)' <=> Outstanding(h)
  <2>1. Results(h)' = Results(h) \cup
          {i \in {Len(inbox) + 1} : e.type = "GameOver" /\ e.gm = h}
    BY <1>1, <1>2, <1>3, <1>4, PostAsks
  <2>2. CASE h = g
    BY <1>3, <2>1, <2>2 DEF Outstanding
  <2>3. CASE h # g
    BY <1>1, <1>2, <1>3, <2>1, <2>3 DEF Outstanding, TypeOK
  <2> QED BY <2>2, <2>3
<1> QED BY <1>1, <1>4, SameGames DEF AccountInv, StatsInRange

LEMMA GameMasterAccounts ==
  ASSUME AccountInv, ConversationInv', NEW g \in GMs, GameMaster(g)
  PROVE  AccountInv'
<1>1. TypeOK /\ OneConversation
  BY DEF AccountInv, ConversationInv
<1>2. CASE Ask(g)
  <2>1. /\ gm[g] = "ask" /\ gm' = [gm EXCEPT ![g] = "wait"] /\ Post(NeedPlayers(g))
        /\ UNCHANGED <<pm, gmbox, concurrent_games, server_stats>>
    BY <1>2 DEF Ask
  <2>2. NeedPlayers(g) \in Event /\ NeedPlayers(g).type # "GameOver"
    BY EventTypes DEF NeedPlayers
  <2>3. pm # "stopped" => \A h \in GMs : Results(h)' = Results(h)
    BY <1>1, <2>1, <2>2, PostAsks, ZenonT(30)
  <2>4. \A h \in GMs : gm'[h] \in {"play", "panicked"} <=> gm[h] \in {"play", "panicked"}
    BY <1>1, <2>1 DEF TypeOK
  <2>5. pm # "stopped" => \A h \in GMs : Outstanding(h)' <=> Outstanding(h)
    BY <2>1, <2>3, <2>4 DEF Outstanding
  <2> QED BY <2>1, <2>5, SameGames DEF AccountInv, StatsInRange
<1>3. ASSUME NEW type, NEW next, Take(g, type), gm' = [gm EXCEPT ![g] = next],
             UNCHANGED pmVars, next \in {"ask", "play"}, next = "play" <=> type = "NewGame"
      PROVE  AccountInv'
  <2>1. /\ gm[g] = "wait" /\ gmbox[g] # <<>> /\ Head(gmbox[g]).type = type
        /\ gmbox' = [gmbox EXCEPT ![g] = Tail(gmbox[g])]
        /\ UNCHANGED <<pm, inbox, concurrent_games, server_stats>>
    BY <1>3 DEF Take, pmVars
  <2>2. gmbox[g] \in Seq(Reply) /\ Len(gmbox[g]) <= 1
    BY <1>1 DEF TypeOK, OneConversation
  <2>3. Len(gmbox[g]) = 1 /\ gmbox[g][1].type = type /\ Tail(gmbox[g]) = <<>>
    BY <2>1, <2>2, OnlyFacts
  <2>4. \A h \in GMs : /\ gm'[h] = IF h = g THEN next ELSE gm[h]
                       /\ gmbox'[h] = IF h = g THEN <<>> ELSE gmbox[h]
    BY <1>1, <1>3, <2>1, <2>3 DEF TypeOK
  <2>5. \A h \in GMs : Results(h)' = Results(h)
    BY <2>1 DEF Results
  <2>6. Outstanding(g)' <=> Outstanding(g)
    <3>1. DOMAIN gmbox[g] = {1} /\ DOMAIN <<>> = {}
      BY <2>1, <2>2, OnlyFacts
    <3> QED BY <1>3, <2>1, <2>3, <2>4, <2>5, <3>1 DEF Outstanding
  <2>7. \A h \in GMs : h # g => (Outstanding(h)' <=> Outstanding(h))
    BY <2>4, <2>5 DEF Outstanding
  <2> QED BY <2>1, <2>6, <2>7, SameGames DEF AccountInv, StatsInRange
<1>4. CASE BackOff(g)
  BY <1>3, <1>4 DEF BackOff
<1>5. CASE BeginGame(g)
  BY <1>3, <1>5 DEF BeginGame
<1>6. CASE Win(g)
  BY <1>1, <1>6, EndGameAccounts, EventTypes, PlayingFields DEF Win
<1>7. CASE Draw(g)
  BY <1>1, <1>7, EndGameAccounts, EventTypes, PlayingFields DEF Draw
<1>8. CASE Abandon(g)
  BY <1>1, <1>8, EndGameAccounts, EventTypes, PlayingFields DEF Abandon
<1>9. CASE PanicInGame(g)
  <2>1. /\ gm[g] = "play" /\ gm' = [gm EXCEPT ![g] = "panicked"]
        /\ UNCHANGED <<pm, inbox, gmbox, concurrent_games, server_stats>>
    BY <1>9 DEF PanicInGame, pmVars
  <2>2. \A h \in GMs : gm'[h] \in {"play", "panicked"} <=> gm[h] \in {"play", "panicked"}
    BY <1>1, <2>1 DEF TypeOK
  <2>3. \A h \in GMs : Outstanding(h)' <=> Outstanding(h)
    BY <2>1, <2>2 DEF Outstanding, Results
  <2> QED BY <2>1, <2>3, SameGames DEF AccountInv, StatsInRange
<1>10. CASE Exit(g)
  <2>1. pm' = "stopped" /\ StatsInRange'
    BY <1>10 DEF Exit, pmVars, AccountInv, StatsInRange
  <2> QED BY <2>1, SameGames
<1> QED BY <1>2, <1>4, <1>5, <1>6, <1>7, <1>8, <1>9, <1>10 DEF GameMaster

LEMMA NextAccounts == AccountInv /\ [Next]_vars => AccountInv'
<1> SUFFICES ASSUME AccountInv, [Next]_vars PROVE AccountInv'
  OBVIOUS
<1>1. ConversationInv' /\ TypeOK
  BY NextConversation DEF AccountInv, ConversationInv
<1>2. CASE \E c \in Conns, n \in Names : Login(c, n)
  <2> PICK c \in Conns, n \in Names : Login(c, n)
    BY <1>2
  <2>1. /\ pm # "stopped" /\ Post(NewPlayer(n, c))
        /\ UNCHANGED <<pm, gm, gmbox, concurrent_games, server_stats>>
    BY DEF Login, gmVars
  <2>2. NewPlayer(n, c) \in Event /\ NewPlayer(n, c).type = "NewPlayer"
    BY EventTypes DEF NewPlayer
  <2>3. \A h \in GMs : Results(h)' = Results(h)
    <3> TAKE h \in GMs
    <3>1. Results(h)' = Results(h) \cup
            {i \in {Len(inbox) + 1} : NewPlayer(n, c).type = "GameOver"
                                        /\ NewPlayer(n, c).gm = h}
      BY <1>1, <2>1, <2>2, PostAsks
    <3> QED BY <2>2, <3>1
  <2>4. \A h \in GMs : Outstanding(h)' <=> Outstanding(h)
    BY <2>1, <2>3 DEF Outstanding
  <2> QED BY <1>1, <2>1, <2>4, SameGames DEF AccountInv, StatsInRange
<1>3. CASE UNCHANGED <<pm, inbox, gm, gmbox, concurrent_games, server_stats>>
  <2>1. \A h \in GMs : Outstanding(h)' <=> Outstanding(h)
    BY <1>3 DEF Outstanding, Results
  <2> QED BY <1>1, <1>3, <2>1, SameGames DEF AccountInv, StatsInRange
<1>4. CASE PlayerManager
  BY <1>1, <1>4, PlayerManagerAccounts
<1>5. CASE \E g \in GMs : GameMaster(g)
  BY <1>1, <1>5, GameMasterAccounts
<1>6. CASE \E c \in Conns : Disconnect(c)
  BY <1>3, <1>6 DEF Disconnect, pmVars, gmVars
<1>7. CASE \E n \in Names : CooldownEnds(n)
  BY <1>3, <1>7 DEF CooldownEnds, gmVars
<1>8. CASE UNCHANGED vars
  BY <1>3, <1>8 DEF vars, pmVars, gmVars
<1> QED BY <1>2, <1>4, <1>5, <1>6, <1>7, <1>8 DEF Next

\* The count the player manager keeps by adding and subtracting one is the
\* number of games it has handed out and not yet had the result of.
THEOREM GamesCounted == Spec => []GamesAccounted
<1>1. AccountInv => GamesAccounted
  BY DEF AccountInv
<1> QED BY InitAccounts, NextAccounts, <1>1, PTL DEF Spec

\* What the statistics table shows is never negative nor above the number of
\* game masters, however late it is written.
THEOREM StatisticsInRange == Spec => []StatsInRange
<1>1. AccountInv => StatsInRange
  BY DEF AccountInv
<1> QED BY InitAccounts, NextAccounts, <1>1, PTL DEF Spec

-----------------------------------------------------------------------------
(* The owners of sockets.  Logins are the places of logins in the queue. *)

Logins == {i \in DOMAIN inbox : inbox[i].type = "NewPlayer"}

RegisteredApart == \A n, k \in Names : stream[n] = stream[k] /\ stream[n] # NoConn => n = k
QueuedOnce      == \A i, j \in Logins : inbox[i].conn = inbox[j].conn => i = j
QueuedApart     == \A n \in Names, i \in Logins : stream[n] # inbox[i].conn
SeatedOnSocket  == \A n \in Names : seat[n] # "absent" => stream[n] # NoConn

\* A game has two players with a socket each.
Apart(m) ==
  m.type = "NewGame" => m.a # m.b /\ m.sa # m.sb /\ NoConn \notin MatchConns(m)

MatchesApart == \A g \in GMs : \A m \in Matches(g) : Apart(m)

\* No socket is in use under two names.  It follows from the other parts only for
\* the registry and the queue: a game may outlive the entries it was made from.
OneName == \A u, v \in Uses : u[2] = v[2] => u[1] = v[1]

OwnerInv ==
  /\ TypeOK
  /\ RegisteredApart
  /\ QueuedOnce
  /\ QueuedApart
  /\ MatchesApart
  /\ SeatedOnSocket
  /\ OneName

\* The places a socket is used at.
InRegistry(u) == \E n \in Names : stream[n] # NoConn /\ u = <<n, stream[n]>>
InQueue(u)    == \E i \in Logins : u = <<inbox[i].name, inbox[i].conn>>
Sides(m)      == {<<m.a, m.sa>>, <<m.b, m.sb>>}
InGames(u)    == \E g \in GMs : \E m \in Matches(g) : m.type = "NewGame" /\ u \in Sides(m)

\* Two players of the registry, or a game that was copied from there already.
Copied(m) == m.type = "NewGame" => Sides(m) \subseteq Uses

LEMMA UsePlaces ==
  /\ \A u : u \in Uses <=> InRegistry(u) \/ InQueue(u) \/ InGames(u)
  /\ \A u : u \in Uses' <=> InRegistry(u)' \/ InQueue(u)' \/ InGames(u)'
BY DEF Uses, InRegistry, InQueue, InGames, Sides, Games, Logins

LEMMA OwnersAreOne == OwnerInv => OneOwnerPerSocket
BY DEF OneOwnerPerSocket, OwnerInv, OneName, MatchesApart, Apart, Games

\* A login in the queue is on a socket.
LEMMA LoginConn ==
  ASSUME TypeOK, NEW i \in Logins
  PROVE  inbox[i].conn \in Conns /\ inbox[i].conn # NoConn
<1>1. inbox[i] \in Event /\ inbox[i].type = "NewPlayer"
  BY DEF TypeOK, Logins
<1> QED BY <1>1, EventFields, ServerAssumption

\* A posted event that is no login adds none.
LEMMA PostLogins ==
  ASSUME TypeOK, NEW e \in Event, e.type # "NewPlayer", Post(e)
  PROVE  Logins' = Logins /\ \A i \in Logins : inbox'[i] = inbox[i]
<1>1. CASE inbox' = inbox
  BY <1>1 DEF Logins
<1>2. CASE inbox' = Append(inbox, e)
  <2>1. /\ DOMAIN inbox = 1..Len(inbox) /\ Len(inbox) \in Nat
        /\ DOMAIN inbox' = 1..(Len(inbox) + 1)
        /\ \A i \in DOMAIN inbox : inbox'[i] = inbox[i]
        /\ inbox'[Len(inbox) + 1] = e
    BY <1>2, AppendFacts DEF TypeOK
  <2>2. DOMAIN inbox' = DOMAIN inbox \cup {Len(inbox) + 1}
    BY <2>1
  <2> QED BY <2>1, <2>2 DEF Logins
<1> QED BY <1>1, <1>2 DEF Post

\* Taking the first event moves the logins behind it up.
LEMMA TailLogins ==
  ASSUME TypeOK, inbox # <<>>, inbox' = Tail(inbox), NEW i \in Logins'
  PROVE  /\ i \in Nat \ {0} /\ i + 1 \in Logins
         /\ inbox'[i] = inbox[i + 1]
<1>1. /\ DOMAIN inbox = 1..Len(inbox) /\ Len(inbox) \in Nat \ {0}
      /\ DOMAIN inbox' = 1..(Len(inbox) - 1)
      /\ \A k \in DOMAIN inbox' : inbox'[k] = inbox[k + 1]
  BY TailFacts DEF TypeOK
<1>2. i \in DOMAIN inbox' /\ inbox'[i].type = "NewPlayer"
  BY DEF Logins
<1>3. i \in Nat \ {0} /\ i + 1 \in DOMAIN inbox
  BY <1>1, <1>2
<1> QED BY <1>1, <1>2, <1>3 DEF Logins

\* What is used under one name stays so while no other use is added.
LEMMA FewerUses ==
  ASSUME OneName, \A u : InRegistry(u)' \/ InQueue(u)' \/ InGames(u)' => u \in Uses
  PROVE  OneName'
<1>1. \A u : u \in Uses' => InRegistry(u)' \/ InQueue(u)' \/ InGames(u)'
  BY UsePlaces
<1>2. \A u \in Uses' : u \in Uses
  BY <1>1
<1> QED BY <1>2 DEF OneName

\* Logins may leave the queue, entries may lose their socket, and the copies
\* that are handed out are of two players on sockets of their own.
LEMMA NobodyGainsASocket ==
  ASSUME OwnerInv, TypeOK', SeatedOnSocket', QueuedOnce',
         \A i \in Logins' : \E j \in Logins : inbox[j] = inbox'[i],
         \A n \in Names : stream'[n] \in {stream[n], NoConn},
         \A g \in GMs : \A m \in Matches(g)' : m \in Matches(g) \/ (Apart(m) /\ Copied(m))
  PROVE  OwnerInv'
<1>1. RegisteredApart'
  BY DEF OwnerInv, RegisteredApart
<1>2. QueuedApart'
  <2> SUFFICES ASSUME NEW n \in Names, NEW i \in Logins'
               PROVE  stream'[n] # inbox'[i].conn
    BY DEF QueuedApart
  <2> PICK j \in Logins : inbox[j] = inbox'[i]
    OBVIOUS
  <2>1. stream[n] # inbox[j].conn /\ inbox[j].conn # NoConn
    BY LoginConn DEF OwnerInv, QueuedApart
  <2> QED BY <2>1
<1>3. MatchesApart'
  <2>1. \A g \in GMs : \A m \in Matches(g)' : Apart(m)
    BY DEF OwnerInv, MatchesApart
  <2> QED BY <2>1 DEF MatchesApart, Apart, MatchConns
<1>4. OneName'
  <2>1. \A u : InRegistry(u)' => InRegistry(u)
    BY DEF InRegistry
  <2>2. \A u : InQueue(u)' => InQueue(u)
    BY DEF InQueue
  <2>3. ASSUME NEW u, InGames(u)' PROVE u \in Uses
    <3>1. PICK g \in GMs : \E m \in Matches(g)' : m.type = "NewGame" /\ u \in Sides(m)
      BY <2>3 DEF InGames, Sides
    <3>2. PICK m \in Matches(g)' : m.type = "NewGame" /\ u \in Sides(m)
      BY <3>1
    <3>3. CASE m \in Matches(g)
      BY <3>2, <3>3, UsePlaces DEF InGames
    <3>4. CASE Copied(m)
      BY <3>2, <3>4 DEF Copied
    <3> QED BY <3>3, <3>4
  <2> QED BY <2>1, <2>2, <2>3, UsePlaces, FewerUses DEF OwnerInv
<1> QED BY <1>1, <1>2, <1>3, <1>4 DEF OwnerInv

\* The same for a step that leaves the logins in the queue alone.
LEMMA QuietOwners ==
  ASSUME OwnerInv, TypeOK', SeatedOnSocket',
         Logins' = Logins, \A i \in Logins : inbox'[i] = inbox[i],
         UNCHANGED stream,
         \A g \in GMs : \A m \in Matches(g)' : m \in Matches(g) \/ (Apart(m) /\ Copied(m))
  PROVE  OwnerInv'
<1>1. QueuedOnce'
  BY DEF OwnerInv, QueuedOnce
<1>2. \A i \in Logins' : \E j \in Logins : inbox[j] = inbox'[i]
  OBVIOUS
<1> QED BY <1>1, <1>2, NobodyGainsASocket

\* The same for a step of the player manager that takes an event.
LEMMA TakeOwners ==
  ASSUME OwnerInv, TypeOK', SeatedOnSocket', inbox # <<>>, inbox' = Tail(inbox),
         \A n \in Names : stream'[n] \in {stream[n], NoConn},
         \A g \in GMs : \A m \in Matches(g)' : m \in Matches(g) \/ (Apart(m) /\ Copied(m))
  PROVE  OwnerInv'
<1>1. \A i \in Logins' : /\ i \in Nat \ {0} /\ i + 1 \in Logins
                         /\ inbox'[i] = inbox[i + 1]
  BY TailLogins DEF OwnerInv
<1>2. QueuedOnce'
  <2> SUFFICES ASSUME NEW i \in Logins', NEW j \in Logins', inbox'[i].conn = inbox'[j].conn
               PROVE  i = j
    BY DEF QueuedOnce
  <2>1. i + 1 = j + 1
    BY <1>1, ZenonT(30) DEF OwnerInv, QueuedOnce
  <2> QED BY <1>1, <2>1
<1> QED BY <1>1, <1>2, NobodyGainsASocket

-----------------------------------------------------------------------------
(* The three steps that move a socket. *)

\* The sockets of a reply under way are held.
LEMMA BoxHeld ==
  ASSUME NEW g \in GMs, NEW i \in DOMAIN gmbox[g]
  PROVE  MatchConns(gmbox[g][i]) \subseteq Held \cup {NoConn}
<1> SUFFICES ASSUME NEW x \in MatchConns(gmbox[g][i]), x # NoConn PROVE x \in Held
  OBVIOUS
<1>1. x \in UNION {MatchConns(gmbox[g][k]) : k \in DOMAIN gmbox[g]}
  OBVIOUS
<1>2. x \in RepliedConns
  BY <1>1, Zenon DEF RepliedConns
<1> QED BY <1>2 DEF Held

\* A login takes a socket that nobody holds.
LEMMA LoginOwners ==
  ASSUME OwnerInv, TypeOK', NEW c \in Conns, NEW n \in Names, Login(c, n)
  PROVE  OwnerInv'
<1>1. /\ inbox' = Append(inbox, NewPlayer(n, c)) /\ c \notin Held /\ c # NoConn
      /\ UNCHANGED <<seat, stream, gmbox, game>>
  BY ServerAssumption DEF Login, Post, gmVars
<1>2. /\ DOMAIN inbox = 1..Len(inbox) /\ Len(inbox) \in Nat
      /\ DOMAIN inbox' = 1..(Len(inbox) + 1)
      /\ \A i \in DOMAIN inbox : inbox'[i] = inbox[i]
      /\ inbox'[Len(inbox) + 1] = NewPlayer(n, c)
  BY <1>1, EventTypes, AppendFacts DEF OwnerInv, TypeOK
<1>3. Logins' = Logins \cup {Len(inbox) + 1}
  <2>1. DOMAIN inbox' = DOMAIN inbox \cup {Len(inbox) + 1}
    BY <1>2
  <2> QED BY <1>2, <2>1 DEF Logins, NewPlayer
<1>4. /\ \A i \in Logins : inbox'[i] = inbox[i] /\ i # Len(inbox) + 1
      /\ inbox'[Len(inbox) + 1].conn = c
  BY <1>2 DEF Logins, NewPlayer
<1>5. \A i \in Logins : inbox[i].conn # c
  BY <1>1 DEF Held, QueuedConns, Logins
<1>6. \A k \in Names : stream[k] # c
  BY <1>1 DEF Held
<1>7. QueuedOnce'
  BY <1>3, <1>4, <1>5 DEF OwnerInv, QueuedOnce
<1>8. QueuedApart'
  BY <1>1, <1>3, <1>4, <1>6 DEF OwnerInv, QueuedApart
<1>9. RegisteredApart' /\ MatchesApart' /\ SeatedOnSocket'
  BY <1>1 DEF OwnerInv, RegisteredApart, MatchesApart, SeatedOnSocket, Matches, Apart, MatchConns
<1>10. OneName'
  <2>1. \A u : InRegistry(u)' => InRegistry(u)
    BY <1>1 DEF InRegistry
  <2>2. \A u : InGames(u)' => InGames(u)
    BY <1>1 DEF InGames, Matches, Sides
  <2>3. \A u : InQueue(u)' => InQueue(u) \/ u = <<n, c>>
    BY <1>2, <1>3, <1>4 DEF InQueue, NewPlayer
  <2>4. \A u \in Uses' : u \in Uses \/ u = <<n, c>>
    BY <2>1, <2>2, <2>3, UsePlaces
  <2>5. \A u \in Uses : u[2] # c
    <3>1. \A u : InRegistry(u) => u[2] # c
      BY <1>6 DEF InRegistry
    <3>2. \A u : InQueue(u) => u[2] # c
      BY <1>5 DEF InQueue
    <3>3. ASSUME NEW g \in GMs, NEW m \in Matches(g) PROVE c \notin {m.sa, m.sb}
      <4>1. CASE m = game[g]
        BY <1>1, <4>1 DEF Held, MatchConns
      <4>2. ASSUME NEW i \in DOMAIN gmbox[g], m = gmbox[g][i] PROVE c \notin {m.sa, m.sb}
        BY <1>1, <4>2, BoxHeld DEF MatchConns
      <4> QED BY <4>1, <4>2 DEF Matches
    <3>4. \A u : InGames(u) => u[2] # c
      BY <3>3 DEF InGames, Sides
    <3> QED BY <3>1, <3>2, <3>4, UsePlaces
  <2> QED BY <2>4, <2>5 DEF OwnerInv, OneName
<1> QED BY <1>7, <1>8, <1>9, <1>10 DEF OwnerInv

\* The registry takes over the socket of the login at the head of the queue.
LEMMA NewPlayerOwners ==
  ASSUME OwnerInv, TypeOK', HandleNewPlayer
  PROVE  OwnerInv'
<1>1. /\ inbox # <<>> /\ inbox' = Tail(inbox) /\ Head(inbox).type = "NewPlayer"
      /\ seat'   = [seat EXCEPT ![Head(inbox).name] = "idle"]
      /\ stream' = [stream EXCEPT ![Head(inbox).name] = Head(inbox).conn]
      /\ UNCHANGED <<gmbox, game>>
  BY DEF HandleNewPlayer, Receiving, gmVars
<1>2. TypeOK
  BY DEF OwnerInv
<1>3. /\ 1 \in Logins /\ Head(inbox) = inbox[1]
      /\ Head(inbox).name \in Names /\ Head(inbox).conn # NoConn
  <2>1. /\ 1 \in DOMAIN inbox /\ Head(inbox) = inbox[1] /\ Head(inbox) \in Event
    BY <1>1, <1>2, TailFacts DEF TypeOK
  <2>2. 1 \in Logins
    BY <1>1, <2>1 DEF Logins
  <2> QED BY <1>1, <1>2, <2>1, <2>2, EventFields, LoginConn
<1> PICK n \in Names : n = Head(inbox).name
  BY <1>3
<1> PICK c : c = Head(inbox).conn
  OBVIOUS
<1>4. \A k \in Names : /\ stream'[k] = IF k = n THEN c ELSE stream[k]
                       /\ seat'[k] = IF k = n THEN "idle" ELSE seat[k]
  BY <1>1, <1>2 DEF TypeOK
<1>5. \A k \in Names : stream[k] # c
  BY <1>3 DEF OwnerInv, QueuedApart
<1>6. \A i \in Logins : inbox[i].conn = c => i = 1
  BY <1>3 DEF OwnerInv, QueuedOnce
<1>7. \A i \in Logins' : /\ i \in Nat \ {0} /\ i + 1 \in Logins
                         /\ inbox'[i] = inbox[i + 1]
  BY <1>1, <1>2, TailLogins
<1>8. QueuedOnce'
  <2> SUFFICES ASSUME NEW i \in Logins', NEW j \in Logins', inbox'[i].conn = inbox'[j].conn
               PROVE  i = j
    BY DEF QueuedOnce
  <2>1. i + 1 = j + 1
    BY <1>7 DEF OwnerInv, QueuedOnce
  <2> QED BY <1>7, <2>1
<1>9. QueuedApart'
  <2> SUFFICES ASSUME NEW k \in Names, NEW i \in Logins'
               PROVE  stream'[k] # inbox'[i].conn
    BY DEF QueuedApart
  <2>1. i + 1 # 1 /\ i + 1 \in Logins /\ inbox'[i] = inbox[i + 1]
    BY <1>7
  <2>2. inbox'[i].conn # c /\ inbox'[i].conn # stream[k]
    BY <1>6, <2>1 DEF OwnerInv, QueuedApart
  <2> QED BY <1>4, <2>2
<1>10. RegisteredApart'
  BY <1>4, <1>5 DEF OwnerInv, RegisteredApart
<1>11. SeatedOnSocket'
  BY <1>3, <1>4 DEF OwnerInv, SeatedOnSocket
<1>12. MatchesApart'
  BY <1>1 DEF OwnerInv, MatchesApart, Matches, Apart, MatchConns
<1>13. OneName'
  <2>1. InQueue(<<n, c>>)
    BY <1>3 DEF InQueue
  <2>2. \A u : InRegistry(u)' => InRegistry(u) \/ u = <<n, c>>
    BY <1>4 DEF InRegistry
  <2>3. \A u : InQueue(u)' => InQueue(u)
    BY <1>7 DEF InQueue
  <2>4. \A u : InGames(u)' => InGames(u)
    BY <1>1 DEF InGames, Matches, Sides
  <2> QED BY <2>1, <2>2, <2>3, <2>4, UsePlaces, FewerUses DEF OwnerInv
<1> QED BY <1>8, <1>9, <1>10, <1>11, <1>12, <1>13 DEF OwnerInv

\* A reply is the only new copy of the registry there is.
LEMMA PostMatches ==
  ASSUME TypeOK, NEW g \in GMs, NEW r, PostToGM(g, r), UNCHANGED game, NEW h \in GMs
  PROVE  \A m \in Matches(h)' : m \in Matches(h) \/ m = r
<1>1. gmbox' = [gmbox EXCEPT ![g] = Append(gmbox[g], r)]
  BY DEF PostToGM
<1>2. gmbox[g] \in Seq(Reply)
  BY DEF TypeOK
<1>3. \A i \in DOMAIN Append(gmbox[g], r) :
        \/ i \in DOMAIN gmbox[g] /\ Append(gmbox[g], r)[i] = gmbox[g][i]
        \/ Append(gmbox[g], r)[i] = r
  BY <1>2
<1>4. gmbox'[h] = IF h = g THEN Append(gmbox[g], r) ELSE gmbox[h]
  BY <1>1 DEF TypeOK
<1> QED BY <1>3, <1>4 DEF Matches

\* Two registered players are copied with the sockets they have.
LEMMA NeedPlayersOwners ==
  ASSUME OwnerInv, TypeOK', HandleNeedPlayers
  PROVE  OwnerInv'
<1>1. /\ inbox # <<>> /\ inbox' = Tail(inbox) /\ Head(inbox).type = "NeedPlayers"
      /\ UNCHANGED game
  BY DEF HandleNeedPlayers, Receiving
<1>2. TypeOK
  BY DEF OwnerInv
<1>3. Head(inbox).gm \in GMs
  BY <1>1, <1>2, TailFacts, EventFields DEF TypeOK
<1> PICK g \in GMs : g = Head(inbox).gm
  BY <1>3
<1> PICK alive \in Answers :
      /\ \/ seat' = Pruned(alive, {}) /\ PostToGM(g, NoPlayersAvailable)
         \/ \E a, b \in alive :
              a # b /\ seat' = Pruned(alive, {a, b}) /\ PostToGM(g, NewGame(a, b))
      /\ stream' = [n \in Names |-> IF n \in Pinged \ alive THEN NoConn ELSE stream[n]]
  BY DEF HandleNeedPlayers, Decline, Match
<1>4. \A n \in alive : n \in Names /\ seat[n] = "idle"
  BY DEF Answers, Pinged
<1>5. \E matched \in SUBSET alive : seat' = Pruned(alive, matched)
  OBVIOUS
<1>6. SeatedOnSocket'
  <2> PICK matched \in SUBSET alive : seat' = Pruned(alive, matched)
    BY <1>5
  <2> SUFFICES ASSUME NEW n \in Names, seat'[n] # "absent"
               PROVE  stream'[n] # NoConn
    BY DEF SeatedOnSocket
  <2>1. n \notin Pinged \ alive /\ seat[n] # "absent"
    BY <1>4 DEF Pruned
  <2> QED BY <2>1 DEF OwnerInv, SeatedOnSocket
<1>7. \E r : PostToGM(g, r) /\ Apart(r) /\ Copied(r)
  <2>1. CASE PostToGM(g, NoPlayersAvailable)
    BY <2>1 DEF Apart, Copied, NoPlayersAvailable
  <2>2. ASSUME NEW a \in alive, NEW b \in alive, a # b, PostToGM(g, NewGame(a, b))
        PROVE  Apart(NewGame(a, b)) /\ Copied(NewGame(a, b))
    <3>1. stream[a] # NoConn /\ stream[b] # NoConn /\ stream[a] # stream[b]
      BY <1>4, <2>2 DEF OwnerInv, SeatedOnSocket, RegisteredApart
    <3>2. InRegistry(<<a, stream[a]>>) /\ InRegistry(<<b, stream[b]>>)
      BY <1>4, <3>1 DEF InRegistry
    <3> QED BY <2>2, <3>1, <3>2, UsePlaces DEF Apart, Copied, Sides, NewGame, MatchConns
  <2> QED BY <2>1, <2>2
<1>8. \A h \in GMs : \A m \in Matches(h)' : m \in Matches(h) \/ (Apart(m) /\ Copied(m))
  BY <1>1, <1>2, <1>7, PostMatches
<1>9. \A n \in Names : stream'[n] \in {stream[n], NoConn}
  OBVIOUS
<1> QED BY <1>1, <1>6, <1>8, <1>9, TakeOwners

-----------------------------------------------------------------------------
(* All other steps. *)

LEMMA PlayerManagerOwners ==
  ASSUME OwnerInv, TypeOK', PlayerManager
  PROVE  OwnerInv'
<1>1. ASSUME inbox' = <<>>, UNCHANGED <<gmbox, game>>, SeatedOnSocket',
             \A n \in Names : stream'[n] \in {stream[n], NoConn}
      PROVE  OwnerInv'
  <2>1. Logins' = {}
    BY <1>1 DEF Logins
  <2>2. \A g \in GMs : Matches(g)' = Matches(g)
    BY <1>1 DEF Matches
  <2> QED BY <1>1, <2>1, <2>2, NobodyGainsASocket DEF QueuedOnce
<1>2. CASE StartupFails
  BY <1>1, <1>2 DEF StartupFails, gmVars, OwnerInv, SeatedOnSocket
<1>3. CASE PanicOnGameOver \/ PanicOnAlive
  <2>1. Panic
    BY <1>3 DEF PanicOnGameOver, PanicOnAlive
  <2>2. \A n \in Names : seat'[n] = "absent" /\ stream'[n] = NoConn
    BY <2>1 DEF Panic
  <2> QED BY <1>1, <2>1, <2>2 DEF Panic, gmVars, SeatedOnSocket
<1>4. CASE (\E g \in GMs : SpawnGM(g)) \/ BeginServing
  <2>1. UNCHANGED <<inbox, seat, stream, gmbox, game>>
    BY <1>4 DEF SpawnGM, BeginServing, pmVars, gmVars
  <2> QED BY <2>1, QuietOwners DEF OwnerInv, SeatedOnSocket, Matches, Logins
<1>5. CASE HandleGameOver
  <2>1. /\ inbox # <<>> /\ inbox' = Tail(inbox) /\ UNCHANGED <<gmbox, game>>
        /\ seat' = AfterGame(Head(inbox))
        /\ stream' = [n \in Names |-> IF seat'[n] = "absent" THEN NoConn ELSE stream[n]]
    BY <1>5 DEF HandleGameOver, Receiving, gmVars
  <2>2. SeatedOnSocket'
    BY <2>1 DEF AfterGame, OwnerInv, SeatedOnSocket
  <2>3. \A n \in Names : stream'[n] \in {stream[n], NoConn}
    BY <2>1
  <2>4. \A g \in GMs : Matches(g)' = Matches(g)
    BY <2>1 DEF Matches
  <2> QED BY <2>1, <2>2, <2>3, <2>4, TakeOwners
<1> QED BY <1>2, <1>3, <1>4, <1>5, NewPlayerOwners, NeedPlayersOwners DEF PlayerManager

LEMMA GameMasterOwners ==
  ASSUME OwnerInv, TypeOK', NEW g \in GMs, GameMaster(g)
  PROVE  OwnerInv'
<1>1. TypeOK
  BY DEF OwnerInv
<1>2. Apart(NoPlayersAvailable) /\ Copied(NoPlayersAvailable)
  BY DEF Apart, Copied, NoPlayersAvailable
<1>3. CASE Ask(g)
  <2>1. Post(NeedPlayers(g)) /\ UNCHANGED <<seat, stream, gmbox, game>>
    BY <1>3 DEF Ask
  <2>2. NeedPlayers(g) \in Event /\ NeedPlayers(g).type # "NewPlayer"
    BY EventTypes DEF NeedPlayers
  <2>3. Logins' = Logins /\ \A i \in Logins : inbox'[i] = inbox[i]
    BY <1>1, <2>1, <2>2, PostLogins
  <2> QED BY <2>1, <2>3, QuietOwners DEF OwnerInv, SeatedOnSocket, Matches
<1>4. ASSUME NEW status, NEW w, NEW l, GameOver(g, status, w, l) \in Event,
             EndGame(g, status, w, l)
      PROVE  OwnerInv'
  <2>1. /\ Post(GameOver(g, status, w, l)) /\ UNCHANGED <<seat, stream, gmbox>>
        /\ game' = [game EXCEPT ![g] = NoPlayersAvailable]
    BY <1>4 DEF EndGame
  <2>2. GameOver(g, status, w, l).type # "NewPlayer"
    BY DEF GameOver
  <2>3. Logins' = Logins /\ \A i \in Logins : inbox'[i] = inbox[i]
    BY <1>1, <1>4, <2>1, <2>2, PostLogins
  <2>4. \A h \in GMs : game'[h] \in {game[h], NoPlayersAvailable}
    BY <1>1, <2>1 DEF TypeOK
  <2>5. \A h \in GMs : \A m \in Matches(h)' : m \in Matches(h) \/ (Apart(m) /\ Copied(m))
    BY <1>2, <2>1, <2>4 DEF Matches
  <2> QED BY <2>1, <2>3, <2>5, QuietOwners DEF OwnerInv, SeatedOnSocket
<1>5. ASSUME NEW type, Take(g, type), UNCHANGED pmVars,
             NEW m \in {game[g], Head(gmbox[g])},
             \A h \in GMs : game'[h] = IF h = g THEN m ELSE game[h]
      PROVE  OwnerInv'
  <2>1. /\ gmbox' = [gmbox EXCEPT ![g] = Tail(gmbox[g])] /\ gmbox[g] # <<>>
        /\ UNCHANGED <<inbox, seat, stream>>
    BY <1>5 DEF Take, pmVars
  <2>2. /\ gmbox[g] \in Seq(Reply)
        /\ \A h \in GMs : gmbox'[h] = IF h = g THEN Tail(gmbox[g]) ELSE gmbox[h]
    BY <1>1, <2>1 DEF TypeOK
  <2>3. /\ Head(gmbox[g]) = gmbox[g][1]
        /\ DOMAIN gmbox[g] = 1..Len(gmbox[g]) /\ Len(gmbox[g]) \in Nat \ {0}
        /\ DOMAIN Tail(gmbox[g]) = 1..(Len(gmbox[g]) - 1)
        /\ \A i \in DOMAIN Tail(gmbox[g]) : Tail(gmbox[g])[i] = gmbox[g][i + 1]
    BY <2>1, <2>2, TailFacts
  <2>4. /\ 1 \in DOMAIN gmbox[g]
        /\ \A i \in DOMAIN Tail(gmbox[g]) : i + 1 \in DOMAIN gmbox[g]
    BY <2>3
  <2>5. m \in Matches(g)
    BY <2>3, <2>4 DEF Matches
  <2>6. \A h \in GMs : game'[h] \in Matches(h)
    <3>1. \A h \in GMs : game[h] \in Matches(h)
      BY DEF Matches
    <3> QED BY <1>5, <2>5, <3>1
  <2>7. ASSUME NEW i \in DOMAIN Tail(gmbox[g])
        PROVE  Tail(gmbox[g])[i] \in Matches(g)
    <3>1. Tail(gmbox[g])[i] = gmbox[g][i + 1] /\ i + 1 \in DOMAIN gmbox[g]
      BY <2>3, <2>4
    <3> QED BY <3>1 DEF Matches
  <2>8. ASSUME NEW h \in GMs, NEW i \in DOMAIN gmbox'[h]
        PROVE  gmbox'[h][i] \in Matches(h)
    <3>1. CASE h = g
      BY <2>2, <2>7, <3>1
    <3>2. CASE h # g
      BY <2>2, <2>8, <3>2 DEF Matches
    <3> QED BY <3>1, <3>2
  <2>9. \A h \in GMs : \A x \in Matches(h)' : x \in Matches(h)
    BY <2>6, <2>8 DEF Matches
  <2> QED BY <2>1, <2>9, QuietOwners DEF OwnerInv, SeatedOnSocket, Logins
<1>6. CASE BackOff(g)
  <2>1. \A h \in GMs : game'[h] = IF h = g THEN game[g] ELSE game[h]
    BY <1>6 DEF BackOff
  <2> QED BY <1>5, <1>6, <2>1 DEF BackOff
<1>7. CASE BeginGame(g)
  <2>1. \A h \in GMs : game'[h] = IF h = g THEN Head(gmbox[g]) ELSE game[h]
    BY <1>1, <1>7 DEF BeginGame, TypeOK
  <2> QED BY <1>5, <1>7, <2>1 DEF BeginGame
<1>8. CASE Win(g)
  BY <1>1, <1>4, <1>8, EventTypes, PlayingFields DEF Win
<1>9. CASE Draw(g)
  BY <1>1, <1>4, <1>9, EventTypes, PlayingFields DEF Draw
<1>10. CASE Abandon(g)
  BY <1>1, <1>4, <1>10, EventTypes, PlayingFields DEF Abandon
<1>11. CASE PanicInGame(g)
  <2>1. /\ UNCHANGED <<inbox, seat, stream, gmbox>>
        /\ \A h \in GMs : game'[h] \in {game[h], NoPlayersAvailable}
    BY <1>1, <1>11 DEF PanicInGame, pmVars, TypeOK
  <2>2. \A h \in GMs : \A m \in Matches(h)' : m \in Matches(h) \/ (Apart(m) /\ Copied(m))
    BY <1>2, <2>1 DEF Matches
  <2> QED BY <2>1, <2>2, QuietOwners DEF OwnerInv, SeatedOnSocket, Logins
<1>12. CASE Exit(g)
  BY <1>12, QuietOwners DEF Exit, pmVars, OwnerInv, SeatedOnSocket, Matches, Logins
<1> QED BY <1>3, <1>6, <1>7, <1>8, <1>9, <1>10, <1>11, <1>12 DEF GameMaster

LEMMA InitOwners == Init => OwnerInv
<1> SUFFICES ASSUME Init PROVE OwnerInv
  OBVIOUS
<1>1. Logins = {} /\ \A g \in GMs : Matches(g) = {NoPlayersAvailable}
  BY DEF Init, Logins, Matches
<1>2. Apart(NoPlayersAvailable)
  BY DEF Apart, NoPlayersAvailable
<1>3. RegisteredApart /\ SeatedOnSocket
  BY DEF Init, RegisteredApart, SeatedOnSocket
<1>4. OneName
  <2>1. NoPlayersAvailable.type # "NewGame"
    BY DEF NoPlayersAvailable
  <2>2. \A u : ~InRegistry(u) /\ ~InQueue(u) /\ ~InGames(u)
    BY <1>1, <2>1 DEF Init, InRegistry, InQueue, InGames
  <2>3. Uses = {}
    BY <2>2, UsePlaces
  <2> QED BY <2>3 DEF OneName
<1> QED BY <1>1, <1>2, <1>3, <1>4, InitType DEF OwnerInv, QueuedOnce, QueuedApart, MatchesApart

LEMMA NextOwners == OwnerInv /\ [Next]_vars => OwnerInv'
<1> SUFFICES ASSUME OwnerInv, [Next]_vars PROVE OwnerInv'
  OBVIOUS
<1>1. TypeOK'
  BY NextType DEF OwnerInv
<1>2. CASE \E c \in Conns, n \in Names : Login(c, n)
  BY <1>1, <1>2, LoginOwners
<1>3. CASE PlayerManager
  BY <1>1, <1>3, PlayerManagerOwners
<1>4. CASE \E g \in GMs : GameMaster(g)
  BY <1>1, <1>4, GameMasterOwners
<1>5. ASSUME UNCHANGED <<inbox, stream, gmbox, game>>, SeatedOnSocket'
      PROVE  OwnerInv'
  BY <1>1, <1>5, QuietOwners DEF Matches, Logins
<1>6. CASE \E c \in Conns : Disconnect(c)
  BY <1>5, <1>6 DEF Disconnect, pmVars, gmVars, OwnerInv, SeatedOnSocket
<1>7. CASE \E n \in Names : CooldownEnds(n)
  BY <1>5, <1>7 DEF CooldownEnds, gmVars, OwnerInv, SeatedOnSocket
<1>8. CASE UNCHANGED vars
  BY <1>5, <1>8 DEF vars, pmVars, gmVars, OwnerInv, SeatedOnSocket
<1> QED BY <1>2, <1>3, <1>4, <1>6, <1>7, <1>8 DEF Next

\* A socket is one player's: handles are passed from the queue to the registry and
\* copied from there to one side of a game, and a socket that a login brings is in no
\* registry, queue or game.  So no socket is registered, queued or in play under two
\* names, whoever logs in twice and whatever panics.
THEOREM SocketsOwned == Spec => []OneOwnerPerSocket
BY InitOwners, NextOwners, OwnersAreOne, PTL DEF Spec

-----------------------------------------------------------------------------
(* Sums.  SumFunction is defined by a recursion over subsets.  That the     *)
(* recursion defines something, and what follows from it, is proved by      *)
(* looking at a smallest subset for which it would be wrong.                *)

\* Among the subsets of a finite set that have a property there is a smallest.
LEMMA SmallestSubset ==
  ASSUME NEW S, IsFiniteSet(S), NEW T, T \subseteq SUBSET S, T # {}
  PROVE  \E x \in T : \A y \in T : y \subseteq x => y = x
<1>1. IsWellFoundedOn(StrictSubsetOrdering(S), FiniteSubsetsOf(S))
  BY FS_StrictSubsetOrderingWellFounded
<1>2. T \subseteq FiniteSubsetsOf(S)
  BY FS_FiniteSubsetsOfFinite
<1>3. PICK x \in T : \A y \in T : ~ (<<y, x>> \in StrictSubsetOrdering(S))
  BY <1>1, <1>2, WFMin
<1> QED BY <1>3 DEF StrictSubsetOrdering

\* The element a sum takes first, and what it means that s is the table of the sums of f
\* over the subsets of T.
First(s) == CHOOSE x \in s : TRUE
SumsOver(f, T, s) ==
  \A t \in SUBSET T : s[t] = IF t = {} THEN 0 ELSE f[First(t)] + s[t \ {First(t)}]

LEMMA FirstIn == ASSUME NEW s, s # {} PROVE First(s) \in s
BY DEF First

\* There is one such table at most ...
LEMMA SumsUnique ==
  ASSUME NEW f, NEW T, IsFiniteSet(T), NEW s, NEW r, SumsOver(f, T, s), SumsOver(f, T, r)
  PROVE  \A t \in SUBSET T : s[t] = r[t]
<1> DEFINE Bad == {t \in SUBSET T : s[t] # r[t]}
<1> SUFFICES ASSUME Bad # {} PROVE FALSE
  OBVIOUS
<1>1. PICK t \in Bad : \A y \in Bad : y \subseteq t => y = t
  <2>1. Bad \subseteq SUBSET T
    OBVIOUS
  <2> HIDE DEF Bad
  <2> QED BY SmallestSubset, <2>1
<1>2. t # {}
  BY <1>1 DEF SumsOver
<1>3. /\ First(t) \in t
      /\ t \ {First(t)} \in SUBSET T
      /\ t \ {First(t)} \notin Bad
  BY <1>1, <1>2, FirstIn
<1> QED BY <1>1, <1>2, <1>3 DEF SumsOver

\* ... and there is one.
LEMMA SumsExist ==
  ASSUME NEW f, NEW S, IsFiniteSet(S)
  PROVE  \E s : SumsOver(f, S, s)
<1> DEFINE Bad == {T \in SUBSET S : ~ \E s : SumsOver(f, T, s)}
<1> SUFFICES ASSUME Bad # {} PROVE FALSE
  OBVIOUS
<1>1. PICK T \in Bad : \A y \in Bad : y \subseteq T => y = T
  <2>1. Bad \subseteq SUBSET S
    OBVIOUS
  <2> HIDE DEF Bad
  <2> QED BY SmallestSubset, <2>1
<1> DEFINE Table(U) == CHOOSE s : SumsOver(f, U, s)
           Sum(U) == Table(U)[U]
           s == [t \in SUBSET T |->
                   IF t # T THEN Sum(t)
                   ELSE IF T = {} THEN 0 ELSE f[First(T)] + Sum(T \ {First(T)})]
<1>2. \A U \in SUBSET T : U # T => SumsOver(f, U, Table(U))
  BY <1>1
<1>3. ASSUME NEW U \in SUBSET T, U # T, U # {}
      PROVE  Sum(U) = f[First(U)] + Sum(U \ {First(U)})
  <2> DEFINE R == U \ {First(U)}
  <2>1. R \in SUBSET U /\ R \in SUBSET T /\ R # T
    BY <1>3
  <2>2. SumsOver(f, R, Table(U)) /\ SumsOver(f, R, Table(R))
    <3>1. SumsOver(f, U, Table(U)) /\ SumsOver(f, R, Table(R))
      BY <1>2, <1>3, <2>1
    <3> HIDE DEF Table
    <3> QED BY <3>1, <2>1 DEF SumsOver
  <2>3. IsFiniteSet(R)
    BY FS_Subset, <2>1, T \in SUBSET S
  <2> HIDE DEF R
  <2>4. Table(U)[R] = Table(R)[R]
    <3> HIDE DEF Table
    <3> QED BY <2>2, <2>3, SumsUnique
  <2>5. Table(U)[U] = f[First(U)] + Table(U)[R]
    <3>1. SumsOver(f, U, Table(U))
      BY <1>2, <1>3
    <3> HIDE DEF Table
    <3> QED BY <3>1, <1>3 DEF SumsOver, R
  <2> QED BY <2>4, <2>5 DEF R
<1>4. ASSUME {} # T PROVE Sum({}) = 0
  <2>1. SumsOver(f, {}, Table({}))
    BY <1>2, <1>4
  <2> HIDE DEF Table
  <2> QED BY <2>1 DEF SumsOver
<1>5. SumsOver(f, T, s)
  <2> SUFFICES ASSUME NEW t \in SUBSET T
               PROVE  s[t] = IF t = {} THEN 0 ELSE f[First(t)] + s[t \ {First(t)}]
    BY DEF SumsOver
  <2>1. t # {} => First(t) \in t
    BY FirstIn
  <2>2. t # {} => t \ {First(t)} \in SUBSET T /\ t \ {First(t)} # T
    BY <2>1
  <2> HIDE DEF Sum
  <2> QED BY <2>2, <1>3, <1>4
<1> QED BY <1>1, <1>5

\* What SumFunction adds up.
SumTable(f) ==
  CHOOSE s : s = [t \in SUBSET DOMAIN f |->
                    IF t = {} THEN 0 ELSE f[First(t)] + s[t \ {First(t)}]]

LEMMA SumDefined ==
  ASSUME NEW f, IsFiniteSet(DOMAIN f)
  PROVE  /\ SumsOver(f, DOMAIN f, SumTable(f))
         /\ SumFunction(f) = SumTable(f)[DOMAIN f]
<1>1. PICK s : SumsOver(f, DOMAIN f, s)
  BY SumsExist
<1> DEFINE r == [t \in SUBSET DOMAIN f |-> s[t]]
<1>2. r = [t \in SUBSET DOMAIN f |->
             IF t = {} THEN 0 ELSE f[First(t)] + r[t \ {First(t)}]]
  <2>1. \A t \in SUBSET DOMAIN f : t \ {First(t)} \in SUBSET DOMAIN f
    OBVIOUS
  <2> QED BY <1>1, <2>1 DEF SumsOver
<1>3. SumTable(f) = [t \in SUBSET DOMAIN f |->
             IF t = {} THEN 0 ELSE f[First(t)] + SumTable(f)[t \ {First(t)}]]
  <2> HIDE DEF r
  <2> QED BY <1>2 DEF SumTable
<1>4. SumFunction(f) = SumTable(f)[DOMAIN f]
  BY DEF SumFunction, SumFunctionOnSet, FoldFunctionOnSet, MapThenFoldSet, SumTable, First
<1>5. SumsOver(f, DOMAIN f, SumTable(f))
  <2> SUFFICES ASSUME NEW t \in SUBSET DOMAIN f
               PROVE  SumTable(f)[t] = IF t = {} THEN 0 ELSE f[First(t)] + SumTable(f)[t \ {First(t)}]
    BY DEF SumsOver
  <2> QED BY <1>3
<1> QED BY <1>4, <1>5

\* A sum of numbers is a number.
LEMMA SumType ==
  ASSUME NEW S, IsFiniteSet(S), NEW f \in [S -> Int]
  PROVE  /\ SumFunction(f) \in Int
         /\ \A t \in SUBSET S : SumTable(f)[t] \in Int
<1>1. SumsOver(f, S, SumTable(f)) /\ SumFunction(f) = SumTable(f)[S]
  BY SumDefined
<1> DEFINE Bad == {t \in SUBSET S : SumTable(f)[t] \notin Int}
<1>2. ASSUME Bad # {} PROVE FALSE
  <2>1. PICK t \in Bad : \A y \in Bad : y \subseteq t => y = t
    <3>1. Bad \subseteq SUBSET S
      OBVIOUS
    <3> HIDE DEF Bad
    <3> QED BY <1>2, SmallestSubset, <3>1
  <2>2. t # {} => First(t) \in t
    BY FirstIn
  <2> DEFINE r == t \ {First(t)}
  <2>3. t # {} => SumTable(f)[r] \in Int /\ f[First(t)] \in Int
    BY <2>1, <2>2
  <2>4. SumTable(f)[t] = IF t = {} THEN 0 ELSE f[First(t)] + SumTable(f)[r]
    BY <1>1 DEF SumsOver
  <2> HIDE DEF r
  <2> QED BY <2>1, <2>3, <2>4
<1> QED BY <1>1, <1>2

\* One more in one place is one more in the sum.
LEMMA SumPlusOne ==
  ASSUME NEW S, IsFiniteSet(S), NEW f \in [S -> Int], NEW h \in [S -> Int], NEW x \in S,
         \A n \in S : h[n] = IF n = x THEN f[n] + 1 ELSE f[n]
  PROVE  SumFunction(h) = SumFunction(f) + 1
<1>1. /\ SumsOver(f, S, SumTable(f)) /\ SumFunction(f) = SumTable(f)[S]
      /\ SumsOver(h, S, SumTable(h)) /\ SumFunction(h) = SumTable(h)[S]
      /\ \A t \in SUBSET S : SumTable(f)[t] \in Int /\ SumTable(h)[t] \in Int
  BY SumDefined, SumType
<1> DEFINE Bad == {t \in SUBSET S : SumTable(h)[t] # SumTable(f)[t] + (IF x \in t THEN 1 ELSE 0)}
<1>2. ASSUME Bad # {} PROVE FALSE
  <2>1. PICK t \in Bad : \A y \in Bad : y \subseteq t => y = t
    <3>1. Bad \subseteq SUBSET S
      OBVIOUS
    <3> HIDE DEF Bad
    <3> QED BY <1>2, SmallestSubset, <3>1
  <2>2. t # {} => First(t) \in t
    BY FirstIn
  <2> DEFINE r == t \ {First(t)}
  <2>3. t # {} => /\ r \in SUBSET S
                  /\ SumTable(h)[r] = SumTable(f)[r] + (IF x \in r THEN 1 ELSE 0)
                  /\ First(t) \in S
    BY <2>1, <2>2
  <2>4. t # {} => /\ SumTable(h)[t] = h[First(t)] + SumTable(h)[r]
                  /\ SumTable(f)[t] = f[First(t)] + SumTable(f)[r]
    BY <1>1 DEF SumsOver
  <2>5. t = {} => SumTable(h)[t] = 0 /\ SumTable(f)[t] = 0
    BY <1>1 DEF SumsOver
  <2> QED BY <1>1, <2>1, <2>2, <2>3, <2>4, <2>5
<1> QED BY <1>1, <1>2

\* Two entries that grow by one make the sum grow by two.
OneMore(f, h, S, x) == \A n \in S : h[n] = IF n = x THEN f[n] + 1 ELSE f[n]

LEMMA SumOneMore ==
  ASSUME NEW S, IsFiniteSet(S), NEW f \in [S -> Int], NEW h \in [S -> Int], NEW x \in S,
         OneMore(f, h, S, x)
  PROVE  SumFunction(h) = SumFunction(f) + 1
BY SumPlusOne DEF OneMore

LEMMA SumPlusTwo ==
  ASSUME NEW S, IsFiniteSet(S), NEW f \in [S -> Int], NEW k \in [S -> Int],
         NEW h \in [S -> Int], NEW x \in S, NEW y \in S,
         OneMore(f, k, S, x), OneMore(k, h, S, y)
  PROVE  SumFunction(h) = SumFunction(f) + 2
<1>1. SumFunction(k) = SumFunction(f) + 1
  BY SumOneMore
<1>2. SumFunction(h) = SumFunction(k) + 1
  BY SumOneMore
<1>3. SumFunction(f) \in Int
  BY SumType
<1> QED BY <1>1, <1>2, <1>3

\* The sum of nothing but zeros is zero.
LEMMA SumOfZeros ==
  ASSUME NEW S, IsFiniteSet(S), NEW f \in [S -> Int], \A n \in S : f[n] = 0
  PROVE  SumFunction(f) = 0
<1>1. SumsOver(f, S, SumTable(f)) /\ SumFunction(f) = SumTable(f)[S]
  BY SumDefined
<1> DEFINE Bad == {t \in SUBSET S : SumTable(f)[t] # 0}
<1>2. ASSUME Bad # {} PROVE FALSE
  <2>1. PICK t \in Bad : \A y \in Bad : y \subseteq t => y = t
    <3>1. Bad \subseteq SUBSET S
      OBVIOUS
    <3> HIDE DEF Bad
    <3> QED BY <1>2, SmallestSubset, <3>1
  <2>2. t # {} => First(t) \in t
    BY FirstIn
  <2> DEFINE r == t \ {First(t)}
  <2>3. t # {} => SumTable(f)[r] = 0 /\ f[First(t)] = 0
    BY <2>1, <2>2
  <2>4. SumTable(f)[t] = IF t = {} THEN 0 ELSE f[First(t)] + SumTable(f)[r]
    BY <1>1 DEF SumsOver
  <2> HIDE DEF r
  <2> QED BY <2>1, <2>3, <2>4
<1> QED BY <1>1, <1>2
-----------------------------------------------------------------------------
(* The standings. *)

\* A result names both players of a game, or nobody.
NamesPair(e) ==
  e.type = "GameOver" =>
    \/ e.winner = NoName /\ e.loser = NoName
    \/ e.winner \in Names /\ e.loser \in Names /\ e.winner # e.loser

PairsReported == \A i \in DOMAIN inbox : NamesPair(inbox[i])

StandingsInv ==
  /\ BookingInv
  /\ OwnerInv
  /\ PairsReported
  /\ StandingsBalance

LEMMA PostPairs ==
  ASSUME TypeOK, PairsReported, NEW e \in Event, NamesPair(e), Post(e)
  PROVE  PairsReported'
<1>1. CASE inbox' = inbox
  BY <1>1 DEF PairsReported
<1>2. CASE inbox' = Append(inbox, e)
  <2>1. /\ DOMAIN inbox = 1..Len(inbox) /\ Len(inbox) \in Nat
        /\ DOMAIN inbox' = 1..(Len(inbox) + 1)
        /\ \A i \in DOMAIN inbox : inbox'[i] = inbox[i]
        /\ inbox'[Len(inbox) + 1] = e
    BY <1>2, AppendFacts DEF TypeOK
  <2>2. \A i \in DOMAIN inbox' : inbox'[i] = e \/ (i \in DOMAIN inbox /\ inbox'[i] = inbox[i])
    BY <2>1
  <2>3. \A i \in DOMAIN inbox' : NamesPair(inbox'[i])
    BY <2>2 DEF PairsReported
  <2> QED BY <2>3 DEF PairsReported, NamesPair
<1> QED BY <1>1, <1>2 DEF Post

LEMMA TailPairs ==
  ASSUME TypeOK, PairsReported, inbox # <<>>, inbox' = Tail(inbox)
  PROVE  PairsReported'
<1>1. /\ DOMAIN inbox = 1..Len(inbox) /\ Len(inbox) \in Nat \ {0}
      /\ DOMAIN inbox' = 1..(Len(inbox) - 1)
      /\ \A i \in DOMAIN inbox' : inbox'[i] = inbox[i + 1]
  BY TailFacts DEF TypeOK
<1>2. \A i \in DOMAIN inbox' : i + 1 \in DOMAIN inbox
  BY <1>1
<1>3. \A i \in DOMAIN inbox' : NamesPair(inbox'[i])
  BY <1>1, <1>2 DEF PairsReported
<1> QED BY <1>3 DEF PairsReported, NamesPair

LEMMA GameMasterPairs ==
  ASSUME OwnerInv, PairsReported, NEW g \in GMs, GameMaster(g)
  PROVE  PairsReported'
<1>1. TypeOK
  BY DEF OwnerInv
<1>2. ASSUME NEW status, NEW w, NEW l, GameOver(g, status, w, l) \in Event,
             (w = NoName /\ l = NoName) \/ (w \in Names /\ l \in Names /\ w # l),
             EndGame(g, status, w, l)
      PROVE  PairsReported'
  <2>1. NamesPair(GameOver(g, status, w, l))
    BY <1>2 DEF NamesPair, GameOver
  <2> QED BY <1>1, <1>2, <2>1, PostPairs DEF EndGame
<1>3. ASSUME gm[g] = "play"
      PROVE  game[g].a \in Names /\ game[g].b \in Names /\ game[g].a # game[g].b
  <2>1. game[g].a \in Names /\ game[g].b \in Names
    BY <1>1, <1>3, PlayingFields
  <2>2. game[g] \in Matches(g) /\ game[g].type = "NewGame"
    BY <1>1, <1>3 DEF Matches, TypeOK
  <2> QED BY <2>1, <2>2 DEF OwnerInv, MatchesApart, Apart
<1>4. CASE Ask(g)
  <2>1. NeedPlayers(g) \in Event /\ NamesPair(NeedPlayers(g))
    BY EventTypes DEF NeedPlayers, NamesPair
  <2> QED BY <1>1, <1>4, <2>1, PostPairs DEF Ask
<1>5. CASE BackOff(g) \/ BeginGame(g) \/ PanicInGame(g) \/ Exit(g)
  BY <1>5 DEF BackOff, BeginGame, PanicInGame, Exit, pmVars, PairsReported
<1>6. CASE Win(g)
  BY <1>1, <1>2, <1>3, <1>6, EventTypes DEF Win
<1>7. CASE Draw(g)
  BY <1>1, <1>2, <1>3, <1>7, EventTypes DEF Draw
<1>8. CASE Abandon(g)
  BY <1>1, <1>2, <1>3, <1>8, EventTypes DEF Abandon
<1> QED BY <1>4, <1>5, <1>6, <1>7, <1>8 DEF GameMaster

LEMMA NextPairs ==
  ASSUME OwnerInv, PairsReported, [Next]_vars
  PROVE  PairsReported'
<1>1. TypeOK
  BY DEF OwnerInv
<1>2. CASE \E c \in Conns, n \in Names : Login(c, n)
  <2> PICK c \in Conns, n \in Names : Login(c, n)
    BY <1>2
  <2>1. NewPlayer(n, c) \in Event /\ NamesPair(NewPlayer(n, c))
    BY EventTypes DEF NewPlayer, NamesPair
  <2> QED BY <1>1, <2>1, PostPairs DEF Login
<1>3. CASE PlayerManager
  <2>1. CASE inbox' = <<>>
    BY <2>1 DEF PairsReported
  <2>2. CASE inbox # <<>> /\ inbox' = Tail(inbox)
    BY <1>1, <2>2, TailPairs
  <2>3. CASE inbox' = inbox
    BY <2>3 DEF PairsReported
  <2> QED BY <1>3, <2>1, <2>2, <2>3 DEF PlayerManager, StartupFails, SpawnGM, BeginServing,
            HandleNewPlayer, HandleGameOver, PanicOnGameOver, PanicOnAlive, Panic,
            HandleNeedPlayers, Receiving, pmVars
<1>4. CASE \E g \in GMs : GameMaster(g)
  BY <1>4, GameMasterPairs
<1>5. CASE inbox' = inbox
  BY <1>5 DEF PairsReported
<1> QED BY <1>2, <1>3, <1>4, <1>5 DEF Next, Disconnect, CooldownEnds, pmVars, vars

\* The columns of the players table, before and after a step, and their sums.
ColumnOf(c) == [n \in Names |-> db[n][c]]

LEMMA TotalType ==
  ASSUME TypeOK, NEW c \in Columns
  PROVE  ColumnOf(c) \in [Names -> Int] /\ Total(c) \in Int
<1>1. ColumnOf(c) \in [Names -> Int]
  BY ServerAssumption DEF ColumnOf, TypeOK
<1> QED BY <1>1, SumType, ServerAssumption DEF Total, ColumnOf

LEMMA TotalSame ==
  ASSUME NEW c \in Columns, \A n \in Names : db'[n][c] = db[n][c]
  PROVE  Total(c)' = Total(c)
<1>1. [n \in Names |-> db'[n][c]] = [n \in Names |-> db[n][c]]
  OBVIOUS
<1> QED BY <1>1 DEF Total

LEMMA TotalPlusOne ==
  ASSUME TypeOK, TypeOK', NEW c \in Columns, NEW x \in Names,
         \A n \in Names : db'[n][c] = IF n = x THEN db[n][c] + 1 ELSE db[n][c]
  PROVE  Total(c)' = Total(c) + 1
<1> DEFINE f == [n \in Names |-> db[n][c]]
           h == [n \in Names |-> db'[n][c]]
<1>1. f \in [Names -> Int] /\ h \in [Names -> Int]
  BY ServerAssumption DEF TypeOK
<1>2. \A n \in Names : h[n] = IF n = x THEN f[n] + 1 ELSE f[n]
  OBVIOUS
<1> HIDE DEF f, h
<1>3. SumFunction(h) = SumFunction(f) + 1
  BY <1>1, <1>2, SumPlusOne, ServerAssumption
<1> QED BY <1>3 DEF Total, f, h

LEMMA TotalPlusTwo ==
  ASSUME TypeOK, TypeOK', NEW c \in Columns, NEW x \in Names, NEW y \in Names, x # y,
         \A n \in Names : db'[n][c] = IF n \in {x, y} THEN db[n][c] + 1 ELSE db[n][c]
  PROVE  Total(c)' = Total(c) + 2
<1> DEFINE f == [n \in Names |-> db[n][c]]
           k == [n \in Names |-> IF n = x THEN db[n][c] + 1 ELSE db[n][c]]
           h == [n \in Names |-> db'[n][c]]
<1>1. f \in [Names -> Int] /\ k \in [Names -> Int] /\ h \in [Names -> Int]
  BY ServerAssumption DEF TypeOK
<1>2. OneMore(f, k, Names, x) /\ OneMore(k, h, Names, y)
  BY DEF OneMore
<1> HIDE DEF f, h, k
<1>3. SumFunction(h) = SumFunction(f) + 2
  BY <1>1, <1>2, SumPlusTwo, ServerAssumption
<1> QED BY <1>3 DEF Total, f, h

\* With a database that does not fail, what is to be counted is counted once.
LEMMA CreditExact ==
  ASSUME TypeOK, DbReliable, NEW cells, Credit(cells), NEW n \in Names, NEW c \in Columns
  PROVE  db'[n][c] = IF <<n, c>> \in cells THEN db[n][c] + 1 ELSE db[n][c]
<1>1. db' = [k \in Names |-> [f \in Columns |->
               IF <<k, f>> \in cells THEN db[k][f] + 1 ELSE db[k][f]]]
  BY DEF Credit
<1> QED BY <1>1

LEMMA GameOverStandings ==
  ASSUME StandingsInv, TypeOK', DbReliable, NoName \notin Names, HandleGameOver
  PROVE  StandingsBalance'
<1> DEFINE e == Head(inbox)
           w == e.winner
           l == e.loser
<1>1. /\ inbox # <<>> /\ inbox' = Tail(inbox) /\ e.type = "GameOver"
      /\ Credit(Credits(e))
  BY DEF HandleGameOver, Receiving
<1>2. TypeOK /\ ConversationInv
  BY DEF StandingsInv, BookingInv, ConversationInv
<1>3. e = inbox[1] /\ 1 \in DOMAIN inbox /\ e \in Event
  BY <1>1, <1>2, TailFacts DEF TypeOK
<1>4. NamesPair(e)
  BY <1>3 DEF StandingsInv, PairsReported
<1> DEFINE wins   == Total("wins")
           losses == Total("losses")
           draws  == Total("draws")
<1>5. wins \in Int /\ losses \in Int /\ draws \in Int /\ losses <= wins /\ draws % 2 = 0
  BY <1>2, TotalType DEF Columns, StandingsInv, StandingsBalance
<1>6. \A n \in Names, c \in Columns :
        db'[n][c] = IF <<n, c>> \in Credits(e) THEN db[n][c] + 1 ELSE db[n][c]
  BY <1>1, <1>2, CreditExact
<1>7. CASE w = NoName /\ l = NoName
  <2>1. e.status = "Completed"
    BY <1>1, <1>3, <1>7, EventFields
  <2>2. Credits(e) = {}
    BY <1>7, <2>1 DEF Credits
  <2>3. wins' = wins /\ losses' = losses /\ draws' = draws
    BY <1>6, <2>2, TotalSame DEF Columns
  <2> QED BY <1>5, <2>3 DEF StandingsBalance
<1>8. CASE w \in Names /\ l \in Names /\ w # l
  <2>1. seat[w] = "in_game" /\ seat[l] = "in_game"
    <3>1. e.gm \in GMs /\ Reported(e.gm) = {w, l}
      BY <1>1, <1>2, <1>3, EventFields, TakeReported
    <3>2. w \in Booked(e.gm) /\ l \in Booked(e.gm)
      BY <1>8, <3>1 DEF Booked
    <3>3. pm # "stopped"
      BY DEF HandleGameOver, Receiving
    <3> QED BY <3>1, <3>2, <3>3 DEF StandingsInv, BookingInv, RegistryAgrees
  <2>2. /\ AfterGame(e)[w] = "cooling"
        /\ AfterGame(e)[l] = IF e.status = "Abandoned" THEN "absent" ELSE "cooling"
    BY <1>8, <2>1 DEF AfterGame, Players
  <2>3. Credits(e) = (IF e.status = "Draw" THEN {<<w, "draws">>, <<l, "draws">>} ELSE {})
                       \cup {<<w, "wins">>}
                       \cup (IF e.status = "Abandoned" THEN {} ELSE {<<l, "losses">>})
    <3>1. {w, l} \X {"draws"} = {<<w, "draws">>, <<l, "draws">>}
      OBVIOUS
    <3> QED BY <1>8, <2>2, <3>1 DEF Credits, Players
  <2>4. wins' = wins + 1
    <3>1. \A n \in Names : db'[n]["wins"] = IF n = w THEN db[n]["wins"] + 1 ELSE db[n]["wins"]
      BY <1>6, <2>3 DEF Columns
    <3> QED BY <1>2, <1>8, <3>1, TotalPlusOne DEF Columns
  <2>5. losses' \in {losses, losses + 1}
    <3>1. CASE e.status = "Abandoned"
      <4>1. \A n \in Names : db'[n]["losses"] = db[n]["losses"]
        BY <1>6, <2>3, <3>1 DEF Columns
      <4> QED BY <4>1, TotalSame DEF Columns
    <3>2. CASE e.status # "Abandoned"
      <4>1. \A n \in Names :
              db'[n]["losses"] = IF n = l THEN db[n]["losses"] + 1 ELSE db[n]["losses"]
        BY <1>6, <2>3, <3>2 DEF Columns
      <4> QED BY <1>2, <1>8, <4>1, TotalPlusOne DEF Columns
    <3> QED BY <3>1, <3>2
  <2>6. draws' \in {draws, draws + 2}
    <3>1. CASE e.status # "Draw"
      <4>1. \A n \in Names : db'[n]["draws"] = db[n]["draws"]
        BY <1>6, <2>3, <3>1 DEF Columns
      <4> QED BY <4>1, TotalSame DEF Columns
    <3>2. CASE e.status = "Draw"
      <4>1. \A n \in Names :
              db'[n]["draws"] = IF n \in {w, l} THEN db[n]["draws"] + 1 ELSE db[n]["draws"]
        BY <1>6, <2>3, <3>2 DEF Columns
      <4> QED BY <1>2, <1>8, <4>1, TotalPlusTwo DEF Columns
    <3> QED BY <3>1, <3>2
  <2> HIDE DEF wins, losses, draws
  <2>7. losses' <= wins'
    BY <1>5, <2>4, <2>5
  <2>8. draws' % 2 = 0
    <3>1. \A d \in Int : d % 2 = 0 => (d + 2) % 2 = 0
      OBVIOUS
    <3> QED BY <1>5, <2>6, <3>1
  <2> QED BY <2>7, <2>8 DEF StandingsBalance, wins, losses, draws
<1> QED BY <1>1, <1>4, <1>7, <1>8 DEF NamesPair

LEMMA InitStandings == Init => StandingsInv
<1> SUFFICES ASSUME Init PROVE StandingsInv
  OBVIOUS
<1>1. ASSUME NEW c \in Columns PROVE Total(c) = 0
  <2> DEFINE f == [n \in Names |-> db[n][c]]
  <2>1. f \in [Names -> Int] /\ \A n \in Names : f[n] = 0
    BY DEF Init
  <2> HIDE DEF f
  <2>2. SumFunction(f) = 0
    BY <2>1, SumOfZeros, ServerAssumption
  <2> QED BY <2>2 DEF Total, f
<1>2. StandingsBalance
  BY <1>1 DEF StandingsBalance, Columns
<1>3. PairsReported
  BY DEF Init, PairsReported
<1> QED BY <1>2, <1>3, InitBooking, InitOwners DEF StandingsInv

LEMMA NextStandings ==
  ASSUME Relogin = {}, DbReliable, NoName \notin Names, StandingsInv, [Next]_vars
  PROVE  StandingsInv'
<1>1. BookingInv' /\ OwnerInv' /\ PairsReported'
  BY NextBooking, NextOwners, NextPairs DEF StandingsInv
<1>2. TypeOK'
  BY <1>1 DEF OwnerInv
<1>3. CASE HandleGameOver
  BY <1>1, <1>2, <1>3, GameOverStandings DEF StandingsInv
<1>4. CASE db' = db
  <2>1. \A c \in Columns : Total(c)' = Total(c)
    BY <1>4, TotalSame
  <2>2. StandingsBalance'
    BY <2>1 DEF StandingsInv, StandingsBalance, Columns
  <2> QED BY <1>1, <2>2 DEF StandingsInv
<1>5. HandleGameOver \/ db' = db
  BY DEF Next, Login, Disconnect, PlayerManager, StartupFails, SpawnGM, BeginServing,
         HandleNewPlayer, PanicOnGameOver, PanicOnAlive, Panic, HandleNeedPlayers,
         CooldownEnds, GameMaster, Ask, BackOff, BeginGame, Win, Draw, Abandon, PanicInGame,
         Exit, EndGame, vars, pmVars, gmVars
<1> QED BY <1>3, <1>4, <1>5

\* As long as nobody logs in twice, nobody is called "" and no UPDATE fails, the standings
\* balance: a result names two players of one game, both of them still in the registry,
\* so that every loss comes with a win, and draws come in pairs.
THEOREM StandingsBalanced ==
  ASSUME Relogin = {}, DbReliable, NoName \notin Names
  PROVE  Spec => []StandingsBalance
<1>1. StandingsInv /\ [Next]_vars => StandingsInv'
  BY NextStandings
<1>2. StandingsInv => StandingsBalance
  BY DEF StandingsInv
<1> QED BY InitStandings, <1>1, <1>2, PTL DEF Spec

=============================================================================
