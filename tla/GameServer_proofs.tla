-------------------------- MODULE GameServer_proofs --------------------------
(***************************************************************************)
(* Proofs about the tasks of the server, for any sets of names, sockets    *)
(* and game masters: what holds of any logins, and that matchmaking keeps  *)
(* games apart as long as no user logs in while the server still knows the *)
(* name.                                                                   *)
(***************************************************************************)
EXTENDS GameServer, TLAPS

-----------------------------------------------------------------------------
(* Events and replies. *)

LEMMA EventTypes ==
  /\ \A n \in Names, c \in Conns : NewPlayer(n, c) \in Event
  /\ \A g \in GMs : NeedPlayers(g) \in Event
  /\ \A g \in GMs, w, l \in Names, status \in {"Completed", "Draw", "Abandoned"} :
       GameOver(g, status, w, l) \in Event
  /\ \A g \in GMs : GameOver(g, "Completed", NoName, NoName) \in Event
BY DEF Event, NewPlayer, NeedPlayers, GameOver

LEMMA EventFields ==
  ASSUME NEW e \in Event
  PROVE  /\ e.type \in {"NewPlayer", "NeedPlayers", "GameOver"}
         /\ e.type = "NewPlayer" => e.name \in Names /\ e.conn \in Conns
         /\ e.type = "NeedPlayers" => e.gm \in GMs
         /\ e.type = "GameOver" =>
              /\ e.gm \in GMs
              /\ e.status \in {"Completed", "Draw", "Abandoned"}
              /\ e.winner \in Names \cup {NoName}
              /\ e.loser \in Names \cup {NoName}
              /\ e.status # "Completed" => e.winner \in Names /\ e.loser \in Names
BY DEF Event

LEMMA ReplyFields ==
  ASSUME NEW r \in Reply
  PROVE  /\ r.type \in {"NewGame", "NoPlayersAvailable"}
         /\ r.type = "NewGame" => /\ r.a \in Names /\ r.b \in Names
                                  /\ {r.sa, r.sb} \subseteq Conns \cup {NoConn}
         /\ r.type = "NoPlayersAvailable" => r = NoPlayersAvailable
BY DEF Reply, NoPlayersAvailable

LEMMA ReplyTypes ==
  /\ NoPlayersAvailable \in Reply
  /\ NoPlayersAvailable.type = "NoPlayersAvailable"
  /\ \A a, b \in Names : stream \in [Names -> Conns \cup {NoConn}] => NewGame(a, b) \in Reply
BY DEF Reply, NewGame, NoPlayersAvailable

-----------------------------------------------------------------------------
(* Channels. *)

LEMMA AppendFacts ==
  ASSUME NEW S, NEW q \in Seq(S), NEW x \in S
  PROVE  /\ Append(q, x) \in Seq(S)
         /\ Append(q, x) # <<>>
         /\ DOMAIN q = 1..Len(q) /\ Len(q) \in Nat
         /\ DOMAIN Append(q, x) = 1..(Len(q) + 1)
         /\ \A i \in DOMAIN q : Append(q, x)[i] = q[i]
         /\ Append(q, x)[Len(q) + 1] = x
  OBVIOUS

LEMMA TailFacts ==
  ASSUME NEW S, NEW q \in Seq(S), q # <<>>
  PROVE  /\ Head(q) = q[1] /\ Head(q) \in S
         /\ Tail(q) \in Seq(S)
         /\ DOMAIN q = 1..Len(q) /\ Len(q) \in Nat \ {0}
         /\ DOMAIN Tail(q) = 1..(Len(q) - 1)
         /\ \A i \in DOMAIN Tail(q) : Tail(q)[i] = q[i + 1]
  OBVIOUS

-----------------------------------------------------------------------------
(* Type correctness. *)

LEMMA ShutType ==
  ASSUME gone \in SUBSET Conns, NEW conns \in SUBSET (Conns \cup {NoConn}), Shut(conns)
  PROVE  gone' \in SUBSET Conns
BY DEF Shut, Held

LEMMA CreditType ==
  ASSUME db \in [Names -> [Columns -> 0..MaxStat]], NEW cells, Credit(cells)
  PROVE  db' \in [Names -> [Columns -> 0..MaxStat]]
<1> PICK done \in SUBSET cells :
      /\ \A x \in done : db[x[1]][x[2]] < MaxStat
      /\ db' = [n \in Names |-> [f \in Columns |->
                  IF <<n, f>> \in done THEN db[n][f] + 1 ELSE db[n][f]]]
  BY DEF Credit
<1>1. ASSUME NEW n \in Names, NEW f \in Columns
      PROVE  (IF <<n, f>> \in done THEN db[n][f] + 1 ELSE db[n][f]) \in 0..MaxStat
  <2>1. <<n, f>> \in done => db[n][f] < MaxStat
    OBVIOUS
  <2> QED BY <2>1, ServerAssumption
<1> QED BY <1>1

LEMMA PublishType ==
  ASSUME TypeOK, PublishStats
  PROVE  server_stats' \in Int
BY DEF TypeOK, PublishStats

LEMMA PostType ==
  ASSUME inbox \in Seq(Event), NEW e \in Event, Post(e)
  PROVE  inbox' \in Seq(Event)
BY DEF Post

LEMMA InitType == Init => TypeOK
BY ServerAssumption, ReplyTypes DEF Init, TypeOK

LEMMA LoginType ==
  ASSUME TypeOK, NEW c \in Conns, NEW n \in Names, Login(c, n)
  PROVE  TypeOK'
<1>1. inbox' \in Seq(Event)
  BY EventTypes, PostType DEF Login, TypeOK
<1> QED BY <1>1 DEF Login, TypeOK, gmVars

LEMMA DisconnectType ==
  ASSUME TypeOK, NEW c \in Conns, Disconnect(c)
  PROVE  TypeOK'
BY DEF Disconnect, TypeOK, pmVars, gmVars

LEMMA StartupType ==
  ASSUME TypeOK, StartupFails \/ (\E g \in GMs : SpawnGM(g)) \/ BeginServing
  PROVE  TypeOK'
<1>1. CASE StartupFails
  <2>1. gone' \in SUBSET Conns
    BY <1>1, ShutType DEF StartupFails, TypeOK
  <2> QED BY <1>1, <2>1 DEF StartupFails, TypeOK, gmVars
<1>2. CASE \E g \in GMs : SpawnGM(g)
  BY <1>2 DEF SpawnGM, TypeOK, pmVars
<1>3. CASE BeginServing
  BY <1>3 DEF BeginServing, TypeOK, gmVars
<1> QED BY <1>1, <1>2, <1>3

LEMMA NewPlayerType == TypeOK /\ HandleNewPlayer => TypeOK'
<1> SUFFICES ASSUME TypeOK, HandleNewPlayer PROVE TypeOK'
  OBVIOUS
<1>1. /\ Head(inbox) \in Event /\ Head(inbox).type = "NewPlayer"
      /\ Tail(inbox) \in Seq(Event)
  BY TailFacts DEF HandleNewPlayer, Receiving, TypeOK
<1>2. Head(inbox).name \in Names /\ Head(inbox).conn \in Conns
  BY <1>1, EventFields
<1>3. gone' \in SUBSET Conns
  BY ShutType DEF HandleNewPlayer, TypeOK
<1>4. server_stats' \in Int
  BY PublishType DEF HandleNewPlayer
<1> QED BY <1>1, <1>2, <1>3, <1>4 DEF HandleNewPlayer, TypeOK, gmVars

LEMMA GameOverType == TypeOK /\ HandleGameOver => TypeOK'
<1> SUFFICES ASSUME TypeOK, HandleGameOver PROVE TypeOK'
  OBVIOUS
<1> DEFINE e == Head(inbox)
<1>1. e \in Event /\ e.type = "GameOver" /\ Tail(inbox) \in Seq(Event)
  BY TailFacts DEF HandleGameOver, Receiving, TypeOK
<1>2. e.status = "Abandoned" => e.loser \in Names
  BY <1>1, EventFields
<1>3. /\ seat' = AfterGame(e)
      /\ stream' = [n \in Names |-> IF seat'[n] = "absent" THEN NoConn ELSE stream[n]]
      /\ Credit(Credits(e))
      /\ inbox' = Tail(inbox)
      /\ concurrent_games' = concurrent_games - 1
      /\ PublishStats
      /\ UNCHANGED <<pm, gmVars>>
      /\ Shut(IF e.status = "Abandoned" THEN {stream[e.loser]} ELSE {})
  BY DEF HandleGameOver
<1> HIDE DEF e
<1>4. seat' \in [Names -> {"absent", "idle", "cooling", "in_game"}]
  BY <1>3 DEF AfterGame, TypeOK
<1>5. stream' \in [Names -> Conns \cup {NoConn}]
  BY <1>3 DEF TypeOK
<1>6. db' \in [Names -> [Columns -> 0..MaxStat]]
  BY <1>3, CreditType DEF TypeOK
<1>7. gone' \in SUBSET Conns
  BY <1>2, <1>3, ShutType DEF TypeOK
<1>8. server_stats' \in Int
  BY <1>3, PublishType
<1> QED BY <1>1, <1>3, <1>4, <1>5, <1>6, <1>7, <1>8 DEF TypeOK, gmVars

LEMMA PanicType == TypeOK /\ Panic => TypeOK'
<1> SUFFICES ASSUME TypeOK, Panic PROVE TypeOK'
  OBVIOUS
<1>1. gone' \in SUBSET Conns
  BY ShutType DEF Panic, TypeOK
<1>2. server_stats' \in Int
  BY PublishType DEF Panic
<1> QED BY <1>1, <1>2 DEF Panic, TypeOK, gmVars

LEMMA NeedPlayersType == TypeOK /\ HandleNeedPlayers => TypeOK'
<1> SUFFICES ASSUME TypeOK, HandleNeedPlayers PROVE TypeOK'
  OBVIOUS
<1>1. Head(inbox) \in Event /\ Head(inbox).type = "NeedPlayers" /\ Tail(inbox) \in Seq(Event)
  BY TailFacts DEF HandleNeedPlayers, Receiving, TypeOK
<1> DEFINE g == Head(inbox).gm
<1>2. g \in GMs
  BY <1>1, EventFields
<1> PICK alive \in Answers :
      /\ \/ /\ seat' = Pruned(alive, {})
            /\ PostToGM(g, NoPlayersAvailable)
            /\ UNCHANGED concurrent_games
         \/ \E a, b \in alive :
              /\ seat' = Pruned(alive, {a, b})
              /\ PostToGM(g, NewGame(a, b))
              /\ concurrent_games' = concurrent_games + 1
      /\ stream' = [n \in Names |-> IF n \in Pinged \ alive THEN NoConn ELSE stream[n]]
  BY DEF HandleNeedPlayers, Decline, Match
<1>3. alive \subseteq Names
  BY DEF Answers, Pinged
<1>4. /\ seat' \in [Names -> {"absent", "idle", "cooling", "in_game"}]
      /\ concurrent_games' \in Int
  BY DEF Pruned, TypeOK
<1>5. stream' \in [Names -> Conns \cup {NoConn}]
  BY DEF TypeOK
<1>6. gmbox' \in [GMs -> Seq(Reply)]
  <2>1. \A r \in Reply : PostToGM(g, r) => gmbox' \in [GMs -> Seq(Reply)]
    BY <1>2 DEF PostToGM, TypeOK
  <2>2. \E r \in Reply : PostToGM(g, r)
    BY <1>3, ReplyTypes DEF TypeOK
  <2> QED BY <2>1, <2>2
<1>7. gone' \in SUBSET Conns
  BY ShutType DEF HandleNeedPlayers, TypeOK
<1>8. server_stats' \in Int
  BY PublishType DEF HandleNeedPlayers
<1> QED BY <1>1, <1>4, <1>5, <1>6, <1>7, <1>8 DEF HandleNeedPlayers, TypeOK

LEMMA CooldownType ==
  ASSUME TypeOK, NEW n \in Names, CooldownEnds(n)
  PROVE  TypeOK'
BY DEF CooldownEnds, TypeOK, gmVars

\* A reply is taken from the channel of g.
LEMMA TakeType ==
  ASSUME TypeOK, NEW g \in GMs, NEW type, Take(g, type)
  PROVE  /\ gmbox' \in [GMs -> Seq(Reply)]
         /\ Head(gmbox[g]) \in Reply
         /\ Head(gmbox[g]).type = type
BY TailFacts DEF Take, TypeOK

LEMMA EndGameType ==
  ASSUME TypeOK, NEW g \in GMs, NEW status, NEW w, NEW l,
         GameOver(g, status, w, l) \in Event, EndGame(g, status, w, l)
  PROVE  TypeOK'
<1>1. inbox' \in Seq(Event)
  BY PostType DEF EndGame, TypeOK
<1>2. gone' \in SUBSET Conns
  BY ShutType DEF EndGame, TypeOK
<1>3. /\ gm' \in [GMs -> {"unspawned", "ask", "wait", "play", "panicked", "exited"}]
      /\ game' \in [GMs -> Reply]
      /\ \A h \in GMs : gm'[h] = "play" <=> game'[h].type = "NewGame"
  BY ReplyTypes DEF EndGame, TypeOK
<1> QED BY <1>1, <1>2, <1>3 DEF EndGame, TypeOK

\* A game that is being played has two players.
LEMMA PlayingFields ==
  ASSUME TypeOK, NEW g \in GMs, gm[g] = "play"
  PROVE  game[g].a \in Names /\ game[g].b \in Names
<1>1. game[g] \in Reply /\ game[g].type = "NewGame"
  BY DEF TypeOK
<1> QED BY <1>1, ReplyFields

LEMMA GameMasterType ==
  ASSUME TypeOK, NEW g \in GMs, GameMaster(g)
  PROVE  TypeOK'
<1>1. CASE Ask(g)
  <2>1. inbox' \in Seq(Event)
    BY <1>1, EventTypes, PostType DEF Ask, TypeOK
  <2> QED BY <1>1, <2>1 DEF Ask, TypeOK
<1>2. CASE BackOff(g)
  <2>1. gmbox' \in [GMs -> Seq(Reply)]
    BY <1>2, TakeType DEF BackOff
  <2>2. gm[g] = "wait"
    BY <1>2 DEF BackOff, Take
  <2> QED BY <1>2, <2>1, <2>2 DEF BackOff, TypeOK, pmVars
<1>3. CASE BeginGame(g)
  <2>1. /\ gmbox' \in [GMs -> Seq(Reply)]
        /\ Head(gmbox[g]) \in Reply
        /\ Head(gmbox[g]).type = "NewGame"
    BY <1>3, TakeType DEF BeginGame
  <2> QED BY <1>3, <2>1 DEF BeginGame, TypeOK, pmVars
<1>4. CASE Win(g)
  BY <1>4, EndGameType, EventTypes, PlayingFields DEF Win
<1>5. CASE Draw(g)
  BY <1>5, EndGameType, EventTypes, PlayingFields DEF Draw
<1>6. CASE Abandon(g)
  BY <1>6, EndGameType, EventTypes, PlayingFields DEF Abandon
<1>7. CASE PanicInGame(g)
  <2>1. gone' \in SUBSET Conns
    BY <1>7, ShutType DEF PanicInGame, TypeOK
  <2>2. /\ gm' \in [GMs -> {"unspawned", "ask", "wait", "play", "panicked", "exited"}]
        /\ game' \in [GMs -> Reply]
        /\ \A h \in GMs : gm'[h] = "play" <=> game'[h].type = "NewGame"
    BY <1>7, ReplyTypes DEF PanicInGame, TypeOK
  <2> QED BY <1>7, <2>1, <2>2 DEF PanicInGame, TypeOK, pmVars
<1>8. CASE Exit(g)
  BY <1>8 DEF Exit, TypeOK, pmVars
<1> QED BY <1>1, <1>2, <1>3, <1>4, <1>5, <1>6, <1>7, <1>8 DEF GameMaster

LEMMA NextType == TypeOK /\ [Next]_vars => TypeOK'
<1> SUFFICES ASSUME TypeOK, [Next]_vars PROVE TypeOK'
  OBVIOUS
<1>1. CASE \E c \in Conns, n \in Names : Login(c, n)
  BY <1>1, LoginType
<1>2. CASE \E c \in Conns : Disconnect(c)
  BY <1>2, DisconnectType
<1>3. CASE PlayerManager
  BY <1>3, StartupType, NewPlayerType, GameOverType, PanicType, NeedPlayersType
     DEF PlayerManager, PanicOnGameOver, PanicOnAlive
<1>4. CASE \E n \in Names : CooldownEnds(n)
  BY <1>4, CooldownType
<1>5. CASE \E g \in GMs : GameMaster(g)
  BY <1>5, GameMasterType
<1>6. CASE UNCHANGED vars
  BY <1>6 DEF vars, pmVars, gmVars, TypeOK
<1> QED BY <1>1, <1>2, <1>3, <1>4, <1>5, <1>6 DEF Next

\* Every variable keeps its type.
THEOREM TypeCorrect == Spec => []TypeOK
BY InitType, NextType, PTL DEF Spec

-----------------------------------------------------------------------------
(* The conversation of a game master and the player manager. *)

\* Nothing is queued for a player manager that has stopped.
StoppedIsEmpty == pm = "stopped" => inbox = <<>>

ConversationInv ==
  /\ TypeOK
  /\ StoppedIsEmpty
  /\ OneConversation
  /\ ResultBeforeRequest

\* What a posted event adds to the queue.
LEMMA PostAsks ==
  ASSUME TypeOK, NEW e \in Event, Post(e), pm # "stopped", NEW h \in GMs
  PROVE  /\ Len(inbox) + 1 \notin Asks(h) \cup Results(h)
         /\ \A i \in Asks(h) \cup Results(h) : i < Len(inbox) + 1
         /\ Asks(h)' = Asks(h) \cup
              {i \in {Len(inbox) + 1} : e.type = "NeedPlayers" /\ e.gm = h}
         /\ Results(h)' = Results(h) \cup
              {i \in {Len(inbox) + 1} : e.type = "GameOver" /\ e.gm = h}
<1>1. inbox' = Append(inbox, e)
  BY DEF Post
<1>2. /\ DOMAIN inbox = 1..Len(inbox) /\ Len(inbox) \in Nat
      /\ DOMAIN inbox' = 1..(Len(inbox) + 1)
      /\ \A i \in DOMAIN inbox : inbox'[i] = inbox[i]
      /\ inbox'[Len(inbox) + 1] = e
  BY <1>1, AppendFacts DEF TypeOK
<1>3. DOMAIN inbox' = DOMAIN inbox \cup {Len(inbox) + 1}
  BY <1>2
<1> HIDE DEF TypeOK
<1>4. /\ Len(inbox) + 1 \notin Asks(h) \cup Results(h)
      /\ \A i \in Asks(h) \cup Results(h) : i < Len(inbox) + 1
  BY <1>2 DEF Asks, Results
<1>5. Asks(h)' = Asks(h) \cup
        {i \in {Len(inbox) + 1} : e.type = "NeedPlayers" /\ e.gm = h}
  BY <1>2, <1>3 DEF Asks
<1>6. Results(h)' = Results(h) \cup
        {i \in {Len(inbox) + 1} : e.type = "GameOver" /\ e.gm = h}
  BY <1>2, <1>3 DEF Results
<1> QED BY <1>4, <1>5, <1>6

\* What is left when the first event is taken: the others move up.
LEMMA TailAsks ==
  ASSUME TypeOK, inbox # <<>>, inbox' = Tail(inbox), NEW h \in GMs
  PROVE  /\ \A i : i \in Asks(h)' => i \in Nat \ {0} /\ i + 1 \in Asks(h)
         /\ \A i : i \in Results(h)' => i \in Nat \ {0} /\ i + 1 \in Results(h)
         /\ \A i \in Asks(h) : i = 1 \/ i - 1 \in Asks(h)'
         /\ Asks(h) \cup Results(h) \subseteq Nat \ {0}
         /\ 1 \in Asks(h) <=> Head(inbox).type = "NeedPlayers" /\ Head(inbox).gm = h
         /\ 1 \in Results(h) <=> Head(inbox).type = "GameOver" /\ Head(inbox).gm = h
<1>1. /\ DOMAIN inbox = 1..Len(inbox) /\ Len(inbox) \in Nat \ {0}
      /\ DOMAIN inbox' = 1..(Len(inbox) - 1)
      /\ \A i \in DOMAIN inbox' : inbox'[i] = inbox[i + 1]
      /\ Head(inbox) = inbox[1]
  BY TailFacts DEF TypeOK
<1>2. \A i \in DOMAIN inbox' : i \in Nat \ {0} /\ i + 1 \in DOMAIN inbox
  BY <1>1
<1>3. \A i \in DOMAIN inbox : i \in Nat \ {0} /\ (i = 1 \/ i - 1 \in DOMAIN inbox')
  BY <1>1
<1>4. \A i \in DOMAIN inbox : i # 1 => inbox'[i - 1] = inbox[i]
  BY <1>1, <1>3
<1>5. 1 \in DOMAIN inbox
  BY <1>1
<1>6. /\ \A i : i \in Asks(h)' => i \in Nat \ {0} /\ i + 1 \in Asks(h)
      /\ \A i : i \in Results(h)' => i \in Nat \ {0} /\ i + 1 \in Results(h)
  BY <1>1, <1>2 DEF Asks, Results
<1>7. \A i \in Asks(h) : i = 1 \/ i - 1 \in Asks(h)'
  BY <1>3, <1>4 DEF Asks
<1>8. Asks(h) \cup Results(h) \subseteq Nat \ {0}
  BY <1>3 DEF Asks, Results
<1>9. /\ 1 \in Asks(h) <=> Head(inbox).type = "NeedPlayers" /\ Head(inbox).gm = h
      /\ 1 \in Results(h) <=> Head(inbox).type = "GameOver" /\ Head(inbox).gm = h
  BY <1>1, <1>5 DEF Asks, Results
<1> QED BY <1>6, <1>7, <1>8, <1>9

\* A step that leaves the queues and the game masters alone.
LEMMA QuietConversation ==
  ASSUME ConversationInv, TypeOK',
         UNCHANGED <<inbox, gm, gmbox>>, pm' = "stopped" <=> pm = "stopped"
  PROVE  ConversationInv'
<1>1. \A g \in GMs : Asks(g)' = Asks(g) /\ Results(g)' = Results(g)
  BY DEF Asks, Results
<1>2. OneConversation' /\ ResultBeforeRequest'
  BY <1>1 DEF ConversationInv, OneConversation, ResultBeforeRequest
<1> QED BY <1>2 DEF ConversationInv, StoppedIsEmpty

\* The queue is dropped with the player manager.
LEMMA StopConversation ==
  ASSUME ConversationInv, TypeOK', inbox' = <<>>, pm' = "stopped", UNCHANGED <<gm, gmbox>>
  PROVE  ConversationInv'
<1>1. \A g \in GMs : Asks(g)' = {} /\ Results(g)' = {}
  BY DEF Asks, Results
<1>2. OneConversation' /\ ResultBeforeRequest'
  BY <1>1 DEF ConversationInv, OneConversation, ResultBeforeRequest
<1> QED BY <1>2 DEF ConversationInv, StoppedIsEmpty

\* An event that is no request is taken off the queue.
LEMMA TakeConversation ==
  ASSUME ConversationInv, TypeOK', inbox # <<>>, inbox' = Tail(inbox),
         Head(inbox).type # "NeedPlayers", pm # "stopped",
         UNCHANGED <<pm, gm, gmbox>>
  PROVE  ConversationInv'
<1>1. TypeOK
  BY DEF ConversationInv
<1>2. ASSUME NEW h \in GMs
      PROVE  /\ \A i, j \in Asks(h)' : i = j
             /\ Asks(h)' = {} <=> Asks(h) = {}
             /\ \A i, j \in Results(h)' : i = j
             /\ \A i \in Results(h)', j \in Asks(h)' : i < j
             /\ Results(h)' # {} => Results(h) # {}
  <2>1. /\ \A i : i \in Asks(h)' => i \in Nat \ {0} /\ i + 1 \in Asks(h)
        /\ \A i : i \in Results(h)' => i \in Nat \ {0} /\ i + 1 \in Results(h)
        /\ \A i \in Asks(h) : i = 1 \/ i - 1 \in Asks(h)'
        /\ 1 \notin Asks(h)
    BY <1>1, TailAsks
  <2>2. /\ \A i, j \in Asks(h) : i = j
        /\ \A i, j \in Results(h) : i = j
        /\ \A i \in Results(h), j \in Asks(h) : i < j
    BY DEF ConversationInv, OneConversation, ResultBeforeRequest
  <2>3. /\ \A i, j \in Asks(h)' : i = j
        /\ \A i, j \in Results(h)' : i = j
        /\ \A i \in Results(h)', j \in Asks(h)' : i < j
    <3>1. \A i, j \in Nat : i + 1 = j + 1 => i = j
      OBVIOUS
    <3>2. \A i, j \in Nat : i + 1 < j + 1 => i < j
      OBVIOUS
    <3> QED BY <2>1, <2>2, <3>1, <3>2
  <2>4. Asks(h)' = {} <=> Asks(h) = {}
    BY <2>1
  <2>5. Results(h)' # {} => Results(h) # {}
    BY <2>1
  <2> QED BY <2>3, <2>4, <2>5
<1>3. OneConversation' /\ ResultBeforeRequest'
  BY <1>2 DEF ConversationInv, OneConversation, ResultBeforeRequest
<1> QED BY <1>3 DEF ConversationInv, StoppedIsEmpty

LEMMA LoginConversation ==
  ASSUME ConversationInv, NEW c \in Conns, NEW n \in Names, Login(c, n)
  PROVE  ConversationInv'
<1>1. TypeOK /\ TypeOK'
  BY LoginType DEF ConversationInv
<1>2. NewPlayer(n, c) \in Event /\ NewPlayer(n, c).type = "NewPlayer"
  BY EventTypes DEF NewPlayer
<1>3. \A h \in GMs : Asks(h)' = Asks(h) /\ Results(h)' = Results(h)
  BY <1>1, <1>2, PostAsks, ZenonT(30) DEF Login
<1>4. pm # "stopped" /\ UNCHANGED <<pm, gm, gmbox>>
  BY DEF Login, gmVars
<1>5. OneConversation' /\ ResultBeforeRequest'
  BY <1>3, <1>4 DEF ConversationInv, OneConversation, ResultBeforeRequest
<1> QED BY <1>1, <1>4, <1>5 DEF ConversationInv, StoppedIsEmpty

LEMMA StartupConversation ==
  ASSUME ConversationInv, StartupFails \/ (\E g \in GMs : SpawnGM(g)) \/ BeginServing
  PROVE  ConversationInv'
<1>1. TypeOK /\ TypeOK'
  BY StartupType DEF ConversationInv
<1>2. CASE StartupFails
  BY <1>1, <1>2, StopConversation DEF StartupFails, gmVars
<1>3. CASE \E g \in GMs : SpawnGM(g)
  <2> PICK g \in GMs : SpawnGM(g)
    BY <1>3
  <2>1. /\ gm' = [gm EXCEPT ![g] = "ask"] /\ gm[g] = "unspawned"
        /\ UNCHANGED <<pm, inbox, gmbox>>
    BY DEF SpawnGM, pmVars
  <2>2. \A h \in GMs : Asks(h)' = Asks(h) /\ Results(h)' = Results(h)
    BY <2>1 DEF Asks, Results
  <2>3. \A h \in GMs : gm'[h] = IF h = g THEN "ask" ELSE gm[h]
    BY <1>1, <2>1 DEF TypeOK
  <2>4. OneConversation' /\ ResultBeforeRequest'
    BY <2>1, <2>2, <2>3 DEF ConversationInv, OneConversation, ResultBeforeRequest
  <2> QED BY <1>1, <2>1, <2>4 DEF ConversationInv, StoppedIsEmpty
<1>4. CASE BeginServing
  BY <1>1, <1>4, QuietConversation DEF BeginServing, gmVars
<1> QED BY <1>2, <1>3, <1>4

\* The reply to the request at the head of the queue.
LEMMA NeedPlayersConversation == ConversationInv /\ HandleNeedPlayers => ConversationInv'
<1> SUFFICES ASSUME ConversationInv, HandleNeedPlayers PROVE ConversationInv'
  OBVIOUS
<1> DEFINE g == Head(inbox).gm
<1>1. TypeOK /\ TypeOK'
  BY NeedPlayersType DEF ConversationInv
<1>2. /\ inbox # <<>> /\ inbox' = Tail(inbox)
      /\ Head(inbox).type = "NeedPlayers"
      /\ pm = "serving" /\ UNCHANGED <<pm, gm>>
  BY DEF HandleNeedPlayers, Receiving
<1>3. g \in GMs
  BY <1>1, <1>2, TailFacts, EventFields DEF TypeOK
<1>4. \E r \in Reply : gmbox' = [gmbox EXCEPT ![g] = Append(@, r)]
  <2>1. \A a, b \in Names : NewGame(a, b) \in Reply
    BY <1>1, ReplyTypes DEF TypeOK
  <2>2. UNION Answers \subseteq Names
    BY DEF Answers, Pinged
  <2> QED BY <2>1, <2>2, ReplyTypes DEF HandleNeedPlayers, Decline, Match, PostToGM
<1> PICK r \in Reply : gmbox' = [gmbox EXCEPT ![g] = Append(@, r)]
  BY <1>4
<1> HIDE DEF g
<1>5. 1 \in Asks(g) /\ Asks(g) = {1}
  <2>1. 1 \in Asks(g)
    BY <1>1, <1>2, <1>3, TailAsks DEF g
  <2> QED BY <1>3, <2>1 DEF ConversationInv, OneConversation
<1>6. gm[g] = "wait" /\ gmbox[g] = <<>> /\ Results(g) = {}
  <2>1. gm[g] = "wait" /\ gmbox[g] = <<>>
    BY <1>2, <1>3, <1>5 DEF ConversationInv, OneConversation
  <2>2. Results(g) \subseteq Nat \ {0}
    BY <1>1, <1>2, <1>3, TailAsks
  <2>3. \A i \in Results(g) : i < 1
    BY <1>3, <1>5 DEF ConversationInv, ResultBeforeRequest
  <2> QED BY <2>1, <2>2, <2>3
<1>7. ASSUME NEW h \in GMs, h = g
      PROVE  Asks(h)' = {} /\ Results(h)' = {}
  <2>1. /\ \A i : i \in Asks(h)' => i \in Nat \ {0} /\ i + 1 \in Asks(h)
        /\ \A i : i \in Results(h)' => i + 1 \in Results(h)
    BY <1>1, <1>2, TailAsks
  <2>2. Asks(h) = {1} /\ Results(h) = {}
    BY <1>5, <1>6, <1>7
  <2>3. \A i \in Nat \ {0} : i + 1 # 1
    OBVIOUS
  <2> QED BY <2>1, <2>2, <2>3
<1>8. gmbox'[g] # <<>> /\ Len(gmbox'[g]) <= 1
  BY <1>1, <1>3, <1>6 DEF TypeOK
<1>9. ASSUME NEW h \in GMs, h # g
      PROVE  /\ \A i, j \in Asks(h)' : i = j
             /\ Asks(h)' = {} <=> Asks(h) = {}
             /\ \A i, j \in Results(h)' : i = j
             /\ \A i \in Results(h)', j \in Asks(h)' : i < j
             /\ Results(h)' # {} => Results(h) # {}
             /\ gmbox'[h] = gmbox[h]
  <2>1. /\ \A i : i \in Asks(h)' => i \in Nat \ {0} /\ i + 1 \in Asks(h)
        /\ \A i : i \in Results(h)' => i \in Nat \ {0} /\ i + 1 \in Results(h)
        /\ \A i \in Asks(h) : i = 1 \/ i - 1 \in Asks(h)'
        /\ 1 \notin Asks(h)
    BY <1>1, <1>2, <1>9, TailAsks DEF g
  <2>2. /\ \A i, j \in Asks(h) : i = j
        /\ \A i, j \in Results(h) : i = j
        /\ \A i \in Results(h), j \in Asks(h) : i < j
    BY DEF ConversationInv, OneConversation, ResultBeforeRequest
  <2>3. /\ \A i, j \in Asks(h)' : i = j
        /\ \A i, j \in Results(h)' : i = j
        /\ \A i \in Results(h)', j \in Asks(h)' : i < j
    <3>1. \A i, j \in Nat : i + 1 = j + 1 => i = j
      OBVIOUS
    <3>2. \A i, j \in Nat : i + 1 < j + 1 => i < j
      OBVIOUS
    <3> QED BY <2>1, <2>2, <3>1, <3>2
  <2>4. gmbox'[h] = gmbox[h]
    BY <1>1, <1>9 DEF TypeOK
  <2> QED BY <2>1, <2>3, <2>4
<1>10. OneConversation'
  <2>1. ASSUME NEW h \in GMs
        PROVE  /\ \A i, j \in Asks(h)' : i = j
               /\ Len(gmbox'[h]) <= 1
               /\ gm[h] # "wait" => Asks(h)' = {} /\ gmbox'[h] = <<>>
               /\ gm[h] = "wait" => (Asks(h)' = {} <=> gmbox'[h] # <<>>)
    <3>1. CASE h = g
      BY <1>6, <1>7, <1>8, <3>1
    <3>2. CASE h # g
      BY <1>2, <1>9, <3>2 DEF ConversationInv, OneConversation
    <3> QED BY <3>1, <3>2
  <2> QED BY <1>2, <2>1 DEF OneConversation
<1>11. ResultBeforeRequest'
  <2>1. ASSUME NEW h \in GMs
        PROVE  /\ \A i, j \in Results(h)' : i = j
               /\ \A i \in Results(h)', j \in Asks(h)' : i < j
               /\ Results(h)' # {} => gm[h] \in {"ask", "wait"} /\ gmbox'[h] = <<>>
    <3>1. CASE h = g
      BY <1>7, <3>1
    <3>2. CASE h # g
      BY <1>9, <3>2 DEF ConversationInv, ResultBeforeRequest
    <3> QED BY <3>1, <3>2
  <2> QED BY <1>2, <2>1 DEF ResultBeforeRequest
<1> QED BY <1>1, <1>2, <1>10, <1>11 DEF ConversationInv, StoppedIsEmpty

LEMMA PlayerManagerConversation == ConversationInv /\ PlayerManager => ConversationInv'
<1> SUFFICES ASSUME ConversationInv, PlayerManager PROVE ConversationInv'
  OBVIOUS
<1>1. TypeOK
  BY DEF ConversationInv
<1>2. CASE HandleNewPlayer
  BY <1>1, <1>2, NewPlayerType, TakeConversation DEF HandleNewPlayer, Receiving, gmVars
<1>3. CASE HandleGameOver
  BY <1>1, <1>3, GameOverType, TakeConversation DEF HandleGameOver, Receiving, gmVars
<1>4. CASE Panic
  BY <1>1, <1>4, PanicType, StopConversation DEF Panic, gmVars
<1> QED BY <1>2, <1>3, <1>4, StartupConversation, NeedPlayersConversation
        DEF PlayerManager, PanicOnGameOver, PanicOnAlive

\* A game master asks; nothing of its own is in the queue but perhaps a result.
LEMMA AskConversation ==
  ASSUME ConversationInv, NEW g \in GMs, Ask(g)
  PROVE  ConversationInv'
<1>1. TypeOK /\ TypeOK'
  BY GameMasterType DEF ConversationInv, GameMaster
<1>2. /\ gm[g] = "ask" /\ gm' = [gm EXCEPT ![g] = "wait"]
      /\ Post(NeedPlayers(g)) /\ UNCHANGED <<pm, gmbox>>
  BY DEF Ask
<1>3. \A h \in GMs : gm'[h] = IF h = g THEN "wait" ELSE gm[h]
  BY <1>1, <1>2 DEF TypeOK
<1>4. CASE pm = "stopped"
  <2>1. inbox = <<>> /\ inbox' = <<>>
    BY <1>2, <1>4 DEF Post, ConversationInv, StoppedIsEmpty
  <2>2. \A h \in GMs : Asks(h)' = {} /\ Results(h)' = {}
    BY <2>1 DEF Asks, Results
  <2>3. OneConversation' /\ ResultBeforeRequest'
    BY <1>2, <1>3, <1>4, <2>2 DEF ConversationInv, OneConversation, ResultBeforeRequest
  <2> QED BY <1>1, <2>1, <2>3 DEF ConversationInv, StoppedIsEmpty
<1>5. CASE pm # "stopped"
  <2>1. /\ NeedPlayers(g) \in Event /\ NeedPlayers(g).type = "NeedPlayers"
        /\ NeedPlayers(g).gm = g
    BY EventTypes DEF NeedPlayers
  <2>2. \A h \in GMs :
          /\ \A i \in Asks(h) \cup Results(h) : i < Len(inbox) + 1
          /\ Asks(h)' = Asks(h) \cup {i \in {Len(inbox) + 1} : h = g}
          /\ Results(h)' = Results(h)
    BY <1>1, <1>2, <1>5, <2>1, PostAsks
  <2>3. Asks(g) = {} /\ gmbox[g] = <<>>
    BY <1>2 DEF ConversationInv, OneConversation
  <2>4. OneConversation'
    BY <1>2, <1>3, <2>2, <2>3 DEF ConversationInv, OneConversation
  <2>5. ResultBeforeRequest'
    BY <1>2, <1>3, <2>2, <2>3 DEF ConversationInv, ResultBeforeRequest
  <2> QED BY <1>1, <1>2, <1>5, <2>4, <2>5 DEF ConversationInv, StoppedIsEmpty
<1> QED BY <1>4, <1>5

\* A game master takes its reply: it was the only one.
LEMMA TakeReplyConversation ==
  ASSUME ConversationInv, TypeOK', NEW g \in GMs, NEW type, Take(g, type),
         NEW next \in {"ask", "play"}, gm' = [gm EXCEPT ![g] = next],
         UNCHANGED <<pm, inbox>>
  PROVE  ConversationInv'
<1>1. TypeOK
  BY DEF ConversationInv
<1>2. /\ gm[g] = "wait" /\ gmbox[g] # <<>>
      /\ gmbox' = [gmbox EXCEPT ![g] = Tail(gmbox[g])]
  BY DEF Take
<1>3. gmbox[g] \in Seq(Reply) /\ Len(gmbox[g]) <= 1
  BY <1>1 DEF ConversationInv, OneConversation, TypeOK
<1>4. Tail(gmbox[g]) = <<>>
  BY <1>2, <1>3
<1>5. \A h \in GMs : /\ gm'[h] = IF h = g THEN next ELSE gm[h]
                     /\ gmbox'[h] = IF h = g THEN <<>> ELSE gmbox[h]
  BY <1>1, <1>2, <1>4 DEF TypeOK
<1>6. \A h \in GMs : Asks(h)' = Asks(h) /\ Results(h)' = Results(h)
  BY DEF Asks, Results
<1>7. Asks(g) = {} /\ Results(g) = {}
  <2>1. CASE pm = "stopped"
    BY <2>1 DEF ConversationInv, StoppedIsEmpty, Asks, Results
  <2>2. CASE pm # "stopped"
    BY <1>2, <2>2 DEF ConversationInv, OneConversation, ResultBeforeRequest
  <2> QED BY <2>1, <2>2
<1>8. OneConversation'
  <2>1. Len(<<>>) <= 1
    OBVIOUS
  <2> QED BY <1>5, <1>6, <1>7, <2>1 DEF ConversationInv, OneConversation
<1>9. ResultBeforeRequest'
  BY <1>5, <1>6, <1>7 DEF ConversationInv, ResultBeforeRequest
<1> QED BY <1>8, <1>9 DEF ConversationInv, StoppedIsEmpty

\* A game master reports; nothing of its own was in the queue.
LEMMA EndGameConversation ==
  ASSUME ConversationInv, TypeOK', NEW g \in GMs, gm[g] = "play",
         NEW status, NEW w, NEW l, GameOver(g, status, w, l) \in Event,
         EndGame(g, status, w, l)
  PROVE  ConversationInv'
<1> DEFINE e == GameOver(g, status, w, l)
<1>1. TypeOK
  BY DEF ConversationInv
<1>2. /\ gm' = [gm EXCEPT ![g] = "ask"] /\ Post(e) /\ UNCHANGED <<pm, gmbox>>
  BY DEF EndGame
<1>3. \A h \in GMs : gm'[h] = IF h = g THEN "ask" ELSE gm[h]
  BY <1>1, <1>2 DEF TypeOK
<1>4. Asks(g) = {} /\ Results(g) = {} /\ gmbox[g] = <<>>
  BY DEF ConversationInv, OneConversation, ResultBeforeRequest
<1>5. CASE pm = "stopped"
  <2>1. inbox = <<>> /\ inbox' = <<>>
    BY <1>2, <1>5 DEF Post, ConversationInv, StoppedIsEmpty
  <2>2. \A h \in GMs : Asks(h)' = {} /\ Results(h)' = {}
    BY <2>1 DEF Asks, Results
  <2>3. OneConversation' /\ ResultBeforeRequest'
    BY <1>2, <1>3, <1>4, <1>5, <2>2 DEF ConversationInv, OneConversation, ResultBeforeRequest
  <2> QED BY <2>1, <2>3 DEF ConversationInv, StoppedIsEmpty
<1>6. CASE pm # "stopped"
  <2>1. e \in Event /\ e.type = "GameOver" /\ e.gm = g /\ Post(e)
    BY <1>2 DEF GameOver
  <2> HIDE DEF e
  <2>2. \A h \in GMs :
          /\ Asks(h)' = Asks(h)
          /\ Results(h)' = Results(h) \cup {i \in {Len(inbox) + 1} : h = g}
    <3> TAKE h \in GMs
    <3>1. /\ Asks(h)' = Asks(h) \cup
                {i \in {Len(inbox) + 1} : e.type = "NeedPlayers" /\ e.gm = h}
          /\ Results(h)' = Results(h) \cup
                {i \in {Len(inbox) + 1} : e.type = "GameOver" /\ e.gm = h}
      BY <1>1, <1>6, <2>1, PostAsks
    <3>2. Asks(h)' = Asks(h)
      BY <2>1, <3>1
    <3>3. Results(h)' = Results(h) \cup {i \in {Len(inbox) + 1} : h = g}
      BY <2>1, <3>1
    <3> QED BY <3>2, <3>3
  <2>3. OneConversation'
    BY <1>2, <1>3, <1>4, <2>2 DEF ConversationInv, OneConversation
  <2>4. ResultBeforeRequest'
    <3>1. \A h \in GMs : h # g => Results(h)' = Results(h)
      BY <2>2
    <3>2. \A h \in GMs : h = g => Asks(h)' = {} /\ Results(h)' = {Len(inbox) + 1}
      BY <1>4, <2>2
    <3>3. gm'[g] = "ask" /\ gmbox'[g] = <<>>
      BY <1>2, <1>3, <1>4
    <3> QED BY <1>2, <1>3, <2>2, <3>1, <3>2, <3>3 DEF ConversationInv, ResultBeforeRequest
  <2> QED BY <1>2, <1>6, <2>3, <2>4 DEF ConversationInv, StoppedIsEmpty
<1> QED BY <1>5, <1>6

\* A game is lost with its game master, which had nothing in either queue.
LEMMA PanicInGameConversation ==
  ASSUME ConversationInv, NEW g \in GMs, PanicInGame(g)
  PROVE  ConversationInv'
<1>1. TypeOK /\ TypeOK'
  BY GameMasterType DEF ConversationInv, GameMaster
<1>2. /\ gm[g] = "play" /\ gm' = [gm EXCEPT ![g] = "panicked"]
      /\ UNCHANGED <<pm, inbox, gmbox>>
  BY DEF PanicInGame, pmVars
<1>3. \A h \in GMs : gm'[h] = IF h = g THEN "panicked" ELSE gm[h]
  BY <1>1, <1>2 DEF TypeOK
<1>4. \A h \in GMs : Asks(h)' = Asks(h) /\ Results(h)' = Results(h)
  BY <1>2 DEF Asks, Results
<1>5. OneConversation' /\ ResultBeforeRequest'
  BY <1>2, <1>3, <1>4 DEF ConversationInv, OneConversation, ResultBeforeRequest
<1> QED BY <1>1, <1>2, <1>5 DEF ConversationInv, StoppedIsEmpty

LEMMA ExitConversation ==
  ASSUME ConversationInv, NEW g \in GMs, Exit(g)
  PROVE  ConversationInv'
<1>1. TypeOK /\ TypeOK'
  BY GameMasterType DEF ConversationInv, GameMaster
<1>2. /\ gmbox[g] = <<>> /\ pm = "stopped" /\ inbox = <<>>
      /\ gm' = [gm EXCEPT ![g] = "exited"]
      /\ UNCHANGED <<pm, inbox, gmbox>>
  BY DEF Exit, pmVars, ConversationInv, StoppedIsEmpty
<1>3. \A h \in GMs : gm'[h] = IF h = g THEN "exited" ELSE gm[h]
  BY <1>1, <1>2 DEF TypeOK
<1>4. \A h \in GMs : Asks(h)' = {} /\ Results(h)' = {}
  BY <1>2 DEF Asks, Results
<1>5. OneConversation' /\ ResultBeforeRequest'
  BY <1>2, <1>3, <1>4 DEF ConversationInv, OneConversation, ResultBeforeRequest
<1> QED BY <1>1, <1>2, <1>5 DEF ConversationInv, StoppedIsEmpty

LEMMA GameMasterConversation ==
  ASSUME ConversationInv, NEW g \in GMs, GameMaster(g)
  PROVE  ConversationInv'
<1>1. TypeOK /\ TypeOK'
  BY GameMasterType DEF ConversationInv
<1>2. CASE BackOff(g)
  BY <1>1, <1>2, TakeReplyConversation DEF BackOff, pmVars
<1>3. CASE BeginGame(g)
  BY <1>1, <1>3, TakeReplyConversation DEF BeginGame, pmVars
<1>4. CASE Win(g)
  BY <1>1, <1>4, EndGameConversation, EventTypes, PlayingFields DEF Win
<1>5. CASE Draw(g)
  BY <1>1, <1>5, EndGameConversation, EventTypes, PlayingFields DEF Draw
<1>6. CASE Abandon(g)
  BY <1>1, <1>6, EndGameConversation, EventTypes, PlayingFields DEF Abandon
<1> QED BY <1>2, <1>3, <1>4, <1>5, <1>6, AskConversation, PanicInGameConversation,
           ExitConversation DEF GameMaster

LEMMA InitConversation == Init => ConversationInv
<1> SUFFICES ASSUME Init PROVE ConversationInv
  OBVIOUS
<1>1. \A g \in GMs : Asks(g) = {} /\ Results(g) = {}
  BY DEF Init, Asks, Results
<1>2. OneConversation /\ ResultBeforeRequest
  <2>1. Len(<<>>) <= 1
    OBVIOUS
  <2> QED BY <1>1, <2>1 DEF Init, OneConversation, ResultBeforeRequest
<1> QED BY <1>2, InitType DEF Init, ConversationInv, StoppedIsEmpty

LEMMA NextConversation == ConversationInv /\ [Next]_vars => ConversationInv'
<1> SUFFICES ASSUME ConversationInv, [Next]_vars PROVE ConversationInv'
  OBVIOUS
<1>1. TypeOK /\ TypeOK'
  BY NextType DEF ConversationInv
<1>2. CASE \E c \in Conns, n \in Names : Login(c, n)
  BY <1>2, LoginConversation
<1>3. CASE \E c \in Conns : Disconnect(c)
  BY <1>1, <1>3, QuietConversation DEF Disconnect, pmVars, gmVars
<1>4. CASE PlayerManager
  BY <1>4, PlayerManagerConversation
<1>5. CASE \E n \in Names : CooldownEnds(n)
  BY <1>1, <1>5, QuietConversation DEF CooldownEnds, gmVars
<1>6. CASE \E g \in GMs : GameMaster(g)
  BY <1>6, GameMasterConversation
<1>7. CASE UNCHANGED vars
  BY <1>1, <1>7, QuietConversation DEF vars, pmVars, gmVars
<1> QED BY <1>2, <1>3, <1>4, <1>5, <1>6, <1>7 DEF Next

LEMMA ConversationAlways == Spec => []ConversationInv
BY InitConversation, NextConversation, PTL DEF Spec

\* Requests and replies alternate strictly for every game master, whatever the
\* players and the other game masters do, panics of the player manager included.
THEOREM ConversationCorrect == Spec => []OneConversation
<1>1. ConversationInv => OneConversation
  BY DEF ConversationInv
<1> QED BY ConversationAlways, <1>1, PTL

\* A game master never asks past its own unhandled result.
THEOREM ResultsComeFirst == Spec => []ResultBeforeRequest
<1>1. ConversationInv => ResultBeforeRequest
  BY DEF ConversationInv
<1> QED BY ConversationAlways, <1>1, PTL

-----------------------------------------------------------------------------
(* Where the players of a game are. *)

\* What a posted event adds to the players reported.
LEMMA PostReported ==
  ASSUME TypeOK, NEW e \in Event, Post(e), pm # "stopped", NEW h \in GMs
  PROVE  Reported(h)' = Reported(h) \cup
           (IF e.type = "GameOver" /\ e.gm = h THEN {e.winner, e.loser} ELSE {})
<1>1. inbox' = Append(inbox, e)
  BY DEF Post
<1>2. /\ DOMAIN inbox = 1..Len(inbox) /\ Len(inbox) \in Nat
      /\ \A i \in DOMAIN inbox : inbox'[i] = inbox[i]
      /\ inbox'[Len(inbox) + 1] = e
  BY <1>1, AppendFacts DEF TypeOK
<1>3. Results(h)' = Results(h) \cup
        {i \in {Len(inbox) + 1} : e.type = "GameOver" /\ e.gm = h}
  BY PostAsks
<1>4. Results(h) \subseteq DOMAIN inbox
  BY DEF Results
<1>5. CASE e.type = "GameOver" /\ e.gm = h
  <2>1. Results(h)' = Results(h) \cup {Len(inbox) + 1}
    BY <1>3, <1>5
  <2>2. {{inbox'[i].winner, inbox'[i].loser} : i \in Results(h)'} =
          {{inbox[i].winner, inbox[i].loser} : i \in Results(h)} \cup {{e.winner, e.loser}}
    BY <1>2, <1>4, <2>1
  <2> QED BY <1>5, <2>2 DEF Reported
<1>6. CASE ~(e.type = "GameOver" /\ e.gm = h)
  <2>1. Results(h)' = Results(h)
    BY <1>3, <1>6
  <2>2. {{inbox'[i].winner, inbox'[i].loser} : i \in Results(h)'} =
          {{inbox[i].winner, inbox[i].loser} : i \in Results(h)}
    BY <1>2, <1>4, <2>1
  <2> QED BY <1>6, <2>2 DEF Reported
<1> QED BY <1>5, <1>6

\* Taking an event that is no result of h leaves the players h reported alone.
LEMMA TailReported ==
  ASSUME TypeOK, inbox # <<>>, inbox' = Tail(inbox), NEW h \in GMs,
         ~(Head(inbox).type = "GameOver" /\ Head(inbox).gm = h)
  PROVE  Reported(h)' = Reported(h)
<1>1. /\ DOMAIN inbox = 1..Len(inbox) /\ Len(inbox) \in Nat \ {0}
      /\ DOMAIN inbox' = 1..(Len(inbox) - 1)
      /\ \A i \in DOMAIN inbox' : inbox'[i] = inbox[i + 1]
      /\ Head(inbox) = inbox[1]
  BY TailFacts DEF TypeOK
<1>2. \A i \in Results(h)' : i + 1 \in Results(h) /\ inbox'[i] = inbox[i + 1]
  BY <1>1, TailAsks DEF Results
<1>3. \A i \in Results(h) : i - 1 \in Results(h)' /\ inbox'[i - 1] = inbox[i]
  <2> TAKE i \in Results(h)
  <2>1. i \in DOMAIN inbox /\ inbox[i].type = "GameOver" /\ inbox[i].gm = h
    BY DEF Results
  <2>2. i # 1
    BY <1>1, <2>1
  <2>3. i - 1 \in DOMAIN inbox' /\ inbox'[i - 1] = inbox[i]
    BY <1>1, <2>1, <2>2
  <2> QED BY <2>1, <2>3 DEF Results
<1>4. {{inbox'[i].winner, inbox'[i].loser} : i \in Results(h)'} =
        {{inbox[i].winner, inbox[i].loser} : i \in Results(h)}
  BY <1>2, <1>3
<1> QED BY <1>4 DEF Reported

\* Taking the result of h, which is the only one, leaves none.
LEMMA TakeReported ==
  ASSUME ConversationInv, inbox # <<>>, inbox' = Tail(inbox), NEW h \in GMs,
         Head(inbox).type = "GameOver", Head(inbox).gm = h
  PROVE  /\ Reported(h) = {Head(inbox).winner, Head(inbox).loser}
         /\ Reported(h)' = {}
<1>1. TypeOK
  BY DEF ConversationInv
<1>2. 1 \in Results(h) /\ \A i : i \in Results(h)' => i \in Nat \ {0} /\ i + 1 \in Results(h)
  BY <1>1, TailAsks
<1>3. Results(h) = {1}
  BY <1>2 DEF ConversationInv, ResultBeforeRequest
<1>4. Results(h)' = {}
  <2>1. \A i \in Nat \ {0} : i + 1 # 1
    OBVIOUS
  <2> QED BY <1>2, <1>3, <2>1
<1>5. Head(inbox) = inbox[1]
  BY <1>1, TailFacts DEF TypeOK
<1> QED BY <1>3, <1>4, <1>5 DEF Reported

\* A reply with players books them.
LEMMA MatchesBooked ==
  ASSUME NEW h \in GMs, NEW m \in Matches(h)
  PROVE  {m.a, m.b} \ {NoName} \subseteq Booked(h)
<1>1. {m.a, m.b} \subseteq Offered(h) \cup Playing(h)
  BY DEF Matches, Offered, Playing
<1> QED BY <1>1 DEF Booked

\* Only names are ever booked.
LEMMA BookedNames ==
  ASSUME TypeOK, NEW h \in GMs
  PROVE  Booked(h) \subseteq Names
<1>1. \A r \in Reply : r.a \in Names \cup {NoName} /\ r.b \in Names \cup {NoName}
  BY ReplyFields DEF NoPlayersAvailable
<1>2. Offered(h) \cup Playing(h) \subseteq Names \cup {NoName}
  BY <1>1 DEF Offered, Playing, TypeOK
<1>3. Reported(h) \subseteq Names \cup {NoName}
  <2>1. \A i \in Results(h) : inbox[i] \in Event /\ inbox[i].type = "GameOver"
    BY DEF Results, TypeOK
  <2>2. \A i \in Results(h) : {inbox[i].winner, inbox[i].loser} \subseteq Names \cup {NoName}
    BY <2>1, EventFields
  <2> QED BY <2>2 DEF Reported
<1> QED BY <1>2, <1>3 DEF Booked

\* A game master that does not play has nobody in its game.
LEMMA NotPlaying ==
  ASSUME TypeOK, NEW h \in GMs, gm[h] # "play"
  PROVE  game[h] = NoPlayersAvailable /\ Playing(h) = {NoName}
<1>1. game[h] \in Reply /\ game[h].type # "NewGame"
  BY DEF TypeOK
<1>2. game[h] = NoPlayersAvailable
  BY <1>1, ReplyFields
<1> QED BY <1>2 DEF Playing, NoPlayersAvailable

-----------------------------------------------------------------------------
(* The inductive invariant. *)

\* A login under way is the only one of its name, and the name is not registered.
FreshLogins ==
  \A i \in DOMAIN inbox : inbox[i].type = "NewPlayer" =>
    /\ seat[inbox[i].name] = "absent"
    /\ \A j \in DOMAIN inbox :
         inbox[j].type = "NewPlayer" /\ inbox[j].name = inbox[i].name => i = j

BookingInv ==
  /\ ConversationInv
  /\ FreshLogins
  /\ NoDoubleBooking
  /\ RegistryAgrees

\* What RegistryAgrees says of a copy m when the sockets are those of reg.
OnSockets(m, reg) ==
  /\ m.a # NoName => m.sa = reg[m.a]
  /\ m.b # NoName => m.sb = reg[m.b]

LEMMA SocketsAgree ==
  ASSUME BookingInv, pm # "stopped", NEW h \in GMs, NEW m \in Matches(h)
  PROVE  OnSockets(m, stream)
BY DEF BookingInv, RegistryAgrees, OnSockets

\* No copy is without a player but that of a reply without any.
LEMMA NobodyOnSockets ==
  ASSUME NEW reg
  PROVE  OnSockets(NoPlayersAvailable, reg)
BY DEF OnSockets, NoPlayersAvailable

\* Bookings may end, and copies may go; nothing changes for who stays booked.
LEMMA ShrinkBooking ==
  ASSUME BookingInv, pm' # "stopped" => pm # "stopped",
         \A h \in GMs : Booked(h)' \subseteq Booked(h),
         pm' # "stopped" =>
           \A h \in GMs : \A n \in Booked(h)' : seat'[n] = seat[n] /\ stream'[n] = stream[n],
         \A h \in GMs : \A m \in Matches(h)' : m \in Matches(h) \/ m = NoPlayersAvailable
  PROVE  NoDoubleBooking' /\ RegistryAgrees'
<1>1. NoDoubleBooking'
  BY DEF BookingInv, NoDoubleBooking
<1>2. ASSUME pm' # "stopped", NEW h \in GMs, NEW n \in Booked(h)'
      PROVE  seat'[n] = "in_game"
  <2>1. n \in Booked(h) /\ seat'[n] = seat[n]
    BY <1>2
  <2> QED BY <1>2, <2>1 DEF BookingInv, RegistryAgrees
<1>3. ASSUME pm' # "stopped", NEW h \in GMs, NEW m \in Matches(h)'
      PROVE  OnSockets(m, stream')
  <2>1. CASE m = NoPlayersAvailable
    BY <2>1, NobodyOnSockets
  <2>2. CASE m \in Matches(h)
    <3>1. OnSockets(m, stream)
      BY <1>3, <2>2, SocketsAgree
    <3>2. ({m.a, m.b} \ {NoName} \subseteq Booked(h))'
      <4>1. ({m.a, m.b} \subseteq Offered(h) \cup Playing(h))'
        BY <1>3 DEF Matches, Offered, Playing
      <4> QED BY <4>1 DEF Booked
    <3>3. \A n \in {m.a, m.b} \ {NoName} : stream'[n] = stream[n]
      BY <1>3, <3>2
    <3> QED BY <3>1, <3>3 DEF OnSockets
  <2> QED BY <1>3, <2>1, <2>2
<1> QED BY <1>1, <1>2, <1>3 DEF RegistryAgrees, OnSockets

\* A step books two free players, releases those of one game, or does neither;
\* or the player manager stops.
BookingStep ==
  \/ \A h \in GMs : Booked(h)' = Booked(h)
  \/ \E g \in GMs :
       /\ Booked(g)' = {}
       /\ \A h \in GMs \ {g} : Booked(h)' = Booked(h)
  \/ \E g \in GMs :
       /\ Booked(g) = {}
       /\ \E a, b \in Names :
            /\ a # b
            /\ \A h \in GMs : a \notin Booked(h) /\ b \notin Booked(h)
            /\ Booked(g)' = {a, b} \ {NoName}
       /\ \A h \in GMs \ {g} : Booked(h)' = Booked(h)
  \/ StopsServing

LEMMA SameParts ==
  ASSUME NEW h \in GMs, gmbox'[h] = gmbox[h], game'[h] = game[h]
  PROVE  /\ Offered(h)' = Offered(h)
         /\ Playing(h)' = Playing(h)
         /\ Matches(h)' = Matches(h)
BY DEF Offered, Playing, Matches

LEMMA SameBooked ==
  ASSUME UNCHANGED <<inbox, gmbox, game>>, NEW h \in GMs
  PROVE  Booked(h)' = Booked(h) /\ Matches(h)' = Matches(h)
<1>1. Results(h)' = Results(h)
  BY DEF Results
<1>2. Reported(h)' = Reported(h)
  BY <1>1 DEF Reported
<1> QED BY <1>2, SameParts DEF Booked

\* A game master with an unhandled result, or a request to be answered, has
\* nothing else in hand.
LEMMA NothingInHand ==
  ASSUME ConversationInv, NEW h \in GMs, gm[h] # "play", gmbox[h] = <<>>
  PROVE  Booked(h) = Reported(h) \ {NoName}
<1>1. Playing(h) = {NoName}
  BY NotPlaying DEF ConversationInv
<1>2. Offered(h) = {}
  BY DEF Offered
<1> QED BY <1>1, <1>2 DEF Booked

\* Logins move up in the queue, and names that were free stay free.
LEMMA FreshTail ==
  ASSUME TypeOK, FreshLogins, inbox # <<>>, inbox' = Tail(inbox),
         \A n \in Names : seat[n] = "absent" =>
            seat'[n] = "absent" \/ (Head(inbox).type = "NewPlayer" /\ Head(inbox).name = n)
  PROVE  FreshLogins'
<1>1. /\ DOMAIN inbox = 1..Len(inbox) /\ Len(inbox) \in Nat \ {0}
      /\ DOMAIN inbox' = 1..(Len(inbox) - 1)
      /\ \A i \in DOMAIN inbox' : inbox'[i] = inbox[i + 1]
      /\ Head(inbox) = inbox[1]
  BY TailFacts DEF TypeOK
<1>2. 1 \in DOMAIN inbox /\ \A i \in DOMAIN inbox' : i \in Nat /\ i + 1 \in DOMAIN inbox /\ i + 1 # 1
  BY <1>1
<1>3. \A i \in DOMAIN inbox : inbox[i] \in Event
  BY DEF TypeOK
<1>4. ASSUME NEW i \in DOMAIN inbox', inbox'[i].type = "NewPlayer"
      PROVE  seat'[inbox'[i].name] = "absent"
  <2>1. i + 1 \in DOMAIN inbox /\ i + 1 # 1 /\ inbox'[i] = inbox[i + 1]
    BY <1>1, <1>2
  <2>2. inbox'[i].name \in Names
    BY <1>3, <1>4, <2>1, EventFields
  <2>3. seat[inbox'[i].name] = "absent"
    BY <1>4, <2>1 DEF FreshLogins
  <2>4. ~(Head(inbox).type = "NewPlayer" /\ Head(inbox).name = inbox'[i].name)
    BY <1>1, <1>2, <1>4, <2>1 DEF FreshLogins
  <2> QED BY <2>2, <2>3, <2>4
<1>5. ASSUME NEW i \in DOMAIN inbox', NEW j \in DOMAIN inbox',
             inbox'[i].type = "NewPlayer", inbox'[j].type = "NewPlayer",
             inbox'[i].name = inbox'[j].name
      PROVE  i = j
  <2>1. i + 1 = j + 1
    BY <1>1, <1>2, <1>5 DEF FreshLogins
  <2> QED BY <1>2, <2>1
<1> QED BY <1>4, <1>5 DEF FreshLogins

\* A request or a result does not disturb the logins in the queue.
LEMMA FreshPost ==
  ASSUME TypeOK, FreshLogins, NEW e \in Event, Post(e), e.type # "NewPlayer", seat' = seat
  PROVE  FreshLogins'
<1>1. CASE inbox' = inbox
  BY <1>1 DEF FreshLogins
<1>2. CASE inbox' = Append(inbox, e)
  <2>1. /\ DOMAIN inbox = 1..Len(inbox) /\ Len(inbox) \in Nat
        /\ DOMAIN inbox' = 1..(Len(inbox) + 1)
        /\ \A i \in DOMAIN inbox : inbox'[i] = inbox[i]
        /\ inbox'[Len(inbox) + 1] = e
    BY <1>2, AppendFacts DEF TypeOK
  <2>2. \A i \in DOMAIN inbox' : i \in DOMAIN inbox \/ i = Len(inbox) + 1
    BY <2>1
  <2>3. \A i \in DOMAIN inbox' : inbox'[i].type = "NewPlayer" =>
          i \in DOMAIN inbox /\ inbox'[i] = inbox[i]
    BY <2>1, <2>2
  <2> QED BY <2>3 DEF FreshLogins
<1> QED BY <1>1, <1>2 DEF Post

-----------------------------------------------------------------------------
(* The steps. *)

\* Steps that touch neither a queue, a game nor the entry of a booked player.
LEMMA QuietBooking ==
  ASSUME BookingInv, ConversationInv', UNCHANGED <<inbox, gmbox, game>>,
         pm' # "stopped" => pm # "stopped",
         \A n \in Names : seat[n] \in {"absent", "in_game"} => seat'[n] = seat[n],
         UNCHANGED stream
  PROVE  BookingInv' /\ BookingStep
<1>1. TypeOK /\ TypeOK'
  BY DEF BookingInv, ConversationInv
<1>2. \A h \in GMs : Booked(h)' = Booked(h) /\ Matches(h)' = Matches(h)
  BY SameBooked
<1>3. pm # "stopped" =>
        \A h \in GMs : \A n \in Booked(h) : n \in Names /\ seat[n] = "in_game"
  <2>1. \A h \in GMs : Booked(h) \subseteq Names
    BY <1>1, BookedNames
  <2> QED BY <2>1 DEF BookingInv, RegistryAgrees
<1>4. NoDoubleBooking' /\ RegistryAgrees'
  BY <1>1, <1>2, <1>3, ShrinkBooking
<1>5. FreshLogins'
  <2>1. \A i \in DOMAIN inbox : inbox[i].type = "NewPlayer" => inbox[i].name \in Names
    BY <1>1, EventFields DEF TypeOK
  <2> QED BY <2>1 DEF BookingInv, FreshLogins
<1> QED BY <1>2, <1>4, <1>5 DEF BookingInv, BookingStep

LEMMA LoginBooking ==
  ASSUME BookingInv, Relogin = {}, NEW c \in Conns, NEW n \in Names, Login(c, n)
  PROVE  BookingInv' /\ BookingStep
<1>1. TypeOK /\ TypeOK' /\ ConversationInv'
  BY LoginConversation, LoginType DEF BookingInv, ConversationInv
<1> DEFINE e == NewPlayer(n, c)
<1>2. /\ e \in Event /\ e.type = "NewPlayer" /\ e.name = n
      /\ Post(e) /\ pm # "stopped" /\ ~Known(n)
      /\ UNCHANGED <<pm, seat, stream, gmbox, game>>
  BY EventTypes DEF Login, NewPlayer, gmVars
<1> HIDE DEF e
<1>3. \A h \in GMs : Booked(h)' = Booked(h) /\ Matches(h)' = Matches(h)
  <2> TAKE h \in GMs
  <2>1. Reported(h)' = Reported(h)
    BY <1>1, <1>2, PostReported
  <2>2. /\ Offered(h)' = Offered(h)
        /\ Playing(h)' = Playing(h)
        /\ Matches(h)' = Matches(h)
    BY <1>2, SameParts
  <2> QED BY <2>1, <2>2 DEF Booked
<1>4. NoDoubleBooking' /\ RegistryAgrees'
  BY <1>1, <1>2, <1>3, ShrinkBooking
<1>5. FreshLogins'
  <2>1. inbox' = Append(inbox, e)
    BY <1>2 DEF Post
  <2>2. /\ DOMAIN inbox = 1..Len(inbox) /\ Len(inbox) \in Nat
        /\ DOMAIN inbox' = 1..(Len(inbox) + 1)
        /\ \A i \in DOMAIN inbox : inbox'[i] = inbox[i]
        /\ inbox'[Len(inbox) + 1] = e
    BY <1>1, <1>2, <2>1, AppendFacts DEF TypeOK
  <2>3. \A i \in DOMAIN inbox' : i \in DOMAIN inbox \/ i = Len(inbox) + 1
    BY <2>2
  <2>4. seat[n] = "absent"
    BY <1>2 DEF Known
  <2>5. \A i \in DOMAIN inbox : ~(inbox[i].type = "NewPlayer" /\ inbox[i].name = n)
    BY <1>2 DEF Known
  <2>6. \A i \in DOMAIN inbox' : inbox'[i].type = "NewPlayer" => seat'[inbox'[i].name] = "absent"
    BY <1>2, <2>2, <2>3, <2>4 DEF BookingInv, FreshLogins
  <2>7. ASSUME NEW i \in DOMAIN inbox', NEW j \in DOMAIN inbox',
               inbox'[i].type = "NewPlayer", inbox'[j].type = "NewPlayer",
               inbox'[i].name = inbox'[j].name
        PROVE  i = j
    <3>1. CASE i \in DOMAIN inbox /\ j \in DOMAIN inbox
      BY <2>2, <2>7, <3>1 DEF BookingInv, FreshLogins
    <3>2. CASE i \in DOMAIN inbox /\ j = Len(inbox) + 1
      BY <1>2, <2>2, <2>5, <2>7, <3>2
    <3>3. CASE i = Len(inbox) + 1 /\ j \in DOMAIN inbox
      BY <1>2, <2>2, <2>5, <2>7, <3>3
    <3> QED BY <2>3, <3>1, <3>2, <3>3
  <2> QED BY <2>6, <2>7 DEF FreshLogins
<1> QED BY <1>1, <1>3, <1>4, <1>5 DEF BookingInv, BookingStep

\* The player manager stops: of its bookings the results in the queue are gone.
LEMMA StopBooking ==
  ASSUME BookingInv, ConversationInv', pm # "stopped", pm' = "stopped", inbox' = <<>>,
         UNCHANGED <<gm, gmbox, game>>
  PROVE  BookingInv' /\ BookingStep
<1>1. TypeOK /\ ConversationInv
  BY DEF BookingInv, ConversationInv
<1>2. ASSUME NEW h \in GMs
      PROVE  Booked(h)' \in {{}, Booked(h)} /\ Matches(h)' = Matches(h)
  <2>1. Reported(h)' = {}
    BY DEF Reported, Results
  <2>2. /\ Offered(h)' = Offered(h)
        /\ Playing(h)' = Playing(h)
        /\ Matches(h)' = Matches(h)
    BY SameParts
  <2>3. CASE Results(h) = {}
    <3>1. Reported(h) = {}
      BY <2>3 DEF Reported
    <3> QED BY <2>1, <2>2, <3>1 DEF Booked
  <2>4. CASE Results(h) # {}
    <3>1. gm[h] # "play" /\ gmbox[h] = <<>>
      BY <1>1, <2>4 DEF ConversationInv, ResultBeforeRequest
    <3>2. Offered(h) = {} /\ Playing(h) = {NoName}
      BY <1>1, <3>1, NotPlaying DEF Offered
    <3> QED BY <2>1, <2>2, <3>2 DEF Booked
  <2> QED BY <2>3, <2>4
<1>3. NoDoubleBooking' /\ RegistryAgrees'
  BY <1>2, ShrinkBooking
<1>4. FreshLogins'
  BY DEF FreshLogins
<1> QED BY <1>2, <1>3, <1>4 DEF BookingInv, BookingStep, StopsServing

LEMMA NewPlayerBooking == BookingInv /\ HandleNewPlayer => BookingInv' /\ BookingStep
<1> SUFFICES ASSUME BookingInv, HandleNewPlayer PROVE BookingInv' /\ BookingStep
  OBVIOUS
<1> DEFINE e == Head(inbox)
<1>1. TypeOK /\ TypeOK' /\ ConversationInv'
  BY NewPlayerType, PlayerManagerConversation DEF BookingInv, ConversationInv, PlayerManager
<1>2. /\ inbox # <<>> /\ inbox' = Tail(inbox) /\ e.type = "NewPlayer"
      /\ seat' = [seat EXCEPT ![e.name] = "idle"]
      /\ stream' = [stream EXCEPT ![e.name] = e.conn]
      /\ pm = "serving" /\ UNCHANGED <<pm, gmbox, game>>
  BY DEF HandleNewPlayer, Receiving, gmVars
<1>3. e = inbox[1] /\ 1 \in DOMAIN inbox /\ e \in Event
  BY <1>1, <1>2, TailFacts DEF TypeOK
<1>4. e.name \in Names /\ seat[e.name] = "absent"
  BY <1>2, <1>3, EventFields DEF BookingInv, FreshLogins
<1>5. \A h \in GMs : Booked(h)' = Booked(h) /\ Matches(h)' = Matches(h)
  <2> TAKE h \in GMs
  <2>1. Reported(h)' = Reported(h)
    BY <1>1, <1>2, TailReported
  <2> QED BY <1>2, <2>1, SameParts DEF Booked
<1>6. \A n \in Names : n # e.name => seat'[n] = seat[n] /\ stream'[n] = stream[n]
  BY <1>1, <1>2 DEF TypeOK
<1> HIDE DEF e
<1>7. \A h \in GMs : \A n \in Booked(h) : n \in Names /\ n # e.name
  <2>1. \A h \in GMs : Booked(h) \subseteq Names
    BY <1>1, BookedNames
  <2> QED BY <1>2, <1>4, <2>1 DEF BookingInv, RegistryAgrees
<1>8. NoDoubleBooking' /\ RegistryAgrees'
  BY <1>2, <1>5, <1>6, <1>7, ShrinkBooking
<1>9. FreshLogins'
  BY <1>1, <1>2, <1>6, FreshTail DEF BookingInv, e
<1> QED BY <1>1, <1>5, <1>8, <1>9 DEF BookingInv, BookingStep

\* The game of a result at the head of the queue books the players it names.
LEMMA ResultBooked ==
  ASSUME BookingInv, Receiving("GameOver")
  PROVE  /\ Head(inbox) \in Event /\ Head(inbox).gm \in GMs
         /\ Booked(Head(inbox).gm) = {Head(inbox).winner, Head(inbox).loser} \ {NoName}
         /\ gm[Head(inbox).gm] # "play" /\ gmbox[Head(inbox).gm] = <<>>
<1> DEFINE e == Head(inbox)
<1>1. TypeOK /\ ConversationInv
  BY DEF BookingInv, ConversationInv
<1>2. inbox # <<>> /\ e.type = "GameOver" /\ e \in Event
  BY <1>1, TailFacts DEF Receiving, TypeOK
<1>3. e.gm \in GMs
  BY <1>2, EventFields
<1> HIDE DEF e
<1>4. ASSUME NEW h \in GMs, h = e.gm
      PROVE  /\ Booked(h) = {e.winner, e.loser} \ {NoName}
             /\ gm[h] # "play" /\ gmbox[h] = <<>>
  <2>1. 1 \in Results(h)
    BY <1>1, <1>2, <1>4, TailFacts DEF TypeOK, Results, e
  <2>2. gm[h] # "play" /\ gmbox[h] = <<>>
    BY <1>1, <2>1 DEF ConversationInv, ResultBeforeRequest
  <2>3. Results(h) = {1}
    BY <1>1, <2>1 DEF ConversationInv, ResultBeforeRequest
  <2>4. inbox[1] = e
    BY <1>1, <1>2, TailFacts DEF TypeOK, e
  <2>5. Reported(h) = {e.winner, e.loser}
    BY <2>3, <2>4 DEF Reported
  <2> QED BY <1>1, <2>2, <2>5, NothingInHand
<1> QED BY <1>2, <1>3, <1>4 DEF e

\* The loser of an abandoned game is still registered.
LEMMA NoMissingLoser == BookingInv /\ PanicOnGameOver => Head(inbox).loser = NoName
<1> SUFFICES ASSUME BookingInv, PanicOnGameOver, Head(inbox).loser # NoName PROVE FALSE
  OBVIOUS
<1> DEFINE e == Head(inbox)
<1>1. /\ Receiving("GameOver") /\ pm = "serving" /\ seat[e.loser] = "absent"
  BY DEF PanicOnGameOver, Receiving, LoserIsMissing
<1>2. /\ e.gm \in GMs /\ e.loser # NoName
      /\ Booked(e.gm) = {e.winner, e.loser} \ {NoName}
  BY <1>1, ResultBooked
<1> HIDE DEF e
<1>3. e.loser \in Booked(e.gm)
  BY <1>2
<1>4. seat[e.loser] = "in_game"
  BY <1>1, <1>2, <1>3 DEF BookingInv, RegistryAgrees
<1> QED BY <1>1, <1>4

LEMMA GameOverBooking == BookingInv /\ HandleGameOver => BookingInv' /\ BookingStep
<1> SUFFICES ASSUME BookingInv, HandleGameOver PROVE BookingInv' /\ BookingStep
  OBVIOUS
<1> DEFINE e == Head(inbox)
<1>1. TypeOK /\ TypeOK' /\ ConversationInv /\ ConversationInv'
  BY GameOverType, PlayerManagerConversation DEF BookingInv, ConversationInv, PlayerManager
<1>2. /\ inbox # <<>> /\ inbox' = Tail(inbox) /\ e.type = "GameOver"
      /\ seat' = AfterGame(e)
      /\ stream' = [n \in Names |-> IF seat'[n] = "absent" THEN NoConn ELSE stream[n]]
      /\ UNCHANGED <<gm, gmbox, game>>
      /\ Receiving("GameOver") /\ pm = "serving"
  BY DEF HandleGameOver, Receiving, gmVars
<1> PICK g \in GMs : g = e.gm
  BY <1>2, ResultBooked
<1>3. /\ e \in Event /\ e.gm = g
      /\ Booked(g) = {e.winner, e.loser} \ {NoName}
      /\ gm[g] # "play" /\ gmbox[g] = <<>>
  BY <1>2, ResultBooked
<1> HIDE DEF e
<1>4. ASSUME NEW h \in GMs, h = g
      PROVE  Booked(h)' = {} /\ Matches(h)' = Matches(h)
  <2>1. Reported(h)' = {}
    BY <1>1, <1>2, <1>3, <1>4, TakeReported DEF e
  <2>2. /\ Offered(h)' = Offered(h) /\ Playing(h)' = Playing(h) /\ Matches(h)' = Matches(h)
    BY <1>2, SameParts
  <2>3. Offered(h) = {}
    BY <1>3, <1>4 DEF Offered
  <2>4. Playing(h) = {NoName}
    BY <1>1, <1>3, <1>4, NotPlaying
  <2> QED BY <2>1, <2>2, <2>3, <2>4 DEF Booked
<1>5. ASSUME NEW h \in GMs, h # g
      PROVE  Booked(h)' = Booked(h) /\ Matches(h)' = Matches(h)
  <2>1. Reported(h)' = Reported(h)
    BY <1>1, <1>2, <1>3, <1>5, TailReported DEF e
  <2> QED BY <1>2, <2>1, SameParts DEF Booked
<1>6. \A h \in GMs : Booked(h) \subseteq Names
  BY <1>1, BookedNames
<1>7. ASSUME NEW h \in GMs, h # g, NEW n \in Booked(h)
      PROVE  seat'[n] = seat[n] /\ stream'[n] = stream[n]
  <2>1. n \in Names /\ seat[n] = "in_game"
    BY <1>2, <1>6, <1>7 DEF BookingInv, RegistryAgrees
  <2>4. n # NoName
    BY <1>7 DEF Booked
  <2>2. n \notin {e.winner, e.loser}
    BY <1>3, <1>7, <2>4 DEF BookingInv, NoDoubleBooking
  <2>3. seat'[n] = seat[n]
    BY <1>2, <2>1, <2>2 DEF AfterGame, Players
  <2> QED BY <1>2, <2>1, <2>3
<1>8. NoDoubleBooking' /\ RegistryAgrees'
  <2>1. \A h \in GMs : /\ Booked(h)' \subseteq Booked(h)
                       /\ \A n \in Booked(h)' : seat'[n] = seat[n] /\ stream'[n] = stream[n]
                       /\ Matches(h)' = Matches(h)
    BY <1>4, <1>5, <1>7
  <2> QED BY <1>2, <2>1, ShrinkBooking
<1>9. FreshLogins'
  <2>1. \A n \in Names : seat[n] = "absent" => seat'[n] = "absent"
    BY <1>2 DEF AfterGame
  <2> QED BY <1>1, <1>2, <2>1, FreshTail DEF BookingInv
<1>10. BookingStep
  <2>1. Booked(g)' = {}
    BY <1>3, <1>4
  <2> QED BY <1>3, <1>5, <2>1 DEF BookingStep
<1> QED BY <1>1, <1>8, <1>9, <1>10 DEF BookingInv

\* Only idle players are handed out or removed; a game master that asks has
\* nobody booked.
LEMMA NeedPlayersBooking == BookingInv /\ HandleNeedPlayers => BookingInv' /\ BookingStep
<1> SUFFICES ASSUME BookingInv, HandleNeedPlayers PROVE BookingInv' /\ BookingStep
  OBVIOUS
<1>1. TypeOK /\ TypeOK' /\ ConversationInv /\ ConversationInv'
  BY NeedPlayersType, PlayerManagerConversation DEF BookingInv, ConversationInv, PlayerManager
<1>2. /\ inbox # <<>> /\ inbox' = Tail(inbox)
      /\ Head(inbox).type = "NeedPlayers"
      /\ pm = "serving" /\ UNCHANGED <<pm, gm, game>>
  BY DEF HandleNeedPlayers, Receiving
<1> PICK g \in GMs : g = Head(inbox).gm
  BY <1>1, <1>2, TailFacts, EventFields DEF TypeOK
<1> PICK alive \in Answers :
      /\ \/ /\ seat' = Pruned(alive, {})
            /\ PostToGM(g, NoPlayersAvailable)
         \/ \E a, b \in alive :
              /\ a # b
              /\ seat' = Pruned(alive, {a, b})
              /\ PostToGM(g, NewGame(a, b))
      /\ stream' = [n \in Names |-> IF n \in Pinged \ alive THEN NoConn ELSE stream[n]]
  BY DEF HandleNeedPlayers, Decline, Match
<1>4. alive \subseteq Pinged /\ \A n \in Pinged : n \in Names /\ seat[n] = "idle"
  BY DEF Answers, Pinged
<1>5. \A h \in GMs : Reported(h)' = Reported(h)
  BY <1>1, <1>2, TailReported
<1>6. \A h \in GMs : h # g => Booked(h)' = Booked(h) /\ Matches(h)' = Matches(h)
  <2> TAKE h \in GMs
  <2> HAVE h # g
  <2>1. gmbox'[h] = gmbox[h]
    BY <1>1 DEF PostToGM, TypeOK
  <2> QED BY <1>2, <1>5, <2>1, SameParts DEF Booked
<1>7. ASSUME NEW h \in GMs, h = g
      PROVE  Booked(h) = {} /\ gmbox[h] = <<>> /\ Offered(h) = {} /\ Reported(h) \subseteq {NoName}
             /\ game[h] = NoPlayersAvailable /\ Playing(h) = {NoName}
  <2>1. /\ \A i \in Results(h) : i \in Nat \ {0}
        /\ 1 \in Asks(h)
    BY <1>1, <1>2, <1>7, TailAsks
  <2>2. gm[h] = "wait" /\ gmbox[h] = <<>>
    BY <1>1, <1>2, <2>1 DEF ConversationInv, OneConversation
  <2>3. Results(h) = {}
    <3>1. \A i \in Results(h) : i < 1
      BY <1>1, <2>1 DEF ConversationInv, ResultBeforeRequest
    <3> QED BY <2>1, <3>1
  <2>4. Reported(h) = {}
    BY <2>3 DEF Reported
  <2>5. Booked(h) = {}
    BY <1>1, <2>2, <2>4, NothingInHand
  <2>6. Offered(h) = {}
    BY <2>2 DEF Offered
  <2>7. game[h] = NoPlayersAvailable /\ Playing(h) = {NoName}
    BY <1>1, <2>2, NotPlaying
  <2> QED BY <2>2, <2>4, <2>5, <2>6, <2>7
<1>8. ASSUME NEW h \in GMs, h = g, NEW r \in Reply, PostToGM(g, r)
      PROVE  /\ Booked(h)' = {r.a, r.b} \ {NoName}
             /\ \A m \in Matches(h)' : m = NoPlayersAvailable \/ m = r
  <2>1. gmbox'[h] = <<r>>
    <3>1. gmbox'[h] = Append(gmbox[h], r)
      BY <1>1, <1>8 DEF PostToGM, TypeOK
    <3>2. Append(<<>>, r) = <<r>>
      OBVIOUS
    <3> QED BY <1>7, <1>8, <3>1, <3>2
  <2>2. Offered(h)' = {r.a, r.b}
    BY <2>1 DEF Offered
  <2>3. Playing(h)' = {NoName} /\ game'[h] = NoPlayersAvailable
    BY <1>2, <1>7, <1>8 DEF Playing
  <2>4. Booked(h)' = {r.a, r.b} \ {NoName}
    BY <1>5, <1>7, <1>8, <2>2, <2>3 DEF Booked
  <2>5. Matches(h)' = {NoPlayersAvailable, r}
    BY <2>1, <2>3 DEF Matches
  <2> QED BY <2>4, <2>5
<1>9. \A h \in GMs : \A n \in Booked(h) : n \in Names /\ n \notin Pinged /\ seat[n] = "in_game"
  <2>1. \A h \in GMs : Booked(h) \subseteq Names
    BY <1>1, BookedNames
  <2> QED BY <1>2, <1>4, <2>1 DEF BookingInv, RegistryAgrees
<1>10. /\ \A n \in Names : n \notin Pinged => seat'[n] = seat[n] /\ stream'[n] = stream[n]
       /\ \A n \in Names : seat[n] = "absent" => seat'[n] = "absent"
  BY <1>4 DEF Pruned
<1>11. FreshLogins'
  BY <1>1, <1>2, <1>10, FreshTail DEF BookingInv
<1>12. CASE PostToGM(g, NoPlayersAvailable)
  <2>1. \A h \in GMs : h = g =>
          Booked(h)' = {} /\ \A m \in Matches(h)' : m = NoPlayersAvailable
    BY <1>8, <1>12, ReplyTypes DEF NoPlayersAvailable
  <2>2. \A h \in GMs :
          /\ Booked(h)' = Booked(h)
          /\ \A m \in Matches(h)' : m \in Matches(h) \/ m = NoPlayersAvailable
    BY <1>6, <1>7, <2>1
  <2>3. NoDoubleBooking' /\ RegistryAgrees'
    BY <1>2, <1>9, <1>10, <2>2, ShrinkBooking
  <2> QED BY <1>1, <1>11, <2>2, <2>3 DEF BookingInv, BookingStep
<1>13. ASSUME NEW a \in alive, NEW b \in alive, a # b,
              seat' = Pruned(alive, {a, b}), PostToGM(g, NewGame(a, b))
       PROVE  BookingInv' /\ BookingStep
  <2> DEFINE r == NewGame(a, b)
  <2>1. a \in Names /\ b \in Names
    BY <1>4
  <2>2. r \in Reply /\ r.a = a /\ r.b = b /\ r.sa = stream[a] /\ r.sb = stream[b]
    BY <1>1, <2>1, ReplyTypes DEF NewGame, TypeOK
  <2> HIDE DEF r
  <2>3. \A h \in GMs : h = g =>
          /\ Booked(h)' = {a, b} \ {NoName}
          /\ \A m \in Matches(h)' : m = NoPlayersAvailable \/ m = r
    BY <1>8, <1>13, <2>2 DEF r
  <2>4. \A h \in GMs : a \notin Booked(h) /\ b \notin Booked(h)
    BY <1>4, <1>9
  <2>5. \A n \in {a, b} : seat'[n] = "in_game" /\ stream'[n] = stream[n]
    BY <1>4, <1>13, <2>1 DEF Pruned
  <2>6. NoDoubleBooking'
    BY <1>6, <2>3, <2>4 DEF BookingInv, NoDoubleBooking
  <2>7. RegistryAgrees'
    <3>1. ASSUME NEW h \in GMs, h = g
          PROVE  /\ \A n \in Booked(h)' : seat'[n] = "in_game"
                 /\ \A m \in Matches(h)' : OnSockets(m, stream')
      <4>1. OnSockets(r, stream')
        BY <2>2, <2>5 DEF OnSockets
      <4> QED BY <2>3, <2>5, <3>1, <4>1, NobodyOnSockets
    <3>2. ASSUME NEW h \in GMs, h # g
          PROVE  /\ \A n \in Booked(h)' : seat'[n] = "in_game"
                 /\ \A m \in Matches(h)' : OnSockets(m, stream')
      <4>1. \A n \in Booked(h)' : n \in Booked(h)
        BY <1>6, <3>2
      <4>2. ASSUME NEW m \in Matches(h)
            PROVE  OnSockets(m, stream')
        <5>1. OnSockets(m, stream) /\ {m.a, m.b} \ {NoName} \subseteq Booked(h)
          BY <1>2, <4>2, SocketsAgree, MatchesBooked
        <5>2. \A n \in {m.a, m.b} \ {NoName} : stream'[n] = stream[n]
          BY <1>9, <1>10, <5>1
        <5> QED BY <5>1, <5>2 DEF OnSockets
      <4> QED BY <1>6, <1>9, <1>10, <3>2, <4>1, <4>2
    <3> QED BY <3>1, <3>2 DEF RegistryAgrees, OnSockets
  <2>8. BookingStep
    <3>1. Booked(g) = {} /\ Booked(g)' = {a, b} \ {NoName}
      BY <1>7, <2>3
    <3> QED BY <1>6, <1>13, <2>1, <2>4, <3>1 DEF BookingStep
  <2> QED BY <1>1, <1>11, <2>6, <2>7, <2>8 DEF BookingInv
<1> QED BY <1>12, <1>13

LEMMA AskBooking ==
  ASSUME BookingInv, NEW g \in GMs, Ask(g)
  PROVE  BookingInv' /\ BookingStep
<1> DEFINE e == NeedPlayers(g)
<1>1. TypeOK /\ TypeOK' /\ ConversationInv /\ ConversationInv'
  BY GameMasterType, GameMasterConversation DEF BookingInv, ConversationInv, GameMaster
<1>2. /\ e \in Event /\ e.type = "NeedPlayers" /\ Post(e)
      /\ UNCHANGED <<pm, seat, stream, gmbox, game>>
  BY EventTypes DEF Ask, NeedPlayers
<1> HIDE DEF e
<1>3. \A h \in GMs : Reported(h)' = Reported(h)
  <2>1. CASE pm = "stopped"
    BY <1>2, <2>1 DEF Post, Reported, Results
  <2>2. CASE pm # "stopped"
    BY <1>1, <1>2, <2>2, PostReported
  <2> QED BY <2>1, <2>2
<1>4. \A h \in GMs : Booked(h)' = Booked(h) /\ Matches(h)' = Matches(h)
  BY <1>2, <1>3, SameParts DEF Booked
<1>5. NoDoubleBooking' /\ RegistryAgrees'
  BY <1>1, <1>2, <1>4, ShrinkBooking
<1>6. FreshLogins'
  BY <1>1, <1>2, FreshPost DEF BookingInv
<1> QED BY <1>1, <1>4, <1>5, <1>6 DEF BookingInv, BookingStep

\* Taking the only reply moves its players into the game, if there are any.
LEMMA TakeReplyBooking ==
  ASSUME BookingInv, NEW g \in GMs, BackOff(g) \/ BeginGame(g)
  PROVE  BookingInv' /\ BookingStep
<1>1. TypeOK /\ TypeOK' /\ ConversationInv /\ ConversationInv'
  BY GameMasterType, GameMasterConversation DEF BookingInv, ConversationInv, GameMaster
<1>2. /\ gm[g] = "wait" /\ gmbox[g] # <<>>
      /\ gmbox' = [gmbox EXCEPT ![g] = Tail(gmbox[g])]
      /\ UNCHANGED <<pm, inbox, seat, stream>>
      /\ \/ Head(gmbox[g]).type = "NoPlayersAvailable" /\ game' = game
         \/ game' = [game EXCEPT ![g] = Head(gmbox[g])]
  BY DEF BackOff, BeginGame, Take, pmVars
<1>3. gmbox[g] = <<Head(gmbox[g])>> /\ Tail(gmbox[g]) = <<>>
  <2>1. gmbox[g] \in Seq(Reply) /\ Len(gmbox[g]) <= 1
    BY <1>1 DEF TypeOK, ConversationInv, OneConversation
  <2> QED BY <1>2, <2>1
<1> DEFINE m == Head(gmbox[g])
<1>4. m \in Reply
  BY <1>1, <1>2, TailFacts DEF TypeOK
<1>5. gmbox[g] = <<m>> /\ gmbox'[g] = <<>>
  BY <1>1, <1>2, <1>3 DEF TypeOK
<1>6. game[g] = NoPlayersAvailable /\ (game'[g] = m \/ (m = NoPlayersAvailable /\ game'[g] = m))
  <2>1. game[g] = NoPlayersAvailable
    BY <1>1, <1>2, NotPlaying
  <2> QED BY <1>1, <1>2, <1>4, <2>1, ReplyFields DEF TypeOK
<1> HIDE DEF m
<1>7. \A h \in GMs : Reported(h)' = Reported(h)
  BY <1>2 DEF Reported, Results
<1>8. ASSUME NEW h \in GMs
      PROVE  Booked(h)' = Booked(h) /\ Matches(h)' \subseteq Matches(h)
  <2>1. CASE h # g
    <3>1. gmbox'[h] = gmbox[h] /\ game'[h] = game[h]
      BY <1>1, <1>2, <2>1 DEF TypeOK
    <3> QED BY <1>7, <3>1, SameParts DEF Booked
  <2>2. CASE h = g
    <3>1. Offered(h) = {m.a, m.b} /\ Offered(h)' = {}
      BY <1>5, <2>2 DEF Offered
    <3>2. Playing(h) = {NoName} /\ Playing(h)' = {m.a, m.b}
      BY <1>6, <2>2 DEF Playing, NoPlayersAvailable
    <3>3. Matches(h)' = {m} /\ m \in Matches(h)
      BY <1>5, <1>6, <2>2 DEF Matches
    <3> QED BY <1>7, <3>1, <3>2, <3>3 DEF Booked
  <2> QED BY <2>1, <2>2
<1>9. NoDoubleBooking' /\ RegistryAgrees'
  BY <1>1, <1>2, <1>8, ShrinkBooking
<1>10. FreshLogins'
  BY <1>2 DEF BookingInv, FreshLogins
<1> QED BY <1>1, <1>8, <1>9, <1>10 DEF BookingInv, BookingStep

\* A result keeps both players of the game booked, or is a release.
LEMMA EndGameBooking ==
  ASSUME BookingInv, ConversationInv', NEW g \in GMs, gm[g] = "play",
         NEW status, NEW w, NEW l, GameOver(g, status, w, l) \in Event,
         {w, l} = {game[g].a, game[g].b} \/ {w, l} = {NoName},
         EndGame(g, status, w, l)
  PROVE  BookingInv' /\ BookingStep
<1> DEFINE e == GameOver(g, status, w, l)
<1>1. TypeOK /\ TypeOK' /\ ConversationInv
  BY DEF BookingInv, ConversationInv
<1>2. /\ e \in Event /\ e.type = "GameOver" /\ e.gm = g /\ e.winner = w /\ e.loser = l
      /\ Post(e) /\ game' = [game EXCEPT ![g] = NoPlayersAvailable]
      /\ UNCHANGED <<pm, seat, stream, gmbox>>
  BY DEF EndGame, GameOver
<1> HIDE DEF e
<1>3. \A h \in GMs : game'[h] = IF h = g THEN NoPlayersAvailable ELSE game[h]
  BY <1>1, <1>2 DEF TypeOK
<1>4. gmbox[g] = <<>> /\ Results(g) = {}
  BY <1>1 DEF ConversationInv, OneConversation, ResultBeforeRequest
<1>5. ASSUME NEW h \in GMs, h # g
      PROVE  Booked(h)' = Booked(h) /\ Matches(h)' = Matches(h)
  <2>1. Reported(h)' = Reported(h)
    <3>1. CASE pm = "stopped"
      BY <1>2, <3>1 DEF Post, Reported, Results
    <3>2. CASE pm # "stopped"
      <4>1. Reported(h)' = Reported(h) \cup
              (IF e.type = "GameOver" /\ e.gm = h THEN {e.winner, e.loser} ELSE {})
        BY <1>1, <1>2, <3>2, PostReported
      <4>2. e.gm # h
        BY <1>2, <1>5
      <4> QED BY <4>1, <4>2
    <3> QED BY <3>1, <3>2
  <2> QED BY <1>2, <1>3, <1>5, <2>1, SameParts DEF Booked
<1>6. ASSUME NEW h \in GMs, h = g
      PROVE  /\ Booked(h)' = Booked(h) \/ Booked(h)' = {}
             /\ \A m \in Matches(h)' : m = NoPlayersAvailable
  <2>1. Reported(h) = {} /\ Offered(h) = {} /\ Offered(h)' = {}
    BY <1>2, <1>4, <1>6 DEF Reported, Offered
  <2>2. Playing(h) = {game[g].a, game[g].b} /\ Playing(h)' = {NoName}
    BY <1>3, <1>6 DEF Playing, NoPlayersAvailable
  <2>3. Reported(h)' = {w, l} \/ Reported(h)' = {}
    <3>1. CASE pm = "stopped"
      BY <1>2, <2>1, <3>1 DEF Post, Reported, Results
    <3>2. CASE pm # "stopped"
      BY <1>1, <1>2, <1>6, <2>1, <3>2, PostReported
    <3> QED BY <3>1, <3>2
  <2>4. Booked(h)' = Booked(h) \/ Booked(h)' = {}
    BY <2>1, <2>2, <2>3 DEF Booked
  <2>5. Matches(h)' = {NoPlayersAvailable}
    BY <1>2, <1>3, <1>4, <1>6 DEF Matches
  <2> QED BY <2>4, <2>5
<1>7. NoDoubleBooking' /\ RegistryAgrees'
  <2>1. \A h \in GMs : /\ Booked(h)' \subseteq Booked(h)
                       /\ \A m \in Matches(h)' : m \in Matches(h) \/ m = NoPlayersAvailable
    BY <1>5, <1>6
  <2> QED BY <1>1, <1>2, <2>1, ShrinkBooking
<1>8. FreshLogins'
  BY <1>1, <1>2, FreshPost DEF BookingInv
<1>9. BookingStep
  <2>1. Booked(g)' = Booked(g) \/ Booked(g)' = {}
    BY <1>6
  <2>2. CASE Booked(g)' = Booked(g)
    <3>1. \A h \in GMs : Booked(h)' = Booked(h)
      BY <1>5, <2>2
    <3> QED BY <3>1 DEF BookingStep
  <2>3. CASE Booked(g)' = {}
    BY <1>5, <2>3 DEF BookingStep
  <2> QED BY <2>1, <2>2, <2>3
<1> QED BY <1>1, <1>7, <1>8, <1>9 DEF BookingInv

\* A game that is lost with its game master is released.
LEMMA PanicInGameBooking ==
  ASSUME BookingInv, NEW g \in GMs, PanicInGame(g)
  PROVE  BookingInv' /\ BookingStep
<1>1. TypeOK /\ ConversationInv /\ ConversationInv'
  BY GameMasterConversation DEF BookingInv, ConversationInv, GameMaster
<1>2. /\ gm[g] = "play" /\ game' = [game EXCEPT ![g] = NoPlayersAvailable]
      /\ UNCHANGED <<pm, inbox, seat, stream, gmbox>>
  BY DEF PanicInGame, pmVars
<1>3. \A h \in GMs : game'[h] = IF h = g THEN NoPlayersAvailable ELSE game[h]
  BY <1>1, <1>2 DEF TypeOK
<1>4. gmbox[g] = <<>> /\ Results(g) = {}
  BY <1>1, <1>2 DEF ConversationInv, OneConversation, ResultBeforeRequest
<1>5. \A h \in GMs : Reported(h)' = Reported(h)
  BY <1>2 DEF Reported, Results
<1>6. ASSUME NEW h \in GMs, h # g
      PROVE  Booked(h)' = Booked(h) /\ Matches(h)' = Matches(h)
  BY <1>2, <1>3, <1>5, <1>6, SameParts DEF Booked
<1>7. ASSUME NEW h \in GMs, h = g
      PROVE  Booked(h)' = {} /\ \A m \in Matches(h)' : m = NoPlayersAvailable
  <2>1. Reported(h) = {} /\ Offered(h)' = {}
    BY <1>2, <1>4, <1>7 DEF Reported, Offered
  <2>2. Playing(h)' = {NoName}
    BY <1>3, <1>7 DEF Playing, NoPlayersAvailable
  <2>3. Matches(h)' = {NoPlayersAvailable}
    BY <1>2, <1>3, <1>4, <1>7 DEF Matches
  <2>4. Booked(h)' = {}
    BY <1>5, <2>1, <2>2 DEF Booked
  <2> QED BY <2>3, <2>4
<1>8. NoDoubleBooking' /\ RegistryAgrees'
  <2>1. \A h \in GMs : /\ Booked(h)' \subseteq Booked(h)
                       /\ \A m \in Matches(h)' : m \in Matches(h) \/ m = NoPlayersAvailable
    BY <1>6, <1>7
  <2> QED BY <1>2, <2>1, ShrinkBooking
<1>9. FreshLogins'
  BY <1>2 DEF BookingInv, FreshLogins
<1>10. BookingStep
  <2>1. Booked(g)' = {}
    BY <1>7
  <2> QED BY <1>6, <2>1 DEF BookingStep
<1> QED BY <1>1, <1>8, <1>9, <1>10 DEF BookingInv

LEMMA GameMasterBooking ==
  ASSUME BookingInv, NEW g \in GMs, GameMaster(g)
  PROVE  BookingInv' /\ BookingStep
<1>1. TypeOK /\ ConversationInv /\ ConversationInv'
  BY GameMasterConversation DEF BookingInv, ConversationInv
<1>2. CASE Win(g)
  BY <1>1, <1>2, EndGameBooking, EventTypes, PlayingFields DEF Win
<1>3. CASE Draw(g)
  BY <1>1, <1>3, EndGameBooking, EventTypes, PlayingFields DEF Draw
<1>4. CASE Abandon(g)
  BY <1>1, <1>4, EndGameBooking, EventTypes, PlayingFields DEF Abandon
<1>5. CASE Exit(g)
  BY <1>1, <1>5, QuietBooking DEF Exit, pmVars
<1> QED BY <1>2, <1>3, <1>4, <1>5, AskBooking, TakeReplyBooking, PanicInGameBooking
        DEF GameMaster

-----------------------------------------------------------------------------
(* All together. *)

LEMMA InitBooking == Init => BookingInv /\ \A g \in GMs : Booked(g) = {}
<1> SUFFICES ASSUME Init PROVE BookingInv /\ \A g \in GMs : Booked(g) = {}
  OBVIOUS
<1>1. ConversationInv /\ TypeOK
  BY InitConversation DEF ConversationInv
<1>2. /\ inbox = <<>>
      /\ \A g \in GMs : gm[g] # "play" /\ gmbox[g] = <<>> /\ game[g] = NoPlayersAvailable
  BY DEF Init
<1>3. \A g \in GMs : Booked(g) = {}
  <2>1. \A g \in GMs : Reported(g) = {}
    BY <1>2 DEF Reported, Results
  <2> QED BY <1>1, <1>2, <2>1, NothingInHand
<1>4. \A g \in GMs : \A m \in Matches(g) : m.a = NoName /\ m.b = NoName
  BY <1>2 DEF Matches, NoPlayersAvailable
<1> QED BY <1>1, <1>2, <1>3, <1>4
        DEF BookingInv, FreshLogins, NoDoubleBooking, RegistryAgrees

LEMMA NextBooking ==
  ASSUME Relogin = {}, BookingInv, [Next]_vars
  PROVE  BookingInv' /\ BookingStep
<1>1. ConversationInv'
  BY NextConversation DEF BookingInv
<1>2. CASE \E c \in Conns, n \in Names : Login(c, n)
  BY <1>2, LoginBooking
<1>3. CASE \E c \in Conns : Disconnect(c)
  BY <1>1, <1>3, QuietBooking DEF Disconnect, pmVars, gmVars
<1>4. CASE \E g \in GMs : SpawnGM(g)
  BY <1>1, <1>4, QuietBooking DEF SpawnGM, pmVars
<1>5. CASE BeginServing
  BY <1>1, <1>5, QuietBooking DEF BeginServing, gmVars
<1>6. CASE \E n \in Names : CooldownEnds(n)
  <2> PICK n \in Names : CooldownEnds(n)
    BY <1>6
  <2>1. \A k \in Names : seat[k] \in {"absent", "in_game"} => seat'[k] = seat[k]
    BY DEF CooldownEnds, BookingInv, ConversationInv, TypeOK
  <2> QED BY <1>1, <2>1, QuietBooking DEF CooldownEnds, gmVars
<1>7. CASE \E g \in GMs : GameMaster(g)
  BY <1>7, GameMasterBooking
<1>8. CASE UNCHANGED vars
  BY <1>1, <1>8, QuietBooking DEF vars, pmVars, gmVars
<1>9. CASE StartupFails
  BY <1>1, <1>9, StopBooking DEF StartupFails, gmVars
<1>10. CASE PanicOnGameOver \/ PanicOnAlive
  BY <1>1, <1>10, StopBooking DEF PanicOnGameOver, PanicOnAlive, Panic, Receiving, gmVars
<1> QED BY <1>2, <1>3, <1>4, <1>5, <1>6, <1>7, <1>8, <1>9, <1>10, NewPlayerBooking,
           GameOverBooking, NeedPlayersBooking DEF Next, PlayerManager

LEMMA BookingAlways == ASSUME Relogin = {} PROVE Spec => []BookingInv
<1>1. Init => BookingInv
  BY InitBooking
<1>2. BookingInv /\ [Next]_vars => BookingInv'
  BY NextBooking
<1> QED BY <1>1, <1>2, PTL DEF Spec

\* As long as no user logs in while the server knows the name, nobody is ever
\* bound to two games, from the match until the result has been handled.
THEOREM NobodyIsDoubleBooked == ASSUME Relogin = {} PROVE Spec => []NoDoubleBooking
<1>1. BookingInv => NoDoubleBooking
  BY DEF BookingInv
<1> QED BY BookingAlways, <1>1, PTL

\* Under the same condition the copies of the registry that the game masters
\* work from never go stale.
THEOREM CopiesAreCurrent == ASSUME Relogin = {} PROVE Spec => []RegistryAgrees
<1>1. BookingInv => RegistryAgrees
  BY DEF BookingInv
<1> QED BY BookingAlways, <1>1, PTL

\* Under the same condition players[&result.loser] never meets a missing key
\* (unless it is "" that has lost), and the entry of a booked player is the same
\* session from the match to the result.
THEOREM SessionsKept == ASSUME Relogin = {} PROVE Spec => KeepsItsSession
<1> DEFINE Kept ==
      /\ PanicOnGameOver => Head(inbox).loser = NoName
      /\ pm' # "stopped" =>
           \A g \in GMs : \A n \in Booked(g) \cap Booked(g)' : stream'[n] = stream[n]
<1>1. BookingInv /\ [Next]_vars => [Kept]_vars
  <2> SUFFICES ASSUME BookingInv, [Next]_vars, BookingInv' PROVE Kept
    BY NextBooking
  <2>1. PanicOnGameOver => Head(inbox).loser = NoName
    BY NoMissingLoser
  <2>2. ASSUME pm' # "stopped", NEW g \in GMs, NEW n \in Booked(g), n \in Booked(g)'
        PROVE  stream'[n] = stream[n]
    <3>1. n \in Names /\ TypeOK /\ TypeOK'
      BY BookedNames DEF BookingInv, ConversationInv
    <3>2. seat'[n] = "in_game"
      BY <2>2 DEF BookingInv, RegistryAgrees
    <3>3. CASE HandleNewPlayer
      <4>1. seat'[n] = "in_game" => Head(inbox).name # n
        BY <3>1, <3>3 DEF HandleNewPlayer, TypeOK
      <4> QED BY <3>1, <3>2, <3>3, <4>1 DEF HandleNewPlayer, TypeOK
    <3>4. CASE HandleGameOver
      BY <3>1, <3>2, <3>4 DEF HandleGameOver
    <3>5. CASE HandleNeedPlayers
      <4> PICK alive \in Answers :
            /\ \E matched : seat' = Pruned(alive, matched)
            /\ stream' = [k \in Names |-> IF k \in Pinged \ alive THEN NoConn ELSE stream[k]]
        BY <3>5 DEF HandleNeedPlayers
      <4>1. n \notin Pinged \ alive
        BY <3>1, <3>2 DEF Pruned
      <4> QED BY <3>1, <4>1
    <3>6. CASE \E h \in GMs : GameMaster(h)
      BY <3>6 DEF GameMaster, Ask, BackOff, BeginGame, Win, Draw, Abandon, PanicInGame, Exit,
         EndGame, pmVars
    <3> QED BY <2>2, <3>3, <3>4, <3>5, <3>6 DEF Next, PlayerManager, Login, Disconnect,
            CooldownEnds, StartupFails, SpawnGM, BeginServing, PanicOnGameOver, PanicOnAlive,
            Panic, vars, pmVars
  <2> QED BY <2>1, <2>2
<1> QED BY BookingAlways, <1>1, PTL DEF Spec, KeepsItsSession

\* Under the same condition every step of the tasks is a step of the abstract
\* booking of players or changes nothing in it: two free players are handed out,
\* or the two of a game are given back, several games at once only when the player
\* manager stops.
THEOREM BookingIsImplemented == ASSUME Relogin = {} PROVE Spec => BookedStepByStep
<1>1. Init => Abstract!Init
  BY InitBooking DEF Abstract!Init, booked
<1>2. BookingInv /\ [Next]_vars => [Abstract!Next \/ StopsServing]_booked
  <2> SUFFICES ASSUME BookingInv, [Next]_vars
               PROVE  [Abstract!Next \/ StopsServing]_booked
    OBVIOUS
  <2>1. BookingStep
    BY NextBooking
  <2>2. CASE \A h \in GMs : Booked(h)' = Booked(h)
    BY <2>2 DEF booked
  <2>3. ASSUME NEW g \in GMs, Booked(g)' = {}, \A h \in GMs \ {g} : Booked(h)' = Booked(h)
        PROVE  [Abstract!Next]_booked
    <3>1. CASE Booked(g) = {}
      BY <2>3, <3>1 DEF booked
    <3>2. CASE Booked(g) # {}
      <4>1. booked' = [booked EXCEPT ![g] = {}] /\ booked[g] # {}
        BY <2>3, <3>2 DEF booked
      <4> QED BY <4>1 DEF Abstract!Next, Abstract!Release
    <3> QED BY <3>1, <3>2
  <2>4. ASSUME NEW g \in GMs, Booked(g) = {}, NEW a \in Names, NEW b \in Names, a # b,
               \A h \in GMs : a \notin Booked(h) /\ b \notin Booked(h),
               Booked(g)' = {a, b} \ {NoName}, \A h \in GMs \ {g} : Booked(h)' = Booked(h)
        PROVE  [Abstract!Next]_booked
    <3>1. booked' = [booked EXCEPT ![g] = {a, b} \ {NoName}] /\ booked[g] = {}
      BY <2>4 DEF booked
    <3>2. a \in Names \ Abstract!Busy /\ b \in Names \ Abstract!Busy
      BY <2>4 DEF Abstract!Busy, booked
    <3> QED BY <2>4, <3>1, <3>2 DEF Abstract!Next, Abstract!Book
  <2> QED BY <2>1, <2>2, <2>3, <2>4 DEF BookingStep
<1> QED BY BookingAlways, <1>1, <1>2, PTL DEF Spec, BookedStepByStep

=============================================================================
