----------------------------- MODULE GameServer -----------------------------
(***************************************************************************)
(* The tasks of the bidding game server and the channels between them.     *)
(*                                                                         *)
(* One player manager owns the registry of players and reads its events    *)
(* from one unbounded channel.  A fixed number of game masters each read   *)
(* replies from a channel of their own, run one game at a time and report  *)
(* the result to the player manager.  A connection loop per accepted       *)
(* socket authenticates a user and hands the new player over.              *)
(*                                                                         *)
(* The inside of a game (run_game) is module RunGame; here a game is a     *)
(* task that ends with any of its five outcomes.  The rating update of     *)
(* handle_player_winning_result only touches the elo column, which nothing *)
(* here reads: it is abstracted away.                                      *)
(***************************************************************************)
EXTENDS Integers, Sequences, FiniteSets, Functions

CONSTANTS
  Names,       \* usernames present in the players table
  Conns,       \* TCP sockets; an id is free again once no task holds a handle
  GMs,         \* game master ids (0..max_games in the code, max_games = 4)
  NoName,      \* the empty string in GameResult.winner and .loser; a user may have it
  NoConn,      \* no socket
  Relogin,     \* names that may log in while the server still knows them
  Laggards,    \* names whose ALIVE answer may miss SOCKET_READ_TIMEOUT
  Endless,     \* names whose client may keep a read or a send from ever ending
  Overflows,   \* names whose client may send a third length byte to a checked build
  DbReliable,  \* does every UPDATE of the players table succeed?
  MaxStat      \* bound: no counter of the players table passes it

ASSUME ServerAssumption ==
  /\ IsFiniteSet(Names)
  /\ NoConn \notin Conns
  /\ IsFiniteSet(GMs)
  /\ Relogin \subseteq Names
  /\ DbReliable \in BOOLEAN
  /\ Laggards \cup Endless \cup Overflows \subseteq Names
  /\ MaxStat \in Nat

VARIABLES
  pm,                \* the player manager task: "starting", "serving", "stopped"
  inbox,             \* its event channel
  seat,              \* players: "absent", or in_game with the cooldown folded in
  stream,            \* players: the socket of each registered name
  concurrent_games,  \* its count of running games
  server_stats,      \* server_stats.concurrent_games in the database
  db,                \* wins, losses and draws columns of the players table
  gm,                \* what each game master task is doing
  gmbox,             \* the channel to each game master
  game,              \* the NewGame each game master is playing
  gone               \* sockets that are dead: the client left or the server shut them

pmVars == <<pm, inbox, seat, stream, concurrent_games, server_stats, db>>
gmVars == <<gm, gmbox, game>>
vars   == <<pmVars, gmVars, gone>>

-----------------------------------------------------------------------------
(* Events and replies, enum Event of main.rs. *)

NewPlayer(n, c) == [type |-> "NewPlayer", name |-> n, conn |-> c]
NeedPlayers(g)  == [type |-> "NeedPlayers", gm |-> g]
GameOver(g, status, winner, loser) ==
  [type |-> "GameOver", gm |-> g, status |-> status,
   winner |-> winner, loser |-> loser]

Event ==
  [type : {"NewPlayer"}, name : Names, conn : Conns]
    \cup [type : {"NeedPlayers"}, gm : GMs]
    \cup [type : {"GameOver"}, gm : GMs, status : {"Completed"},
          winner : Names \cup {NoName}, loser : Names \cup {NoName}]
    \cup [type : {"GameOver"}, gm : GMs, status : {"Draw", "Abandoned"},
          winner : Names, loser : Names]

NoPlayersAvailable ==
  [type |-> "NoPlayersAvailable", a |-> NoName, b |-> NoName,
   sa |-> NoConn, sb |-> NoConn]

Reply ==
  {NoPlayersAvailable}
    \cup [type : {"NewGame"}, a : Names, b : Names,
          sa : Conns \cup {NoConn}, sb : Conns \cup {NoConn}]

\* Variant with a bug: stream_b is cloned from player_a.
NewGameOneSocket(a, b) ==
  [type |-> "NewGame", a |-> a, b |-> b, sa |-> stream[a], sb |-> stream[a]]

NewGame(a, b) ==
  [type |-> "NewGame", a |-> a, b |-> b, sa |-> stream[a], sb |-> stream[b]]

Columns == {"wins", "losses", "draws"}

-----------------------------------------------------------------------------
(* Sockets.  TcpStream is a counted handle: a socket lives while the        *)
(* registry, a queued event or a game master holds a clone of it.           *)

MatchConns(m) == {m.sa, m.sb}

QueuedConns ==
  {inbox[i].conn : i \in {j \in DOMAIN inbox : inbox[j].type = "NewPlayer"}}

RepliedConns ==
  UNION {UNION {MatchConns(gmbox[g][i]) : i \in DOMAIN gmbox[g]} : g \in GMs}

Held ==
  ( {stream[n] : n \in Names}
      \cup QueuedConns
      \cup (UNION {MatchConns(game[g]) : g \in GMs})
      \cup RepliedConns )
  \ {NoConn}

\* A step may shut sockets down; a socket nobody holds any more is closed and forgotten.
Shut(conns) == gone' = (gone \cup conns) \cap Held'

\* write_all fails only on a dead socket, but the kernel may still take the bytes of one.
SendMayFail(c) == c \in gone

-----------------------------------------------------------------------------
(* Sending on a futures mpsc channel: the message is queued, or dropped     *)
(* with a logged error when the receiving task is gone.                     *)

Post(e) == inbox' = IF pm = "stopped" THEN inbox ELSE Append(inbox, e)

PostToGM(g, r) == gmbox' = [gmbox EXCEPT ![g] = Append(@, r)]

Receiving(type) == pm = "serving" /\ inbox # <<>> /\ Head(inbox).type = type

Take(g, type) ==
  /\ gm[g] = "wait"
  /\ gmbox[g] # <<>>
  /\ Head(gmbox[g]).type = type
  /\ gmbox' = [gmbox EXCEPT ![g] = Tail(@)]

-----------------------------------------------------------------------------
(* Connection loop and clients.                                             *)

\* Does the server still know the name?  Most clients wait until it does not.
Known(n) ==
  \/ seat[n] # "absent"
  \/ \E i \in DOMAIN inbox : inbox[i].type = "NewPlayer" /\ inbox[i].name = n

\* connection_loop, from the accepted password-less AUTH_RESPONSE to its end.
Login(c, n) ==
  /\ pm # "stopped"
  /\ c \notin Held
  /\ n \in Relogin \/ ~Known(n)
  /\ Post(NewPlayer(n, c))
  /\ UNCHANGED <<pm, seat, stream, concurrent_games, server_stats, db, gmVars, gone>>

\* The client goes away, or the network does.
Disconnect(c) ==
  /\ c \in Held \ gone
  /\ gone' = gone \cup {c}
  /\ UNCHANGED <<pmVars, gmVars>>

-----------------------------------------------------------------------------
(* Player manager.                                                          *)

\* No connection in the pool for the player manager itself: the task returns.
StartupFails ==
  /\ pm = "starting"
  /\ \A g \in GMs : gm[g] = "unspawned"
  /\ pm' = "stopped"
  /\ inbox' = <<>>
  /\ UNCHANGED <<seat, stream, concurrent_games, server_stats, db, gmVars>>
  /\ Shut({})

SpawnGM(g) ==
  /\ pm = "starting"
  /\ gm[g] = "unspawned"
  /\ gm' = [gm EXCEPT ![g] = "ask"]
  /\ UNCHANGED <<pmVars, gmbox, game, gone>>

\* All are spawned, or the pool had no connection for the next one (break).
BeginServing ==
  /\ pm = "starting"
  /\ pm' = "serving"
  /\ UNCHANGED <<inbox, seat, stream, concurrent_games, server_stats, db, gmVars, gone>>

\* Every 500ms the count is written out before the next event is handled.
PublishStats ==
  \/ UNCHANGED server_stats
  \/ server_stats' = concurrent_games

\* players.insert overwrites an entry of the same name.
HandleNewPlayer ==
  /\ Receiving("NewPlayer")
  /\ LET e == Head(inbox) IN
       /\ seat'   = [seat EXCEPT ![e.name] = "idle"]
       /\ stream' = [stream EXCEPT ![e.name] = e.conn]
  /\ inbox' = Tail(inbox)
  /\ PublishStats
  /\ UNCHANGED <<pm, concurrent_games, db, gmVars>>
  /\ Shut({})


Players(e) == {e.winner, e.loser}

\* The abandoning player leaves the registry; whoever of the two is left cools down.
AfterGame(e) ==
  [n \in Names |->
     IF e.status = "Abandoned" /\ n = e.loser THEN "absent"
     ELSE IF n \in Players(e) /\ seat[n] # "absent" THEN "cooling"
     ELSE seat[n]]

\* Cells of the players table the handler increments.
Credits(e) ==
  LET kept(n) == n \in Names /\ AfterGame(e)[n] # "absent" IN
    (IF e.status = "Draw" THEN Players(e) \X {"draws"} ELSE {})
      \cup (IF kept(e.winner) THEN {<<e.winner, "wins">>} ELSE {})
      \cup (IF kept(e.loser) THEN {<<e.loser, "losses">>} ELSE {})

\* inc_field on each cell; a failed UPDATE is logged and ignored.
Credit(cells) ==
  \E done \in SUBSET cells :
    /\ DbReliable => done = cells
    /\ \A x \in done : db[x[1]][x[2]] < MaxStat
    /\ db' = [n \in Names |-> [f \in Columns |->
                IF <<n, f>> \in done THEN db[n][f] + 1 ELSE db[n][f]]]

\* players[&result.loser] on a missing key.
LoserIsMissing(e) == e.status = "Abandoned" /\ seat[e.loser] = "absent"

HandleGameOver ==
  /\ Receiving("GameOver")
  /\ LET e == Head(inbox) IN
       /\ ~LoserIsMissing(e)
       /\ seat'   = AfterGame(e)
       /\ stream' = [n \in Names |-> IF seat'[n] = "absent" THEN NoConn ELSE stream[n]]
       /\ Credit(Credits(e))
       /\ inbox' = Tail(inbox)
       /\ concurrent_games' = concurrent_games - 1
       /\ PublishStats
       /\ UNCHANGED <<pm, gmVars>>
       /\ Shut(IF e.status = "Abandoned" THEN {stream[e.loser]} ELSE {})

\* A panic ends the task: registry, channel and the senders to the game masters drop.
Panic ==
  /\ pm' = "stopped"
  /\ inbox' = <<>>
  /\ seat' = [n \in Names |-> "absent"]
  /\ stream' = [n \in Names |-> NoConn]
  /\ concurrent_games' = 0
  /\ PublishStats
  /\ UNCHANGED <<db, gmVars>>
  /\ Shut({})

PanicOnGameOver ==
  /\ Receiving("GameOver")
  /\ LoserIsMissing(Head(inbox))
  /\ Panic

\* Variant with a bug: the in_game flag is not looked at.
PingedInGameToo == {n \in Names : seat[n] \in {"idle", "in_game"}}

\* Not in a game and out of the cooldown: these get an ALIVE.
Pinged == {n \in Names : seat[n] = "idle"}

\* The length of an answer to ALIVE is shifted past the width of a byte.
PanicOnAlive ==
  /\ Receiving("NeedPlayers")
  /\ Pinged \cap Overflows # {}
  /\ Panic

\* The sets of pinged players that may count as alive.  Anything readable is an
\* answer, so bytes left over from a client that has gone count as well.
Answers ==
  {alive \in SUBSET Pinged :
     \A n \in Pinged \ alive : stream[n] \in gone \/ n \in Laggards}

\* Variant with a bug: get_player_info_for_game does not set in_game.
PrunedNotMarked(alive, matched) ==
  [n \in Names |-> IF n \in Pinged \ alive THEN "absent" ELSE seat[n]]

\* get_free_players removes the others; the map order decides who is matched.
Pruned(alive, matched) ==
  [n \in Names |->
     IF n \in Pinged \ alive THEN "absent"
     ELSE IF n \in matched THEN "in_game"
     ELSE seat[n]]


TooFew(alive) == Cardinality(alive) < 2


\* Variant with a bug: the caller counts a game whatever was sent.
DeclineCounted(g) ==
  /\ PostToGM(g, NoPlayersAvailable)
  /\ concurrent_games' = concurrent_games + 1

\* handle_need_players returns false ...
Decline(g) ==
  /\ PostToGM(g, NoPlayersAvailable)
  /\ UNCHANGED concurrent_games

\* ... or true, which the caller counts as a game.
Match(g, a, b) ==
  /\ PostToGM(g, NewGame(a, b))
  /\ concurrent_games' = concurrent_games + 1

HandleNeedPlayers ==
  /\ Receiving("NeedPlayers")
  /\ LET g == Head(inbox).gm IN
       \E alive \in Answers :
         /\ \/ /\ TooFew(alive)
               /\ seat' = Pruned(alive, {})
               /\ Decline(g)
            \/ \E a, b \in alive :
                 /\ ~TooFew(alive) /\ a # b
                 /\ seat' = Pruned(alive, {a, b})
                 /\ Match(g, a, b)
         /\ stream' = [n \in Names |-> IF n \in Pinged \ alive THEN NoConn ELSE stream[n]]
  /\ inbox' = Tail(inbox)
  /\ PublishStats
  /\ UNCHANGED <<pm, db, gm, game>>
  /\ Shut({})

\* player_cooldown of 20 to 150ms is over.
CooldownEnds(n) ==
  /\ seat[n] = "cooling"
  /\ seat' = [seat EXCEPT ![n] = "idle"]
  /\ UNCHANGED <<pm, inbox, stream, concurrent_games, server_stats, db, gmVars, gone>>

-----------------------------------------------------------------------------
(* Game masters.                                                            *)

\* Variant with a bug: the repeated code of the abandoned path runs as well.
AskTwice(g) ==
  /\ gm[g] = "ask"
  /\ gm' = [gm EXCEPT ![g] = "wait"]
  /\ inbox' = inbox \o <<NeedPlayers(g), NeedPlayers(g)>>
  /\ UNCHANGED <<pm, seat, stream, concurrent_games, server_stats, db, gmbox, game, gone>>

\* Send NeedPlayers, at the start and after every backoff sleep.
Ask(g) ==
  /\ gm[g] = "ask"
  /\ gm' = [gm EXCEPT ![g] = "wait"]
  /\ Post(NeedPlayers(g))
  /\ UNCHANGED <<pm, seat, stream, concurrent_games, server_stats, db, gmbox, game, gone>>

BackOff(g) ==
  /\ Take(g, "NoPlayersAvailable")
  /\ gm' = [gm EXCEPT ![g] = "ask"]
  /\ UNCHANGED <<pmVars, game, gone>>

BeginGame(g) ==
  /\ Take(g, "NewGame")
  /\ gm' = [gm EXCEPT ![g] = "play"]
  /\ game' = [game EXCEPT ![g] = Head(gmbox[g])]
  /\ UNCHANGED <<pmVars, gone>>

\* Variant with a bug: the next game is asked for before the result is reported.
EndGameAfterAsk(g, status, winner, loser) ==
  /\ gm' = [gm EXCEPT ![g] = "wait"]
  /\ game' = [game EXCEPT ![g] = NoPlayersAvailable]
  /\ inbox' = inbox \o <<NeedPlayers(g), GameOver(g, status, winner, loser)>>
  /\ UNCHANGED <<pm, seat, stream, concurrent_games, server_stats, db, gmbox>>
  /\ Shut({})


\* Report the result and go back to asking; the stream clones are dropped.
EndGame(g, status, winner, loser) ==
  /\ gm' = [gm EXCEPT ![g] = "ask"]
  /\ game' = [game EXCEPT ![g] = NoPlayersAvailable]
  /\ Post(GameOver(g, status, winner, loser))
  /\ UNCHANGED <<pm, seat, stream, concurrent_games, server_stats, db, gmbox>>
  /\ Shut({})

\* handle_player_winning_result: if a GAME_END cannot be sent, the result keeps
\* its initial empty names.
Win(g) ==
  /\ gm[g] = "play"
  /\ \/ EndGame(g, "Completed", game[g].a, game[g].b)
     \/ EndGame(g, "Completed", game[g].b, game[g].a)
     \/ /\ \E c \in MatchConns(game[g]) : SendMayFail(c)
        /\ EndGame(g, "Completed", NoName, NoName)

Draw(g) ==
  /\ gm[g] = "play"
  /\ EndGame(g, "Draw", game[g].a, game[g].b)

\* Variant with a bug: the result of an abandoned game keeps its empty names.
AbandonUnnamed(g) ==
  /\ gm[g] = "play"
  /\ EndGame(g, "Abandoned", NoName, NoName)

\* create_game_result_abandoned: the one who stayed wins.
Abandon(g) ==
  /\ gm[g] = "play"
  /\ \/ EndGame(g, "Abandoned", game[g].a, game[g].b)
     \/ EndGame(g, "Abandoned", game[g].b, game[g].a)

\* The length of a bid is shifted past the width of a byte: the game and its
\* result are lost with the task.
PanicInGame(g) ==
  /\ gm[g] = "play"
  /\ {game[g].a, game[g].b} \cap Overflows # {}
  /\ gm' = [gm EXCEPT ![g] = "panicked"]
  /\ game' = [game EXCEPT ![g] = NoPlayersAvailable]
  /\ UNCHANGED <<pmVars, gmbox>>
  /\ Shut({})

\* Variant with a bug: the end of the channel is taken for an empty one.
ExitIgnored(g) ==
  /\ gm[g] = "wait"
  /\ gmbox[g] = <<>>
  /\ pm = "stopped"
  /\ UNCHANGED vars

\* The channel is drained and the player manager has dropped its sender.
Exit(g) ==
  /\ gm[g] = "wait"
  /\ gmbox[g] = <<>>
  /\ pm = "stopped"
  /\ gm' = [gm EXCEPT ![g] = "exited"]
  /\ UNCHANGED <<pmVars, gmbox, game, gone>>

-----------------------------------------------------------------------------
Init ==
  /\ pm = "starting"
  /\ inbox = <<>>
  /\ seat = [n \in Names |-> "absent"]
  /\ stream = [n \in Names |-> NoConn]
  /\ concurrent_games = 0
  /\ server_stats = 0
  /\ db = [n \in Names |-> [f \in Columns |-> 0]]
  /\ gm = [g \in GMs |-> "unspawned"]
  /\ gmbox = [g \in GMs |-> <<>>]
  /\ game = [g \in GMs |-> NoPlayersAvailable]
  /\ gone = {}

PlayerManager ==
  \/ StartupFails
  \/ \E g \in GMs : SpawnGM(g)
  \/ BeginServing
  \/ HandleNewPlayer
  \/ HandleGameOver
  \/ PanicOnGameOver
  \/ HandleNeedPlayers
  \/ PanicOnAlive

GameMaster(g) ==
  \/ Ask(g)
  \/ BackOff(g)
  \/ BeginGame(g)
  \/ Win(g)
  \/ Draw(g)
  \/ Abandon(g)
  \/ PanicInGame(g)
  \/ Exit(g)

Next ==
  \/ \E c \in Conns, n \in Names : Login(c, n)
  \/ \E c \in Conns : Disconnect(c)
  \/ PlayerManager
  \/ \E n \in Names : CooldownEnds(n)
  \/ \E g \in GMs : GameMaster(g)

Spec == Init /\ [][Next]_vars

(* Fairness.  The executor polls every ready task; the cooldown and the     *)
(* backoff are timers.  A read of the server has a timeout, but a length is *)
(* read with a new one for every byte, and a send has none: a client in     *)
(* Endless that stays connected may hold up the task that talks to it for   *)
(* ever, and while it does the task owes nothing.  All others come to the   *)
(* end of a game (module RunGame).  Clients owe nothing: no fairness on     *)
(* Login or Disconnect.                                                     *)

\* Player n, on socket c, may keep the server reading or sending for ever.
Holds(n, c) == n \in Endless /\ c \notin gone

\* The player manager may never see the end of its ALIVE exchanges.
Stalled == Receiving("NeedPlayers") /\ \E n \in Pinged : Holds(n, stream[n])

\* The game of g may never end, or has ended with its task.
Overdue(g) ==
  \/ gm[g] = "panicked"
  \/ gm[g] = "play" /\ (Holds(game[g].a, game[g].sa) \/ Holds(game[g].b, game[g].sb))

Fairness ==
  /\ WF_vars(~Stalled /\ PlayerManager)
  /\ \A g \in GMs : WF_vars(~Overdue(g) /\ GameMaster(g))
  /\ \A n \in Names : WF_vars(CooldownEnds(n))

FairSpec == Spec /\ Fairness

-----------------------------------------------------------------------------
(* Properties.                                                              *)

\* Every variable has its type.
TypeOK ==
  /\ pm \in {"starting", "serving", "stopped"}
  /\ inbox \in Seq(Event)
  /\ seat \in [Names -> {"absent", "idle", "cooling", "in_game"}]
  /\ stream \in [Names -> Conns \cup {NoConn}]
  /\ concurrent_games \in Int
  /\ server_stats \in Int
  /\ db \in [Names -> [Columns -> 0..MaxStat]]
  /\ gm \in [GMs -> {"unspawned", "ask", "wait", "play", "panicked", "exited"}]
  /\ gmbox \in [GMs -> Seq(Reply)]
  /\ game \in [GMs -> Reply]
  /\ \A g \in GMs : gm[g] = "play" <=> game[g].type = "NewGame"
  /\ gone \in SUBSET Conns

Asks(g)    == {i \in DOMAIN inbox : inbox[i].type = "NeedPlayers" /\ inbox[i].gm = g}
Results(g) == {i \in DOMAIN inbox : inbox[i].type = "GameOver" /\ inbox[i].gm = g}

\* A game master and the player manager take strict turns: while a game master
\* waits, exactly one of its request and its reply is in flight; while it does
\* not, neither is.  It is never owed two replies and never forgotten.
OneConversation ==
  \A g \in GMs :
    /\ \A i, j \in Asks(g) : i = j
    /\ Len(gmbox[g]) <= 1
    /\ gm[g] # "wait" => Asks(g) = {} /\ gmbox[g] = <<>>
    /\ gm[g] = "wait" /\ pm # "stopped" => (Asks(g) = {} <=> gmbox[g] # <<>>)

\* The result of a game is handled before the game master's next request, so
\* no game is handed out to a game master whose last result is unhandled.
ResultBeforeRequest ==
  \A g \in GMs :
    /\ \A i, j \in Results(g) : i = j
    /\ \A i \in Results(g), j \in Asks(g) : i < j
    /\ Results(g) # {} => gm[g] \in {"ask", "wait"} /\ gmbox[g] = <<>>

\* A game was handed to g and its result is not handled yet, or never will be.
Outstanding(g) ==
  \/ \E i \in DOMAIN gmbox[g] : gmbox[g][i].type = "NewGame"
  \/ gm[g] \in {"play", "panicked"}
  \/ Results(g) # {}

\* The count the player manager keeps, which goes to the statistics table,
\* is the number of games handed out and not yet accounted for.
GamesAccounted ==
  pm # "stopped" => concurrent_games = Cardinality({g \in GMs : Outstanding(g)})

\* The dashboard never shows a negative count, or more games than game masters.
StatsInRange == server_stats \in 0..Cardinality(GMs)

\* The players in the replies under way to g, in its game, and in its results.
Offered(g)  == UNION {{gmbox[g][i].a, gmbox[g][i].b} : i \in DOMAIN gmbox[g]}
Playing(g)  == {game[g].a, game[g].b}
Reported(g) == UNION {{inbox[i].winner, inbox[i].loser} : i \in Results(g)}

\* The users bound to an outstanding game of g, wherever the game is known.  A
\* user called "" is left out: a result without names counts as one of "", too.
Booked(g) == (Offered(g) \cup Playing(g) \cup Reported(g)) \ {NoName}

\* The copies of the registry g works from, or is about to; and those of a game.
Matches(g) == {game[g]} \cup {gmbox[g][i] : i \in DOMAIN gmbox[g]}
Games(g)   == {m \in Matches(g) : m.type = "NewGame"}

\* Nobody plays, is about to play, or waits for the result of, two games at once.
NoDoubleBooking ==
  \A g, h \in GMs : g # h => Booked(g) \cap Booked(h) = {}

\* While the player manager runs, the registry agrees with the copies the game
\* masters work from: a booked player is registered, marked in_game, and on
\* the socket the game uses.
RegistryAgrees ==
  pm # "stopped" =>
    \A g \in GMs :
      /\ \A n \in Booked(g) : seat[n] = "in_game"
      /\ \A m \in Matches(g) :
           /\ m.a # NoName => m.sa = stream[m.a]
           /\ m.b # NoName => m.sb = stream[m.b]

\* The sockets in use, each with the name it is used under: registered, in the
\* queue, or on a side of a game.
Uses ==
  {<<n, stream[n]>> : n \in {k \in Names : stream[k] # NoConn}}
    \cup {<<inbox[i].name, inbox[i].conn>> :
            i \in {j \in DOMAIN inbox : inbox[j].type = "NewPlayer"}}
    \cup UNION {UNION {{<<m.a, m.sa>>, <<m.b, m.sb>>} : m \in Games(g)} : g \in GMs}

\* A socket belongs to one player: it is never registered, queued or in play
\* under two names, and the two sides of a game are two players with a socket each.
OneOwnerPerSocket ==
  /\ \A u, v \in Uses : u[2] = v[2] => u[1] = v[1]
  /\ \A g \in GMs :
       \A m \in Games(g) : m.a # m.b /\ m.sa # m.sb /\ NoConn \notin MatchConns(m)

\* The session that played is the one the result is for: the loser whose entry
\* main.rs indexes is registered, and from the match to the result nobody's entry
\* gets another socket, so that the one shut down is the one of the game.
KeepsItsSession ==
  [][/\ PanicOnGameOver => Head(inbox).loser = NoName
     /\ pm' # "stopped" =>
          \A g \in GMs : \A n \in Booked(g) \cap Booked(g)' : stream'[n] = stream[n]]_vars

\* A player the registry, "the authoritative copy of the player information"
\* (main.rs), marks in_game is in a game or has a result still to be handled.
InGameMeansBooked ==
  \A n \in Names :
    seat[n] = "in_game" => \E g \in GMs : n \in Booked(g) \/ Results(g) # {}

\* The sum of a column over all players.
Total(column) == SumFunction([n \in Names |-> db[n][column]])

\* The standings balance: every loss on record is somebody's win (a win by
\* abandonment costs nobody a loss), and draws come in pairs.
StandingsBalance ==
  /\ Total("losses") <= Total("wins")
  /\ Total("draws") % 2 = 0

\* A step that records a draw for a player records no win and no loss.
DrawHasNoWinner ==
  [][\A n \in Names :
       db'[n]["draws"] # db[n]["draws"] =>
         db'[n]["wins"] = db[n]["wins"] /\ db'[n]["losses"] = db[n]["losses"]]_vars

\* Registered, on a live socket, and in no game as far as the registry knows.
Able(n) == seat[n] \in {"idle", "cooling"} /\ stream[n] \notin gone

\* No client holds up the player manager for ever.
AnswersEnd == []<>~Stalled




\* Once the player manager is gone every game master whose game ends exits.
WindDown ==
  \A g \in GMs :
    []<>~Overdue(g) => (pm = "stopped" ~> gm[g] \in {"unspawned", "exited"})

\* The tasks together implement the abstract booking of players to games.
booked == [g \in GMs |-> Booked(g)]
Abstract == INSTANCE Bookings WITH LeftOut <- {NoName}

\* A player manager that stops takes the results it had queued with it.
StopsServing ==
  /\ pm # "stopped" /\ pm' = "stopped"
  /\ \A g \in GMs : Booked(g)' \in {{}, Booked(g)}

\* Players are handed out and given back as Bookings says: two free ones at a
\* time, and the same two until the game is over; several games are over at once
\* only with the player manager.
BookedStepByStep == Abstract!Init /\ [][Abstract!Next \/ StopsServing]_booked


=============================================================================
