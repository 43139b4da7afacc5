--------------------------- MODULE ConnectionLoop ---------------------------
(***************************************************************************)
(* From the start of the server to the hand-over of a player: accept_loop  *)
(* opens the listener and the pool of database connections and spawns the  *)
(* player manager; then it spawns one connection_loop per stream, which    *)
(* exchanges versions, asks who it is, looks the user up and passes the    *)
(* player on.  The tasks meet in the pool: the player manager and every    *)
(* game master keep a connection for good, and a connection loop keeps one *)
(* from the look-up to its end, network sends included.                    *)
(*                                                                         *)
(* What the bytes of an answer are is module Session's; here a read comes  *)
(* back with a message or with one of its errors.                          *)
(***************************************************************************)
EXTENDS Naturals, Sequences, FiniteSets

CONSTANTS
  Conns,     \* TCP connections
  Names,     \* usernames, the empty one included
  Empty,     \* the empty username
  GMs,       \* game masters, max_games = 4 of them
  PM,        \* the player manager, as a holder of a database connection
  Endless,   \* connections whose client may keep a read from ever ending
  PoolSize   \* max_connections of the pool, 10

ASSUME ConnectionAssumption ==
  /\ Empty \in Names
  /\ IsFiniteSet(Conns) /\ IsFiniteSet(GMs)
  /\ Endless \subseteq Conns
  /\ Conns \cap GMs = {} /\ PM \notin Conns \cup GMs
  /\ PoolSize \in Nat

VARIABLES
  server,    \* accept_loop: "binding", "connecting", "accepting", or the error it returned
  pm,        \* player_manager: "unspawned", "acquiring", "spawning", "serving", "stopped"
  loop,      \* where each connection_loop is, or what it returned
  username,  \* its local variable, Empty until the answer is read
  holders,   \* the tasks that hold a connection of the pool
  posted,    \* the players its channel took on behalf of the player manager
  players,   \* usernames in the players table
  said,      \* what each client answers
  told,      \* what was written to each socket
  gone       \* sockets that are dead: the client left or the server shut them

taskVars   == <<server, pm, loop, username, holders, posted>>
clientVars == <<said, told, gone>>
vars == <<taskVars, players, clientVars>>

\* The awaits a connection loop can be at.
Stages == {"version", "auth_request", "read", "acquire", "select", "reject", "ack", "post"}

\* What read_proto_from_client returns but a message: of enum BidError, or the arithmetic
\* overflow of a third length byte in a checked build.
ReadErrors == {"ErrorOnRead", "PlayerTimedOut", "ProtoParseError", "panic"}

Errors ==
  ReadErrors \cup {"ErrorOnSend", "DbCannotOpenDatabase", "PlayerNotFoundByName",
                   "PlayerManagerSendFailed"}

\* The stages at which conn, the loop's database connection, is alive.
Holding == {"select", "reject", "ack", "post"}

-----------------------------------------------------------------------------
(* Messages. *)

NoAnswer == [type |-> "NONE", name |-> Empty]

Answers ==
  [type : {"AUTH_RESPONSE"}, name : Names] \cup [type : {"OTHER"}, name : {Empty}]

\* Any other message, and one without a player_name, is from the user called "".
Claimed(m) == IF m.type = "AUTH_RESPONSE" THEN m.name ELSE Empty

Player(c) == [name |-> username[c], conn |-> c]

Write(c, type) == told' = [told EXCEPT ![c] = Append(@, type)]

-----------------------------------------------------------------------------
(* Tasks. *)

GoTo(c, stage) == loop' = [loop EXCEPT ![c] = stage]

\* Variant with a bug: the database connection is not given back.
ReturnHolding(c, result) == GoTo(c, result) /\ UNCHANGED holders

\* The task is over and drops what it owns.
Return(c, result) == GoTo(c, result) /\ holders' = holders \ {c}

\* A connection is free in the pool.
Free == Cardinality(holders) < PoolSize

Hold(t) == Free /\ holders' = holders \cup {t}

\* Sending at a stage: the stage's message is written, or the socket is dead.
Send(c, stage, type) == loop[c] = stage /\ Write(c, type)
SendFails(c, stage)  == loop[c] = stage /\ c \in gone /\ UNCHANGED told

-----------------------------------------------------------------------------
(* accept_loop. *)

Bind ==
  /\ server = "binding"
  /\ server' \in {"connecting", "ErrorBindingToInterface"}
  /\ UNCHANGED <<pm, loop, username, holders, posted, players, clientVars>>

OpenPool ==
  /\ server = "connecting"
  /\ \/ server' = "accepting" /\ pm' = "acquiring"
     \/ server' = "DbCannotOpenDatabase" /\ UNCHANGED pm
  /\ UNCHANGED <<loop, username, holders, posted, players, clientVars>>

\* A stream that could not be accepted is passed over.
Accept(c) ==
  /\ server = "accepting"
  /\ loop[c] = "none"
  /\ GoTo(c, "version")
  /\ UNCHANGED <<server, pm, username, holders, posted, players, clientVars>>

-----------------------------------------------------------------------------
(* connection_loop. *)

SendVersion(c) ==
  /\ \/ Send(c, "version", "VERSION") /\ GoTo(c, "auth_request") /\ UNCHANGED holders
     \/ SendFails(c, "version") /\ Return(c, "ErrorOnSend")
  /\ UNCHANGED <<server, pm, username, posted, players, said, gone>>

\* An error is logged and forgotten.
SendAuthRequest(c) ==
  /\ \/ Send(c, "auth_request", "AUTH_REQUEST")
     \/ SendFails(c, "auth_request")
  /\ GoTo(c, "read")
  /\ UNCHANGED <<server, pm, username, holders, posted, players, said, gone>>

\* Variant with a bug: no timeout, and no end of a stream that is still open.
ReadForever(c) ==
  /\ loop[c] = "read"
  /\ \/ /\ said[c] # NoAnswer
        /\ username' = [username EXCEPT ![c] = Claimed(said[c])]
        /\ GoTo(c, "acquire")
        /\ UNCHANGED holders
     \/ c \in gone /\ Return(c, "ErrorOnRead") /\ UNCHANGED username
  /\ UNCHANGED <<server, pm, posted, players, clientVars>>

\* An answer may also be late, or not parse.
Read(c) ==
  /\ loop[c] = "read"
  /\ \/ /\ said[c] # NoAnswer
        /\ username' = [username EXCEPT ![c] = Claimed(said[c])]
        /\ GoTo(c, "acquire")
        /\ UNCHANGED holders
     \/ \E e \in ReadErrors : Return(c, e) /\ UNCHANGED username
  /\ UNCHANGED <<server, pm, posted, players, clientVars>>

\* The pool makes a task wait until a connection is free, but not forever; opening a new
\* connection may fail as well.
Acquire(c) ==
  /\ loop[c] = "acquire"
  /\ \/ Hold(c) /\ GoTo(c, "select")
     \/ Return(c, "DbCannotOpenDatabase")
  /\ UNCHANGED <<server, pm, username, posted, players, clientVars>>

\* Variant with a bug: a failing statement is taken for a user who exists.
SelectAny(c) ==
  /\ loop[c] = "select"
  /\ \/ GoTo(c, "ack")
     \/ GoTo(c, "reject")
  /\ UNCHANGED <<server, pm, username, holders, posted, players, clientVars>>

\* No row and a failing statement are the same error.
Select(c) ==
  /\ loop[c] = "select"
  /\ \/ username[c] \in players /\ GoTo(c, "ack")
     \/ GoTo(c, "reject")
  /\ UNCHANGED <<server, pm, username, holders, posted, players, clientVars>>

\* Variant with a bug: no return after the rejection.
RejectAndGoOn(c) ==
  /\ \/ /\ Send(c, "reject", "AUTH_REJECT")
        /\ gone' = gone \cup {c}
        /\ GoTo(c, "ack") /\ UNCHANGED holders
     \/ SendFails(c, "reject") /\ UNCHANGED gone /\ Return(c, "ErrorOnSend")
  /\ UNCHANGED <<server, pm, username, posted, players, said>>

Reject(c) ==
  /\ \/ /\ Send(c, "reject", "AUTH_REJECT")
        /\ gone' = gone \cup {c}
        /\ Return(c, "PlayerNotFoundByName")
     \/ SendFails(c, "reject") /\ UNCHANGED gone /\ Return(c, "ErrorOnSend")
  /\ UNCHANGED <<server, pm, username, posted, players, said>>

Ack(c) ==
  /\ \/ Send(c, "ack", "ACK") /\ GoTo(c, "post") /\ UNCHANGED holders
     \/ SendFails(c, "ack") /\ Return(c, "ErrorOnSend")
  /\ UNCHANGED <<server, pm, username, posted, players, said, gone>>

\* The channel takes the player unless its receiver is gone.
Post(c) ==
  /\ loop[c] = "post"
  /\ \/ pm # "stopped" /\ posted' = posted \cup {Player(c)} /\ Return(c, "Ok")
     \/ pm = "stopped" /\ UNCHANGED posted /\ Return(c, "PlayerManagerSendFailed")
  /\ UNCHANGED <<server, pm, username, players, clientVars>>

ConnectionStep(c) ==
  \/ SendVersion(c) \/ SendAuthRequest(c) \/ Read(c) \/ Acquire(c)
  \/ Select(c) \/ Reject(c) \/ Ack(c) \/ Post(c)

-----------------------------------------------------------------------------
(* player_manager and the game masters, as far as the pool is concerned. *)

ManagerAcquires ==
  /\ pm = "acquiring"
  /\ \/ Hold(PM) /\ pm' = "spawning"
     \/ pm' = "stopped" /\ UNCHANGED holders
  /\ UNCHANGED <<server, loop, username, posted, players, clientVars>>

SpawnGM(g) ==
  /\ pm = "spawning"
  /\ g \notin holders
  /\ Hold(g)
  /\ UNCHANGED <<server, pm, loop, username, posted, players, clientVars>>

\* All are spawned, or the pool had no connection for the next one (break).
BeginServing ==
  /\ pm = "spawning"
  /\ pm' = "serving"
  /\ UNCHANGED <<server, loop, username, holders, posted, players, clientVars>>

\* A panic over a key that is missing, or over the length of an answer to ALIVE, as in
\* GameServer.
ManagerPanics ==
  /\ pm = "serving"
  /\ pm' = "stopped"
  /\ holders' = holders \ {PM}
  /\ UNCHANGED <<server, loop, username, posted, players, clientVars>>

\* A game master whose game has panicked, or that cannot reach the player manager, is over.
GMExits(g) ==
  /\ pm \in {"serving", "stopped"}
  /\ g \in holders
  /\ holders' = holders \ {g}
  /\ UNCHANGED <<server, pm, loop, username, posted, players, clientVars>>

StartUp == Bind \/ OpenPool \/ ManagerAcquires \/ BeginServing \/ \E g \in GMs : SpawnGM(g)

-----------------------------------------------------------------------------
(* Clients, until their connection loop is over, and the operator. *)

Answer(c) ==
  /\ loop[c] \in {"version", "auth_request", "read"}
  /\ c \notin gone
  /\ said[c] = NoAnswer
  /\ \E m \in Answers : said' = [said EXCEPT ![c] = m]
  /\ UNCHANGED <<taskVars, players, told, gone>>

Leave(c) ==
  /\ loop[c] \in Stages
  /\ c \notin gone
  /\ gone' = gone \cup {c}
  /\ UNCHANGED <<taskVars, players, said, told>>

\* add_user.sh, while the server runs; it refuses no name.
AddUser(n) ==
  /\ n \notin players
  /\ players' = players \cup {n}
  /\ UNCHANGED <<taskVars, clientVars>>

-----------------------------------------------------------------------------
Init ==
  /\ server = "binding"
  /\ pm = "unspawned"
  /\ loop = [c \in Conns |-> "none"]
  /\ username = [c \in Conns |-> Empty]
  /\ holders = {}
  /\ posted = {}
  /\ players \in SUBSET Names
  /\ said = [c \in Conns |-> NoAnswer]
  /\ told = [c \in Conns |-> <<>>]
  /\ gone = {}

Next ==
  \/ StartUp \/ ManagerPanics
  \/ \E g \in GMs : GMExits(g)
  \/ \E c \in Conns : Accept(c) \/ ConnectionStep(c) \/ Answer(c) \/ Leave(c)
  \/ \E n \in Names : AddUser(n)

(* Every task that can go on does: sends and the pool come back in the end.  A read *)
(* has a timeout, but a length is read with a new one for every byte: a client in   *)
(* Endless that stays may keep it going for ever.                                   *)

Hangs(c) == loop[c] = "read" /\ c \in Endless \ gone

Fairness ==
  /\ WF_vars(StartUp)
  /\ \A c \in Conns : WF_vars(~Hangs(c) /\ ConnectionStep(c))

Spec == Init /\ [][Next]_vars /\ Fairness

-----------------------------------------------------------------------------
(* Properties. *)

\* Every variable of the start-up and connection tasks has its type.
TypeOK ==
  /\ server \in {"binding", "connecting", "accepting",
                 "ErrorBindingToInterface", "DbCannotOpenDatabase"}
  /\ pm \in {"unspawned", "acquiring", "spawning", "serving", "stopped"}
  /\ loop \in [Conns -> {"none", "Ok"} \cup Stages \cup Errors]
  /\ username \in [Conns -> Names]
  /\ holders \subseteq Conns \cup GMs \cup {PM}
  /\ posted \subseteq [name : Names, conn : Conns]
  /\ players \subseteq Names
  /\ said \in [Conns -> Answers \cup {NoAnswer}]
  /\ told \in [Conns -> Seq({"VERSION", "AUTH_REQUEST", "AUTH_REJECT", "ACK"})]
  /\ gone \subseteq Conns

Heard(c, type) == \E i \in DOMAIN told[c] : told[c][i] = type

\* A player of the player manager is a registered user, under the name its own client
\* claimed, and its client has been told so.
SeatedRightly ==
  \A p \in posted :
    /\ p.name \in players
    /\ said[p.conn] # NoAnswer /\ p.name = Claimed(said[p.conn])
    /\ loop[p.conn] = "Ok"
    /\ Heard(p.conn, "ACK")

\* A rejected client is out for good, and the only ACK that comes to nothing is one
\* that crosses the end of the player manager.
VerdictsFinal ==
  \A c \in Conns :
    /\ Heard(c, "AUTH_REJECT") =>
         loop[c] = "PlayerNotFoundByName" /\ c \in gone /\ ~Heard(c, "ACK")
    /\ Heard(c, "ACK") =>
         \/ loop[c] = "post"
         \/ loop[c] = "Ok" /\ Player(c) \in posted
         \/ loop[c] = "PlayerManagerSendFailed" /\ pm = "stopped"

\* connection_loop tells a client what becomes of it, and nothing else becomes of it.
VerdictStands == SeatedRightly /\ VerdictsFinal

\* The pool is never overdrawn, connection loops hold connections exactly between look-up
\* and end, and the player manager never works without its own.
PoolAccounted ==
  /\ Cardinality(holders) <= PoolSize
  /\ \A c \in Conns : c \in holders <=> loop[c] \in Holding
  /\ PM \in holders <=> pm \in {"spawning", "serving"}
  /\ pm \in {"unspawned", "acquiring"} => holders \cap GMs = {}

\* However short the pool is, every connection loop whose read ends comes to its end, and
\* the player manager gets through its start; a client that drips the bytes of a length
\* holds up its own loop at most.
NobodyHangs ==
  /\ \A c \in Conns :
       []<>~Hangs(c) => (loop[c] \in Stages ~> loop[c] \in Errors \cup {"Ok"})
  /\ pm = "acquiring" ~> pm \in {"serving", "stopped"}

A == INSTANCE Admissions WITH
       knocking    <- {c \in Conns : loop[c] \in Stages},
       seated      <- posted,
       turned_away <- {c \in Conns : loop[c] \in Errors}

\* The tasks implement the promise, and decide about everybody who lets them.
ImplementsAdmissions == A!Spec

=============================================================================
