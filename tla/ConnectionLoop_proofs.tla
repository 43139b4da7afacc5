----------------------- MODULE ConnectionLoop_proofs -----------------------
(* Proofs about ConnectionLoop, for any number of connections, users and game  *)
(* masters and a pool of any size: types, what becomes of a client, the pool,   *)
(* and that every step of the tasks is one of Admissions or changes nothing     *)
(* there.                                                                       *)
EXTENDS ConnectionLoop, FiniteSetTheorems, TLAPS

Kinds == {"VERSION", "AUTH_REQUEST", "AUTH_REJECT", "ACK"}

-----------------------------------------------------------------------------
\* Writing to a socket keeps the type of told and adds one message to what one client heard.
LEMMA Written ==
  ASSUME TypeOK, NEW c \in Conns, NEW type \in Kinds, Write(c, type)
  PROVE  /\ told' \in [Conns -> Seq(Kinds)]
         /\ \A d \in Conns, t \in Kinds :
              Heard(d, t)' <=> (Heard(d, t) \/ (d = c /\ t = type))
<1>1. told \in [Conns -> Seq(Kinds)]
  BY DEF TypeOK, Kinds
<1>2. told' = [told EXCEPT ![c] = Append(told[c], type)]
  BY DEF Write
<1>3. Append(told[c], type) \in Seq(Kinds)
  BY <1>1
<1>4. told' \in [Conns -> Seq(Kinds)]
  BY <1>1, <1>2, <1>3
<1>5. ASSUME NEW d \in Conns, NEW t \in Kinds
      PROVE  Heard(d, t)' <=> (Heard(d, t) \/ (d = c /\ t = type))
  <2>1. CASE d = c
    <3>1. told'[c] = Append(told[c], type)
      BY <1>1, <1>2
    <3>2. /\ DOMAIN told'[c] = DOMAIN told[c] \cup {Len(told[c]) + 1}
          /\ \A i \in DOMAIN told[c] : told'[c][i] = told[c][i]
          /\ told'[c][Len(told[c]) + 1] = type
      BY <1>1, <3>1
    <3> QED BY <2>1, <3>2 DEF Heard
  <2>2. CASE d # c
    <3>1. told'[d] = told[d]
      BY <1>1, <1>2, <2>2
    <3> QED BY <2>2, <3>1 DEF Heard
  <2> QED BY <2>1, <2>2
<1> QED BY <1>4, <1>5

\* A connection loop that goes on or returns does not touch the others.
LEMMA Moved ==
  ASSUME TypeOK, NEW c \in Conns, NEW s \in {"Ok"} \cup Stages \cup Errors, GoTo(c, s)
  PROVE  /\ loop' \in [Conns -> {"none", "Ok"} \cup Stages \cup Errors]
         /\ \A d \in Conns : loop'[d] = IF d = c THEN s ELSE loop[d]
BY DEF TypeOK, GoTo

-----------------------------------------------------------------------------
\* Init and every step keep every variable in its type.
THEOREM ConnectionTyped == Spec => []TypeOK
<1>1. Init => TypeOK
  BY ConnectionAssumption DEF Init, TypeOK
<1>2. TypeOK /\ [Next]_vars => TypeOK'
  <2> SUFFICES ASSUME TypeOK, [Next]_vars PROVE TypeOK'
    OBVIOUS
  <2> USE ConnectionAssumption DEF TypeOK
  <2>1. CASE Bind
    BY <2>1 DEF Bind, clientVars
  <2>2. CASE OpenPool
    BY <2>2 DEF OpenPool, clientVars
  <2>3. CASE ManagerAcquires
    BY <2>3 DEF ManagerAcquires, Hold, clientVars
  <2>4. CASE BeginServing
    BY <2>4 DEF BeginServing, clientVars
  <2>5. ASSUME NEW g \in GMs, SpawnGM(g) PROVE TypeOK'
    BY <2>5 DEF SpawnGM, Hold, clientVars
  <2>6. CASE ManagerPanics
    BY <2>6 DEF ManagerPanics, clientVars
  <2>7. ASSUME NEW g \in GMs, GMExits(g) PROVE TypeOK'
    BY <2>7 DEF GMExits, clientVars
  <2>8. ASSUME NEW c \in Conns, Accept(c) PROVE TypeOK'
    BY <2>8, Moved DEF Accept, Stages, clientVars
  <2>9. ASSUME NEW c \in Conns, SendVersion(c) PROVE TypeOK'
    <3>1. CASE Send(c, "version", "VERSION") /\ GoTo(c, "auth_request") /\ UNCHANGED holders
      BY <2>9, <3>1, Written, Moved DEF SendVersion, Send, Stages, Kinds
    <3>2. CASE SendFails(c, "version") /\ Return(c, "ErrorOnSend")
      BY <2>9, <3>2, Moved DEF SendVersion, SendFails, Return, Errors
    <3> QED BY <2>9, <3>1, <3>2 DEF SendVersion
  <2>10. ASSUME NEW c \in Conns, SendAuthRequest(c) PROVE TypeOK'
    <3>1. told' \in [Conns -> Seq(Kinds)]
      BY <2>10, Written DEF SendAuthRequest, Send, SendFails, Kinds
    <3> QED BY <2>10, <3>1, Moved DEF SendAuthRequest, Stages, Kinds
  <2>11. ASSUME NEW c \in Conns, Read(c) PROVE TypeOK'
    <3>1. Claimed(said[c]) \in Names
      BY DEF Claimed, Answers, NoAnswer
    <3>2. /\ loop' \in [Conns -> {"none", "Ok"} \cup Stages \cup Errors]
          /\ holders' \subseteq holders
      BY <2>11, Moved DEF Read, Return, Stages, Errors
    <3> QED BY <2>11, <3>1, <3>2 DEF Read, clientVars
  <2>12. ASSUME NEW c \in Conns, Acquire(c) PROVE TypeOK'
    BY <2>12, Moved DEF Acquire, Hold, Return, Stages, Errors, clientVars
  <2>13. ASSUME NEW c \in Conns, Select(c) PROVE TypeOK'
    BY <2>13, Moved DEF Select, Stages, clientVars
  <2>14. ASSUME NEW c \in Conns, Reject(c) PROVE TypeOK'
    <3>1. CASE Send(c, "reject", "AUTH_REJECT") /\ gone' = gone \cup {c}
               /\ Return(c, "PlayerNotFoundByName")
      BY <2>14, <3>1, Written, Moved DEF Reject, Send, Return, Errors, Kinds
    <3>2. CASE SendFails(c, "reject") /\ UNCHANGED gone /\ Return(c, "ErrorOnSend")
      BY <2>14, <3>2, Moved DEF Reject, SendFails, Return, Errors
    <3> QED BY <2>14, <3>1, <3>2 DEF Reject
  <2>15. ASSUME NEW c \in Conns, Ack(c) PROVE TypeOK'
    <3>1. CASE Send(c, "ack", "ACK") /\ GoTo(c, "post") /\ UNCHANGED holders
      BY <2>15, <3>1, Written, Moved DEF Ack, Send, Stages, Kinds
    <3>2. CASE SendFails(c, "ack") /\ Return(c, "ErrorOnSend")
      BY <2>15, <3>2, Moved DEF Ack, SendFails, Return, Errors
    <3> QED BY <2>15, <3>1, <3>2 DEF Ack
  <2>16. ASSUME NEW c \in Conns, Post(c) PROVE TypeOK'
    BY <2>16, Moved DEF Post, Player, Return, Errors, clientVars
  <2>17. ASSUME NEW c \in Conns, Answer(c) PROVE TypeOK'
    BY <2>17 DEF Answer, taskVars
  <2>18. ASSUME NEW c \in Conns, Leave(c) PROVE TypeOK'
    BY <2>18 DEF Leave, taskVars
  <2>19. ASSUME NEW n \in Names, AddUser(n) PROVE TypeOK'
    BY <2>19 DEF AddUser, taskVars, clientVars
  <2>20. CASE UNCHANGED vars
    BY <2>20 DEF vars, taskVars, clientVars
  <2> QED
    BY <2>1, <2>2, <2>3, <2>4, <2>5, <2>6, <2>7, <2>8, <2>9, <2>10, <2>11, <2>12, <2>13,
       <2>14, <2>15, <2>16, <2>17, <2>18, <2>19, <2>20
       DEF Next, StartUp, ConnectionStep
<1> QED BY <1>1, <1>2, PTL DEF Spec

-----------------------------------------------------------------------------
(* The pool. *)

\* There is no player manager before the server accepts connections.
Started == server # "accepting" => pm = "unspawned"

PoolInv == TypeOK /\ Started /\ PoolAccounted

\* Only what was free is held, so the pool is not overdrawn by one more holder, or one less.
LEMMA Within ==
  ASSUME PoolInv, NEW t, Hold(t) \/ holders' = holders \ {t} \/ UNCHANGED holders
  PROVE  Cardinality(holders') <= PoolSize
<1>1. IsFiniteSet(holders)
  <2>1. IsFiniteSet(Conns \cup GMs \cup {PM})
    BY FS_Union, FS_Singleton, ConnectionAssumption
  <2> QED BY <2>1, FS_Subset DEF PoolInv, TypeOK
<1>2. Cardinality(holders) \in Nat /\ PoolSize \in Nat /\ Cardinality(holders) <= PoolSize
  BY <1>1, FS_CardinalityType, ConnectionAssumption DEF PoolInv, PoolAccounted
<1>3. CASE Hold(t)
  BY <1>1, <1>2, <1>3, FS_AddElement DEF Hold, Free
<1>4. CASE holders' = holders \ {t}
  BY <1>1, <1>2, <1>4, FS_RemoveElement
<1>5. CASE UNCHANGED holders
  BY <1>2, <1>5
<1> QED BY <1>3, <1>4, <1>5

\* A connection loop that holds a connection exactly at the stages of Holding before a step
\* and after it leaves the accounts in order.
LEMMA LoopKeepsAccounts ==
  ASSUME PoolInv, TypeOK', NEW c \in Conns, NEW s \in {"Ok"} \cup Stages \cup Errors,
         GoTo(c, s), UNCHANGED <<server, pm>>,
         \/ UNCHANGED holders /\ (loop[c] \in Holding <=> s \in Holding)
         \/ holders' = holders \ {c} /\ s \notin Holding
         \/ Hold(c) /\ s \in Holding
  PROVE  PoolInv'
<1>1. Started'
  BY DEF PoolInv, Started
<1>2. Cardinality(holders') <= PoolSize
  BY Within
<1>3. \A d \in Conns : d \in holders' <=> loop'[d] \in Holding
  BY Moved DEF PoolInv, PoolAccounted, Hold
<1>4. c # PM /\ c \notin GMs
  BY ConnectionAssumption
<1>5. PM \in holders' <=> PM \in holders
  BY <1>4 DEF Hold
<1>6. holders' \cap GMs = holders \cap GMs
  BY <1>4 DEF Hold
<1> QED BY <1>1, <1>2, <1>3, <1>5, <1>6 DEF PoolInv, PoolAccounted

\* A task other than a connection loop leaves the loops' accounts as they are.
LEMMA OthersKeepAccounts ==
  ASSUME PoolInv, TypeOK', Started', NEW t \in GMs \cup {PM}, UNCHANGED loop,
         Hold(t) \/ holders' = holders \ {t} \/ UNCHANGED holders,
         PM \in holders' <=> pm' \in {"spawning", "serving"},
         pm' \in {"unspawned", "acquiring"} => holders' \cap GMs = {}
  PROVE  PoolInv'
<1>1. Cardinality(holders') <= PoolSize
  BY Within
<1>2. \A d \in Conns : d \in holders' <=> d \in holders
  BY ConnectionAssumption DEF Hold
<1> QED BY <1>1, <1>2 DEF PoolInv, PoolAccounted

\* The accounts, types and start included, are in order after every step.
LEMMA PoolInvariant == Spec => []PoolInv
<1>1. Init => PoolInv
  <2> SUFFICES ASSUME Init PROVE PoolInv
    OBVIOUS
  <2>1. TypeOK
    BY ConnectionAssumption DEF Init, TypeOK
  <2>2. Cardinality({}) = 0 /\ PoolSize \in Nat
    BY FS_EmptySet, ConnectionAssumption
  <2> QED BY <2>1, <2>2 DEF Init, PoolInv, Started, PoolAccounted, Holding
<1>2. PoolInv /\ TypeOK' /\ [Next]_vars => PoolInv'
  <2> SUFFICES ASSUME PoolInv, TypeOK', [Next]_vars PROVE PoolInv'
    OBVIOUS
  <2>0. /\ TypeOK /\ Started
        /\ \A c \in Conns : c \in holders <=> loop[c] \in Holding
        /\ PM \in holders <=> pm \in {"spawning", "serving"}
        /\ pm \in {"unspawned", "acquiring"} => holders \cap GMs = {}
    BY DEF PoolInv, PoolAccounted
  <2>00. PM \notin GMs
    BY ConnectionAssumption
  <2>1. CASE Bind
    BY <2>0, <2>1, OthersKeepAccounts DEF Bind, Started
  <2>2. CASE OpenPool
    BY <2>0, <2>2, OthersKeepAccounts DEF OpenPool, Started
  <2>3. CASE ManagerAcquires
    BY <2>0, <2>00, <2>3, OthersKeepAccounts DEF ManagerAcquires, Hold, Started
  <2>4. CASE BeginServing
    BY <2>0, <2>4, OthersKeepAccounts DEF BeginServing, Started
  <2>5. ASSUME NEW g \in GMs, SpawnGM(g) PROVE PoolInv'
    BY <2>0, <2>00, <2>5, OthersKeepAccounts DEF SpawnGM, Hold, Started
  <2>6. CASE ManagerPanics
    BY <2>0, <2>00, <2>6, OthersKeepAccounts DEF ManagerPanics, Started
  <2>7. ASSUME NEW g \in GMs, GMExits(g) PROVE PoolInv'
    BY <2>0, <2>00, <2>7, OthersKeepAccounts DEF GMExits, Started
  <2>8. ASSUME NEW c \in Conns, Accept(c) PROVE PoolInv'
    BY <2>8, LoopKeepsAccounts DEF Accept, Stages, Holding
  <2>9. ASSUME NEW c \in Conns, SendVersion(c) PROVE PoolInv'
    BY <2>9, LoopKeepsAccounts
       DEF SendVersion, Send, SendFails, Return, Stages, Errors, Holding
  <2>10. ASSUME NEW c \in Conns, SendAuthRequest(c) PROVE PoolInv'
    BY <2>10, LoopKeepsAccounts
       DEF SendAuthRequest, Send, SendFails, Stages, Holding
  <2>11. ASSUME NEW c \in Conns, Read(c) PROVE PoolInv'
    BY <2>11, LoopKeepsAccounts
       DEF Read, Return, Stages, Errors, ReadErrors, Holding
  <2>12. ASSUME NEW c \in Conns, Acquire(c) PROVE PoolInv'
    BY <2>12, LoopKeepsAccounts DEF Acquire, Return, Stages, Errors, Holding
  <2>13. ASSUME NEW c \in Conns, Select(c) PROVE PoolInv'
    BY <2>13, LoopKeepsAccounts DEF Select, Stages, Holding
  <2>14. ASSUME NEW c \in Conns, Reject(c) PROVE PoolInv'
    BY <2>14, LoopKeepsAccounts DEF Reject, Return, Errors, Holding
  <2>15. ASSUME NEW c \in Conns, Ack(c) PROVE PoolInv'
    BY <2>15, LoopKeepsAccounts
       DEF Ack, Send, SendFails, Return, Stages, Errors, Holding
  <2>16. ASSUME NEW c \in Conns, Post(c) PROVE PoolInv'
    BY <2>16, LoopKeepsAccounts DEF Post, Return, Errors, Holding
  <2>17. ASSUME NEW c \in Conns, Answer(c) PROVE PoolInv'
    BY <2>17 DEF Answer, taskVars, PoolInv, Started, PoolAccounted
  <2>18. ASSUME NEW c \in Conns, Leave(c) PROVE PoolInv'
    BY <2>18 DEF Leave, taskVars, PoolInv, Started, PoolAccounted
  <2>19. ASSUME NEW n \in Names, AddUser(n) PROVE PoolInv'
    BY <2>19 DEF AddUser, taskVars, PoolInv, Started, PoolAccounted
  <2>20. CASE UNCHANGED vars
    BY <2>20 DEF vars, taskVars, PoolInv, Started, PoolAccounted
  <2> QED
    BY <2>1, <2>2, <2>3, <2>4, <2>5, <2>6, <2>7, <2>8, <2>9, <2>10, <2>11, <2>12, <2>13,
       <2>14, <2>15, <2>16, <2>17, <2>18, <2>19, <2>20
       DEF Next, StartUp, ConnectionStep
<1> QED BY <1>1, <1>2, ConnectionTyped, PTL DEF Spec

\* The pool's connections are never overdrawn, and whoever holds one is entitled to it.
THEOREM PoolInOrder == Spec => []PoolAccounted
<1>1. PoolInv => PoolAccounted
  BY DEF PoolInv
<1> QED BY <1>1, PoolInvariant, PTL

-----------------------------------------------------------------------------
(* What becomes of a client. *)

\* From the answer on a connection loop knows its user; it says yes to registered users only.
Named(c) ==
  /\ loop[c] \in {"acquire"} \cup Holding =>
       said[c] # NoAnswer /\ username[c] = Claimed(said[c])
  /\ loop[c] \in {"ack", "post"} => username[c] \in players
  /\ loop[c] = "post" => Heard(c, "ACK")

\* VerdictsFinal for one client.
Verdict(c) ==
  /\ Heard(c, "AUTH_REJECT") =>
       loop[c] = "PlayerNotFoundByName" /\ c \in gone /\ ~Heard(c, "ACK")
  /\ Heard(c, "ACK") =>
       \/ loop[c] = "post"
       \/ loop[c] = "Ok" /\ Player(c) \in posted
       \/ loop[c] = "PlayerManagerSendFailed" /\ pm = "stopped"

ClientInv ==
  /\ TypeOK
  /\ \A c \in Conns : Named(c) /\ Verdict(c)
  /\ SeatedRightly

\* A step leaves a client and its connection loop alone, but for an answer it may give.
Same(d) ==
  /\ loop'[d] = loop[d]
  /\ username'[d] = username[d]
  /\ \A t \in {"ACK", "AUTH_REJECT"} : Heard(d, t)' <=> Heard(d, t)
  /\ (said[d] = NoAnswer /\ loop[d] \notin {"acquire"} \cup Holding) \/ said'[d] = said[d]

\* It takes nothing back that verdicts rest on.
Monotone ==
  /\ gone \subseteq gone' /\ posted \subseteq posted' /\ players \subseteq players'
  /\ pm = "stopped" => pm' = "stopped"

\* Such a step leaves the client's verdict alone.
LEMMA Unmoved ==
  ASSUME ClientInv, NEW d \in Conns, Same(d), Monotone
  PROVE  Named(d)' /\ Verdict(d)'
<1>1. Named(d) /\ Verdict(d)
  BY DEF ClientInv
<1>2. Named(d)'
  BY <1>1 DEF Named, Claimed, Same, Monotone
<1>3. Verdict(d)'
  BY <1>1 DEF Verdict, Player, Same, Monotone
<1> QED BY <1>2, <1>3

\* A step that leaves the seated alone keeps them seated rightly.
LEMMA StillSeated ==
  ASSUME ClientInv, posted' = posted, players \subseteq players',
         \A d \in Conns : loop[d] = "Ok" => loop'[d] = "Ok",
         \A d \in Conns : said[d] # NoAnswer => said'[d] = said[d],
         \A d \in Conns : Heard(d, "ACK") => Heard(d, "ACK")'
  PROVE  SeatedRightly'
<1>1. \A p \in posted : p.conn \in Conns
  BY DEF ClientInv, TypeOK
<1> QED BY <1>1 DEF ClientInv, SeatedRightly, Claimed

\* A connection loop's step that is not the hand-over, and tells its client nothing final.
LEMMA LoopKeepsVerdicts ==
  ASSUME ClientInv, TypeOK', NEW c \in Conns, NEW s \in Stages \cup Errors, GoTo(c, s),
         loop[c] \in {"none"} \cup (Stages \ {"post"}),
         UNCHANGED <<pm, posted, players, said, gone>>,
         \A d \in Conns \ {c} : username'[d] = username[d],
         \A d \in Conns, t \in {"ACK", "AUTH_REJECT"} : Heard(d, t)' <=> Heard(d, t),
         Named(c)'
  PROVE  ClientInv'
<1>1. \A d \in Conns : loop'[d] = IF d = c THEN s ELSE loop[d]
  BY Moved DEF ClientInv
<1>2. ASSUME NEW d \in Conns, d # c PROVE Named(d)' /\ Verdict(d)'
  <2>1. Same(d) /\ Monotone
    BY <1>1, <1>2 DEF Same, Monotone
  <2> QED BY <2>1, Unmoved
<1>3. ~Heard(c, "ACK") /\ ~Heard(c, "AUTH_REJECT")
  BY DEF ClientInv, Verdict, Stages
<1>4. Verdict(c)'
  BY <1>3 DEF Verdict
<1>5. SeatedRightly'
  BY <1>1, StillSeated DEF Stages
<1> QED BY <1>2, <1>4, <1>5 DEF ClientInv

\* A step of no connection loop keeps every verdict.
LEMMA OthersKeepVerdicts ==
  ASSUME ClientInv, TypeOK', UNCHANGED <<loop, username, posted, told>>, Monotone,
         \A d \in Conns :
           (said[d] = NoAnswer /\ loop[d] \notin {"acquire"} \cup Holding) \/ said'[d] = said[d]
  PROVE  ClientInv'
<1>1. \A d \in Conns, t \in Kinds : Heard(d, t)' <=> Heard(d, t)
  BY DEF Heard
<1>2. ASSUME NEW d \in Conns PROVE Named(d)' /\ Verdict(d)'
  <2>1. Same(d)
    BY <1>1 DEF Same, Kinds
  <2> QED BY <2>1, Unmoved
<1>3. SeatedRightly'
  BY <1>1, StillSeated DEF Kinds, Monotone
<1> QED BY <1>2, <1>3 DEF ClientInv

\* Every step keeps the verdicts, and what they rest on.
LEMMA ClientInvariant == Spec => []ClientInv
<1>1. Init => ClientInv
  <2> SUFFICES ASSUME Init PROVE ClientInv
    OBVIOUS
  <2>1. TypeOK
    BY ConnectionAssumption DEF Init, TypeOK
  <2>2. ASSUME NEW c \in Conns PROVE Named(c) /\ Verdict(c)
    BY DEF Init, Named, Verdict, Heard, Holding
  <2> QED BY <2>1, <2>2 DEF Init, ClientInv, SeatedRightly
<1>2. ClientInv /\ PoolInv /\ TypeOK' /\ [Next]_vars => ClientInv'
  <2> SUFFICES ASSUME ClientInv, PoolInv, TypeOK', [Next]_vars PROVE ClientInv'
    OBVIOUS
  <2>0. TypeOK /\ \A c \in Conns : Named(c) /\ Verdict(c)
    BY DEF ClientInv
  <2>1. CASE Bind
    BY <2>1, OthersKeepVerdicts DEF Bind, clientVars, Monotone
  <2>2. CASE OpenPool
    BY <2>2, OthersKeepVerdicts DEF OpenPool, clientVars, Monotone, PoolInv, Started
  <2>3. CASE ManagerAcquires
    BY <2>3, OthersKeepVerdicts DEF ManagerAcquires, clientVars, Monotone
  <2>4. CASE BeginServing
    BY <2>4, OthersKeepVerdicts DEF BeginServing, clientVars, Monotone
  <2>5. ASSUME NEW g \in GMs, SpawnGM(g) PROVE ClientInv'
    BY <2>5, OthersKeepVerdicts DEF SpawnGM, clientVars, Monotone
  <2>6. CASE ManagerPanics
    BY <2>6, OthersKeepVerdicts DEF ManagerPanics, clientVars, Monotone
  <2>7. ASSUME NEW g \in GMs, GMExits(g) PROVE ClientInv'
    BY <2>7, OthersKeepVerdicts DEF GMExits, clientVars, Monotone
  <2>8. ASSUME NEW c \in Conns, Accept(c) PROVE ClientInv'
    <3>1. \A d \in Conns, t \in Kinds : Heard(d, t)' <=> Heard(d, t)
      BY <2>8 DEF Accept, Heard, clientVars
    <3>2. Named(c)'
      BY <2>0, <2>8, Moved DEF Accept, Named, Stages, Holding
    <3> QED BY <2>8, <3>1, <3>2, LoopKeepsVerdicts DEF Accept, Stages, Kinds, clientVars
  <2>9. ASSUME NEW c \in Conns, SendVersion(c) PROVE ClientInv'
    <3>1. \A d \in Conns, t \in {"ACK", "AUTH_REJECT"} : Heard(d, t)' <=> Heard(d, t)
      BY <2>0, <2>9, Written DEF SendVersion, Send, SendFails, Heard, Kinds
    <3>2. PICK s \in {"auth_request", "ErrorOnSend"} : GoTo(c, s)
      BY <2>9 DEF SendVersion, Return
    <3>3. Named(c)'
      BY <2>0, <3>2, Moved DEF Named, Stages, Errors, Holding
    <3> QED BY <2>9, <3>1, <3>2, <3>3, LoopKeepsVerdicts
            DEF SendVersion, Send, SendFails, Stages, Errors
  <2>10. ASSUME NEW c \in Conns, SendAuthRequest(c) PROVE ClientInv'
    <3>1. \A d \in Conns, t \in {"ACK", "AUTH_REJECT"} : Heard(d, t)' <=> Heard(d, t)
      BY <2>0, <2>10, Written DEF SendAuthRequest, Send, SendFails, Heard, Kinds
    <3>2. Named(c)'
      BY <2>0, <2>10, Moved DEF SendAuthRequest, Named, Stages, Holding
    <3> QED BY <2>10, <3>1, <3>2, LoopKeepsVerdicts
            DEF SendAuthRequest, Send, SendFails, Stages
  <2>11. ASSUME NEW c \in Conns, Read(c) PROVE ClientInv'
    <3>1. \A d \in Conns, t \in {"ACK", "AUTH_REJECT"} : Heard(d, t)' <=> Heard(d, t)
      BY <2>11 DEF Read, Heard, clientVars
    <3>2. PICK s \in {"acquire"} \cup ReadErrors :
            /\ GoTo(c, s)
            /\ s = "acquire" =>
                 said[c] # NoAnswer /\ username' = [username EXCEPT ![c] = Claimed(said[c])]
      BY <2>11 DEF Read, Return, ReadErrors
    <3>3. Named(c)'
      BY <2>0, <2>11, <3>2, Moved
         DEF Read, Named, Stages, Errors, ReadErrors, Holding, TypeOK, Claimed, clientVars
    <3>4. \A d \in Conns \ {c} : username'[d] = username[d]
      BY <2>0, <2>11 DEF Read, TypeOK
    <3> QED BY <2>11, <3>1, <3>2, <3>3, <3>4, LoopKeepsVerdicts
            DEF Read, Stages, Errors, clientVars
  <2>12. ASSUME NEW c \in Conns, Acquire(c) PROVE ClientInv'
    <3>1. \A d \in Conns, t \in {"ACK", "AUTH_REJECT"} : Heard(d, t)' <=> Heard(d, t)
      BY <2>12 DEF Acquire, Heard, clientVars
    <3>2. PICK s \in {"select", "DbCannotOpenDatabase"} : GoTo(c, s)
      BY <2>12 DEF Acquire, Return
    <3>3. Named(c)'
      BY <2>0, <2>12, <3>2, Moved
         DEF Acquire, Named, Stages, Errors, Holding, Claimed, clientVars
    <3> QED BY <2>12, <3>1, <3>2, <3>3, LoopKeepsVerdicts
            DEF Acquire, Stages, Errors, clientVars
  <2>13. ASSUME NEW c \in Conns, Select(c) PROVE ClientInv'
    <3>1. \A d \in Conns, t \in {"ACK", "AUTH_REJECT"} : Heard(d, t)' <=> Heard(d, t)
      BY <2>13 DEF Select, Heard, clientVars
    <3>2. PICK s \in {"ack", "reject"} : GoTo(c, s) /\ (s = "ack" => username[c] \in players)
      BY <2>13 DEF Select
    <3>3. Named(c)'
      BY <2>0, <2>13, <3>2, Moved
         DEF Select, Named, Stages, Holding, Claimed, clientVars
    <3> QED BY <2>13, <3>1, <3>2, <3>3, LoopKeepsVerdicts
            DEF Select, Stages, clientVars
  <2>14. ASSUME NEW c \in Conns, Reject(c) PROVE ClientInv'
    <3>0. ~Heard(c, "ACK") /\ ~Heard(c, "AUTH_REJECT")
      BY <2>0, <2>14 DEF Verdict, Reject, Send, SendFails
    <3>1. CASE Send(c, "reject", "AUTH_REJECT") /\ gone' = gone \cup {c}
               /\ Return(c, "PlayerNotFoundByName")
      <4>1. \A d \in Conns, t \in Kinds :
              Heard(d, t)' <=> (Heard(d, t) \/ (d = c /\ t = "AUTH_REJECT"))
        BY <2>0, <3>1, Written DEF Send, Kinds
      <4>2. \A d \in Conns : loop'[d] = IF d = c THEN "PlayerNotFoundByName" ELSE loop[d]
        BY <2>0, <3>1, Moved DEF Return, Errors
      <4>3. ASSUME NEW d \in Conns, d # c PROVE Named(d)' /\ Verdict(d)'
        <5>1. Same(d) /\ Monotone
          BY <2>14, <3>1, <4>1, <4>2, <4>3 DEF Reject, Kinds, Same, Monotone
        <5> QED BY <5>1, Unmoved
      <4>4. Named(c)' /\ Verdict(c)'
        BY <3>0, <3>1, <4>1, <4>2 DEF Named, Verdict, Holding, Kinds
      <4>5. SeatedRightly'
        BY <2>14, <3>1, <4>1, <4>2, StillSeated DEF Reject, Send, Kinds
      <4> QED BY <4>3, <4>4, <4>5 DEF ClientInv
    <3>2. CASE SendFails(c, "reject") /\ UNCHANGED gone /\ Return(c, "ErrorOnSend")
      <4>1. \A d \in Conns, t \in {"ACK", "AUTH_REJECT"} : Heard(d, t)' <=> Heard(d, t)
        BY <3>2 DEF SendFails, Heard
      <4>2. Named(c)'
        BY <2>0, <3>2, Moved DEF Return, Named, Errors, Holding
      <4> QED BY <2>14, <3>2, <4>1, <4>2, LoopKeepsVerdicts
              DEF Reject, SendFails, Return, Stages, Errors
    <3> QED BY <2>14, <3>1, <3>2 DEF Reject
  <2>15. ASSUME NEW c \in Conns, Ack(c) PROVE ClientInv'
    <3>0. ~Heard(c, "ACK") /\ ~Heard(c, "AUTH_REJECT") /\ Named(c)
      BY <2>0, <2>15 DEF Verdict, Ack, Send, SendFails
    <3>1. CASE Send(c, "ack", "ACK") /\ GoTo(c, "post")
      <4>1. \A d \in Conns, t \in Kinds :
              Heard(d, t)' <=> (Heard(d, t) \/ (d = c /\ t = "ACK"))
        BY <2>0, <3>1, Written DEF Send, Kinds
      <4>2. \A d \in Conns : loop'[d] = IF d = c THEN "post" ELSE loop[d]
        BY <2>0, <3>1, Moved DEF Stages
      <4>3. ASSUME NEW d \in Conns, d # c PROVE Named(d)' /\ Verdict(d)'
        <5>1. Same(d) /\ Monotone
          BY <2>15, <4>1, <4>2, <4>3 DEF Ack, Kinds, Same, Monotone
        <5> QED BY <5>1, Unmoved
      <4>4. Named(c)'
        BY <2>15, <3>0, <3>1, <4>1, <4>2 DEF Ack, Send, Named, Claimed, Holding, Kinds
      <4>5. Verdict(c)'
        BY <3>0, <4>1, <4>2 DEF Verdict, Kinds
      <4>6. SeatedRightly'
        BY <2>15, <3>1, <4>1, <4>2, StillSeated DEF Ack, Send, Kinds
      <4> QED BY <4>3, <4>4, <4>5, <4>6 DEF ClientInv
    <3>2. CASE SendFails(c, "ack") /\ Return(c, "ErrorOnSend")
      <4>1. \A d \in Conns, t \in {"ACK", "AUTH_REJECT"} : Heard(d, t)' <=> Heard(d, t)
        BY <3>2 DEF SendFails, Heard
      <4>2. Named(c)'
        BY <2>0, <3>2, Moved DEF Return, Named, Errors, Holding
      <4> QED BY <2>15, <3>2, <4>1, <4>2, LoopKeepsVerdicts
              DEF Ack, SendFails, Return, Stages, Errors
    <3> QED BY <2>15, <3>1, <3>2 DEF Ack
  <2>16. ASSUME NEW c \in Conns, Post(c) PROVE ClientInv'
    <3>0. Named(c) /\ Verdict(c) /\ loop[c] = "post"
      BY <2>0, <2>16 DEF Post
    <3>1. \A d \in Conns, t \in {"ACK", "AUTH_REJECT"} : Heard(d, t)' <=> Heard(d, t)
      BY <2>16 DEF Post, Heard, clientVars
    <3>2. PICK s \in {"Ok", "PlayerManagerSendFailed"} :
            /\ GoTo(c, s)
            /\ s = "Ok" => posted' = posted \cup {Player(c)}
            /\ s = "PlayerManagerSendFailed" => pm = "stopped" /\ posted' = posted
      BY <2>16 DEF Post, Return
    <3>3. \A d \in Conns : loop'[d] = IF d = c THEN s ELSE loop[d]
      BY <2>0, <3>2, Moved DEF Errors
    <3>4. ASSUME NEW d \in Conns, d # c PROVE Named(d)' /\ Verdict(d)'
      <4>1. Same(d) /\ Monotone
        BY <2>16, <3>1, <3>2, <3>3, <3>4 DEF Post, clientVars, Same, Monotone
      <4> QED BY <4>1, Unmoved
    <3>5. Named(c)'
      BY <3>3 DEF Named, Holding
    <3>6. Verdict(c)'
      BY <2>16, <3>0, <3>1, <3>2, <3>3 DEF Post, Named, Verdict, Player
    <3>7. SeatedRightly'
      <4>1. CASE s = "Ok"
        <5>1. ASSUME NEW p \in posted'
              PROVE  /\ p.name \in players'
                     /\ said'[p.conn] # NoAnswer /\ p.name = Claimed(said'[p.conn])
                     /\ loop'[p.conn] = "Ok"
                     /\ Heard(p.conn, "ACK")'
          <6>1. CASE p \in posted
            <7>1. p.conn \in Conns
              BY <2>0, <6>1 DEF TypeOK
            <7> QED BY <2>16, <3>1, <3>3, <4>1, <6>1, <7>1
                    DEF ClientInv, SeatedRightly, Post, clientVars
          <6>2. CASE p = Player(c)
            BY <2>16, <3>0, <3>1, <3>3, <4>1, <6>2 DEF Player, Named, Holding, Post, clientVars
          <6> QED BY <3>2, <4>1, <5>1, <6>1, <6>2
        <5> QED BY <5>1 DEF SeatedRightly, Claimed
      <4>2. CASE s = "PlayerManagerSendFailed"
        BY <2>16, <3>0, <3>1, <3>2, <3>3, <4>2, StillSeated DEF Post, clientVars
      <4> QED BY <4>1, <4>2
    <3> QED BY <3>4, <3>5, <3>6, <3>7 DEF ClientInv
  <2>17. ASSUME NEW c \in Conns, Answer(c) PROVE ClientInv'
    <3>1. PICK m \in Answers : said' = [said EXCEPT ![c] = m]
      BY <2>17 DEF Answer
    <3>2. \A d \in Conns : said'[d] = IF d = c THEN m ELSE said[d]
      BY <2>0, <3>1 DEF TypeOK
    <3>3. said[c] = NoAnswer /\ loop[c] \notin {"acquire"} \cup Holding
      BY <2>17 DEF Answer, Holding
    <3> QED BY <2>17, <3>2, <3>3, OthersKeepVerdicts DEF Answer, taskVars, Monotone
  <2>18. ASSUME NEW c \in Conns, Leave(c) PROVE ClientInv'
    BY <2>18, OthersKeepVerdicts DEF Leave, taskVars, Monotone
  <2>19. ASSUME NEW n \in Names, AddUser(n) PROVE ClientInv'
    BY <2>19, OthersKeepVerdicts DEF AddUser, taskVars, clientVars, Monotone
  <2>20. CASE UNCHANGED vars
    BY <2>20, OthersKeepVerdicts DEF vars, taskVars, clientVars, Monotone
  <2> QED
    BY <2>1, <2>2, <2>3, <2>4, <2>5, <2>6, <2>7, <2>8, <2>9, <2>10, <2>11, <2>12, <2>13,
       <2>14, <2>15, <2>16, <2>17, <2>18, <2>19, <2>20
       DEF Next, StartUp, ConnectionStep
<1> QED BY <1>1, <1>2, ConnectionTyped, PoolInvariant, PTL DEF Spec

\* Nobody is told two things, seated unregistered or under another client's name, and an
\* ACK stands unless the player manager is over.
THEOREM VerdictsStand == Spec => []VerdictStands
<1>1. ClientInv => VerdictStands
  BY DEF ClientInv, Verdict, VerdictStands, VerdictsFinal
<1> QED BY <1>1, ClientInvariant, PTL

-----------------------------------------------------------------------------
(* The promise is kept, step by step. *)

Knocking   == {c \in Conns : loop[c] \in Stages}
TurnedAway == {c \in Conns : loop[c] \in Errors}

\* A connection loop that goes on, or a step of no loop, changes nothing in Admissions.
LEMMA Stutters ==
  ASSUME UNCHANGED <<players, posted>>,
         \A c \in Conns : loop'[c] = loop[c] \/ (loop[c] \in Stages /\ loop'[c] \in Stages)
  PROVE  UNCHANGED A!avars
<1>1. Stages \cap Errors = {}
  BY DEF Stages, Errors, ReadErrors
<1>2. Knocking' = Knocking /\ TurnedAway' = TurnedAway
  BY <1>1 DEF Knocking, TurnedAway
<1> QED BY <1>2 DEF A!avars, Knocking, TurnedAway

\* A connection loop that returns an error turns its client away.
LEMMA TurnsAway ==
  ASSUME TypeOK, NEW c \in Conns, loop[c] \in Stages, NEW e \in Errors, GoTo(c, e),
         UNCHANGED <<players, posted>>
  PROVE  A!TurnAway(c)
<1>1. \A d \in Conns : loop'[d] = IF d = c THEN e ELSE loop[d]
  BY Moved
<1>2. Stages \cap Errors = {}
  BY DEF Stages, Errors, ReadErrors
<1>3. Knocking' = Knocking \ {c} /\ TurnedAway' = TurnedAway \cup {c} /\ c \in Knocking
  BY <1>1, <1>2 DEF Knocking, TurnedAway
<1> QED BY <1>3 DEF A!TurnAway, Knocking, TurnedAway

\* A connection loop's step within its stages, or to an error, is one of Admissions or none.
LEMMA LoopImplements ==
  ASSUME TypeOK, NEW c \in Conns, loop[c] \in Stages, NEW s \in Stages \cup Errors, GoTo(c, s),
         UNCHANGED <<players, posted>>
  PROVE  [A!Next]_(A!avars)
<1>1. CASE s \in Stages
  <2>1. UNCHANGED A!avars
    BY <1>1, Moved, Stutters
  <2> QED BY <2>1
<1>2. CASE s \in Errors
  <2>1. A!TurnAway(c)
    BY <1>2, TurnsAway
  <2> QED BY <2>1 DEF A!Next
<1> QED BY <1>1, <1>2

\* Every connection is taken in or turned away once, as Admissions has it: the initial
\* states are its initial states, and every step is one of its steps or none.
THEOREM AdmittedStepByStep == Spec => A!Init /\ [][A!Next]_(A!avars)
<1>1. Init => A!Init
  <2> SUFFICES ASSUME Init PROVE A!Init
    OBVIOUS
  <2>1. Knocking = {} /\ TurnedAway = {}
    BY DEF Init, Knocking, TurnedAway, Stages, Errors, ReadErrors
  <2> QED BY <2>1 DEF Init, A!Init, Knocking, TurnedAway
<1>2. ClientInv /\ [Next]_vars => [A!Next]_(A!avars)
  <2> SUFFICES ASSUME ClientInv, [Next]_vars PROVE [A!Next]_(A!avars)
    OBVIOUS
  <2>0. TypeOK /\ SeatedRightly /\ \A c \in Conns : Named(c)
    BY DEF ClientInv
  <2>1. ASSUME UNCHANGED <<loop, players, posted>> PROVE [A!Next]_(A!avars)
    <3>1. UNCHANGED A!avars
      BY <2>1, Stutters
    <3> QED BY <3>1
  <2>2. CASE StartUp
    BY <2>1, <2>2 DEF StartUp, Bind, OpenPool, ManagerAcquires, BeginServing, SpawnGM
  <2>3. CASE ManagerPanics
    BY <2>1, <2>3 DEF ManagerPanics
  <2>4. ASSUME NEW g \in GMs, GMExits(g) PROVE [A!Next]_(A!avars)
    BY <2>1, <2>4 DEF GMExits
  <2>5. ASSUME NEW c \in Conns, Accept(c) PROVE [A!Next]_(A!avars)
    <3>1. \A d \in Conns : loop'[d] = IF d = c THEN "version" ELSE loop[d]
      BY <2>0, <2>5, Moved DEF Accept, Stages
    <3>2. c \notin Knocking \cup TurnedAway
      BY <2>5 DEF Accept, Knocking, TurnedAway, Stages, Errors, ReadErrors
    <3>3. \A p \in posted : p.conn # c
      BY <2>0, <2>5 DEF Accept, SeatedRightly
    <3>4. Knocking' = Knocking \cup {c} /\ TurnedAway' = TurnedAway
      BY <2>5, <3>1 DEF Accept, Knocking, TurnedAway, Stages, Errors, ReadErrors
    <3>5. A!Knock(c)
      BY <2>5, <3>2, <3>3, <3>4 DEF Accept, A!Knock, A!Known, Knocking, TurnedAway
    <3> QED BY <3>5 DEF A!Next
  <2>6. ASSUME NEW c \in Conns, SendVersion(c) PROVE [A!Next]_(A!avars)
    BY <2>0, <2>6, LoopImplements
       DEF SendVersion, Send, SendFails, Return, Stages, Errors
  <2>7. ASSUME NEW c \in Conns, SendAuthRequest(c) PROVE [A!Next]_(A!avars)
    BY <2>0, <2>7, LoopImplements DEF SendAuthRequest, Send, SendFails, Stages
  <2>8. ASSUME NEW c \in Conns, Read(c) PROVE [A!Next]_(A!avars)
    BY <2>0, <2>8, LoopImplements DEF Read, Return, Stages, Errors
  <2>9. ASSUME NEW c \in Conns, Acquire(c) PROVE [A!Next]_(A!avars)
    BY <2>0, <2>9, LoopImplements DEF Acquire, Return, Stages, Errors
  <2>10. ASSUME NEW c \in Conns, Select(c) PROVE [A!Next]_(A!avars)
    BY <2>0, <2>10, LoopImplements DEF Select, Stages
  <2>11. ASSUME NEW c \in Conns, Reject(c) PROVE [A!Next]_(A!avars)
    BY <2>0, <2>11, LoopImplements
       DEF Reject, Send, SendFails, Return, Stages, Errors
  <2>12. ASSUME NEW c \in Conns, Ack(c) PROVE [A!Next]_(A!avars)
    BY <2>0, <2>12, LoopImplements
       DEF Ack, Send, SendFails, Return, Stages, Errors
  <2>13. ASSUME NEW c \in Conns, Post(c) PROVE [A!Next]_(A!avars)
    <3>1. CASE pm # "stopped" /\ posted' = posted \cup {Player(c)} /\ Return(c, "Ok")
      <4>1. \A d \in Conns : loop'[d] = IF d = c THEN "Ok" ELSE loop[d]
        BY <2>0, <3>1, Moved DEF Return
      <4>2. Knocking' = Knocking \ {c} /\ TurnedAway' = TurnedAway /\ c \in Knocking
        BY <2>13, <4>1 DEF Post, Knocking, TurnedAway, Stages, Errors, ReadErrors
      <4>3. username[c] \in players /\ Player(c) = A!Seat(c, username[c])
        BY <2>0, <2>13 DEF Post, Named, Player, A!Seat
      <4>4. A!TakeIn(c)
        BY <2>13, <3>1, <4>2, <4>3 DEF Post, A!TakeIn, Knocking, TurnedAway
      <4> QED BY <4>4 DEF A!Next
    <3>2. CASE UNCHANGED posted /\ Return(c, "PlayerManagerSendFailed")
      BY <2>0, <2>13, <3>2, LoopImplements DEF Post, Return, Stages, Errors
    <3> QED BY <2>13, <3>1, <3>2 DEF Post
  <2>14. ASSUME NEW c \in Conns, Answer(c) \/ Leave(c) PROVE [A!Next]_(A!avars)
    BY <2>1, <2>14 DEF Answer, Leave, taskVars
  <2>15. ASSUME NEW n \in Names, AddUser(n) PROVE [A!Next]_(A!avars)
    <3>1. Knocking' = Knocking /\ TurnedAway' = TurnedAway /\ posted' = posted
      BY <2>15 DEF AddUser, taskVars, Knocking, TurnedAway
    <3>2. A!Register(n)
      BY <2>15, <3>1 DEF AddUser, A!Register, Knocking, TurnedAway
    <3> QED BY <3>2 DEF A!Next
  <2>16. CASE UNCHANGED vars
    BY <2>1, <2>16 DEF vars, taskVars
  <2> QED
    BY <2>2, <2>3, <2>4, <2>5, <2>6, <2>7, <2>8, <2>9, <2>10, <2>11, <2>12, <2>13, <2>14,
       <2>15, <2>16 DEF Next, ConnectionStep
<1> QED BY <1>1, <1>2, ClientInvariant, PTL DEF Spec

=============================================================================
