------------------------------ MODULE Session -------------------------------
(***************************************************************************)
(* One client's socket, through all the tasks that use it: the connection  *)
(* loop authenticates the client, the player manager sees whether it is    *)
(* alive, a game master asks it for bids.  All of them read a length and   *)
(* then as many bytes, with SOCKET_READ_TIMEOUT on each of the two reads,  *)
(* and none of them puts back what an unfinished read has taken.           *)
(*                                                                         *)
(* The client answers every request, with the answer asked for, but maybe  *)
(* late; the network delivers its bytes in order, but maybe late.  What    *)
(* others do on other sockets is left open: whether there is a game to     *)
(* join, whether the other player abandons it, how long it goes on.        *)
(***************************************************************************)
EXTENDS Messages, Framing

CONSTANTS
  MAX_BID_ERRORS,  \* 3
  Name,            \* the client's user name, as bytes
  Bids,            \* what it bids
  MaxRequests      \* bound: how many requests the server sends

ASSUME SessionAssumption ==
  /\ MAX_BID_ERRORS \in Nat \ {0}
  /\ Bids \subseteq Nat

VARIABLES
  task,         \* what the server does with the socket
  error_count,  \* of get_bid_from_client
  need,         \* the length that was read, 0 while there is none
  asked,        \* the number of requests sent
  mail,         \* messages to the client, not read by it
  sent,         \* bytes from the client, not read by the server
  offers,       \* what the client has answered to each request
  late,         \* the number of reads that timed out
  heard         \* the last message read: when, and to which request it belonged

vars == <<task, error_count, need, asked, mail, sent, offers, late, heard>>

\* The client's answers.
AuthResponseMsg(name) ==
  With(ServerRequest, [msgType |-> MsgType.AUTH_RESPONSE,
                       authResponse |-> With(AuthResponse, [player_name |-> name])])
BidResponseMsg(money) ==
  With(ServerRequest, [msgType |-> MsgType.BID_RESPONSE,
                       bidResponse |-> With(BidResponse, [money |-> money])])

NoBid == <<>>

\* What may answer a request, and the offer in it.
Answers(type) ==
  CASE type = "AUTH_REQUEST" -> {[msg |-> AuthResponseMsg(Name), offer |-> NoBid]}
    [] type = "ALIVE"        -> {[msg |-> Bare("ACK"), offer |-> NoBid]}
    [] type = "BID_REQUEST"  -> {[msg |-> BidResponseMsg(m), offer |-> <<m>>] : m \in Bids}
    [] OTHER                 -> {}

Bytes(s) == [i \in DOMAIN s |-> s[i].byte]

\* The server sends the messages news, the last of them a request ...
Request(news) ==
  /\ asked < MaxRequests
  /\ asked' = asked + 1
  /\ mail' = mail \o [i \in DOMAIN news |->
                        [type |-> news[i], id |-> IF i = Len(news) THEN asked + 1 ELSE 0]]
  /\ offers' = Append(offers, NoBid)

\* ... or not.
Tell(news) ==
  /\ mail' = mail \o [i \in DOMAIN news |-> [type |-> news[i], id |-> 0]]
  /\ UNCHANGED <<asked, offers>>

\* The socket is dropped: the player is refused, pruned, or has abandoned the game.
End(news) == task' = "over" /\ error_count' = 0 /\ Tell(news)

\* No bid: the player has abandoned the game, unless the other one failed as well and
\* takes the blame.
NoBidMade(news) ==
  \/ End(news)
  \/ task' = "idle" /\ error_count' = 0 /\ Tell(Append(news, "GAME_ABORT"))

-----------------------------------------------------------------------------
(* Reading. *)

Reading == task \in {"auth", "alive", "bid"}

\* Variant with a bug: one chance more than there are.
StrikeOnceMore(news) ==
  IF error_count < MAX_BID_ERRORS
    THEN /\ task' = "bid"
         /\ error_count' = error_count + 1
         /\ Request(Append(news, "BID_REQUEST"))
    ELSE NoBidMade(news)

\* One error more in get_bid_from_client: another chance, or the last was it.
Strike(news) ==
  IF error_count + 1 < MAX_BID_ERRORS
    THEN /\ task' = "bid"
         /\ error_count' = error_count + 1
         /\ Request(Append(news, "BID_REQUEST"))
    ELSE NoBidMade(news)

\* No byte of a length in time: ErrorOnRead, and no more chances.  (A length of two bytes
\* is only that of the first answer, and what is left of it ends with the session.)
Silent ==
  /\ Reading /\ need = 0
  /\ late' = late + 1
  /\ IF task = "bid" THEN NoBidMade(<<>>) ELSE End(<<>>)
  /\ UNCHANGED <<need, sent, heard>>

ReadSize ==
  /\ Reading /\ need = 0
  /\ HasPrefix(Bytes(sent))
  /\ need' = NumBytes(Bytes(sent))
  /\ sent' = SubSeq(sent, Len(Prefix(Bytes(sent))) + 1, Len(sent))
  /\ IF need' > 0
       THEN UNCHANGED <<task, error_count, asked, mail, offers>>
       ELSE IF task = "bid" THEN NoBidMade(<<>>) ELSE End(<<>>)
  /\ UNCHANGED <<late, heard>>

\* PlayerTimedOut: the bytes that came in time are read and lost.
LateBody ==
  /\ need > 0
  /\ \E k \in 0..Min({Len(sent), need - 1}) : sent' = SubSeq(sent, k + 1, Len(sent))
  /\ need' = 0
  /\ late' = late + 1
  /\ IF task = "bid" THEN Strike(<<>>) ELSE End(<<>>)
  /\ UNCHANGED heard

Take(n) == sent' = SubSeq(sent, n + 1, Len(sent))

\* The message in a body that is there, or <<>>.
BodyIsThere == Reading /\ need \in 1..Len(sent)
Body == Parse(SubSeq(Bytes(sent), 1, need))

\* It is read, and bid is taken from it.
ReadBody(bid) ==
  /\ Take(need)
  /\ need' = 0
  /\ heard' = [want |-> asked, got |-> sent[need].id, bid |-> bid]
  /\ UNCHANGED late

-----------------------------------------------------------------------------
(* The tasks. *)

\* connection_loop: a user of that name, or not, or the database does not say.
Authenticate ==
  /\ task = "auth" /\ BodyIsThere
  /\ ReadBody(NoBid)
  /\ \/ End(<<>>)
     \/ Body # <<>> /\ End(<<"AUTH_REJECT">>)
     \/ /\ Body # <<>> /\ TypeOf(Body[1]) = "AUTH_RESPONSE"
        /\ task' = "idle" /\ error_count' = 0 /\ Tell(<<"ACK">>)

\* Variant with a bug: the next round of ALIVE does not wait for the last one.
PingAgain ==
  /\ task \in {"idle", "alive"} /\ need = 0
  /\ task' = "alive"
  /\ Request(<<"ALIVE">>)
  /\ UNCHANGED <<error_count, need, sent, late, heard>>

\* get_free_players asks whoever is not in a game.
Ping ==
  /\ task = "idle"
  /\ task' = "alive"
  /\ Request(<<"ALIVE">>)
  /\ UNCHANGED <<error_count, need, sent, late, heard>>

FirstRound == <<"GAME_START", "ROUND_START", "BID_REQUEST">>

\* What a game says that is over before the first bid, as the other socket fails.
StillBorn == {<<"GAME_START", "GAME_ABORT">>, <<"GAME_START", "ROUND_START", "GAME_ABORT">>}

\* Any message will do.  Two who are alive are sent to a game.
Alive ==
  /\ task = "alive" /\ BodyIsThere
  /\ ReadBody(NoBid)
  /\ \/ Body = <<>> /\ End(<<>>)
     \/ /\ Body # <<>> /\ task' = "idle" /\ error_count' = 0
        /\ \E news \in {<<>>} \cup StillBorn : Tell(news)
     \/ Body # <<>> /\ task' = "bid" /\ error_count' = 0 /\ Request(FirstRound)

\* get_bid_from_client: no bid in the message, or one that is not allowed, or one that is.
Bid ==
  /\ task = "bid" /\ BodyIsThere
  /\ LET amount == IF Body # <<>> /\ TypeOf(Body[1]) = "BID_RESPONSE"
                   THEN BidAmount(Body[1]) ELSE <<>> IN
       \/ amount = <<>> /\ ReadBody(NoBid) /\ Strike(<<>>)
       \/ amount # <<>> /\ ReadBody(NoBid) /\ Strike(<<"BID_REJECT">>)
       \/ /\ amount # <<>> /\ ReadBody(amount)
          /\ task' = "game" /\ error_count' = 0 /\ Tell(<<"ACK">>)

\* What a game says after the bids: the bottle is looked at only after the next
\* ROUND_START, or never after the last round; the other player may be gone at any send.
LastWords ==
  {<<"BID_RESULT", "ROUND_START", "GAME_END">>, <<"BID_RESULT", "GAME_END">>,
   <<"GAME_ABORT">>, <<"BID_RESULT", "GAME_ABORT">>, <<"BID_RESULT", "ROUND_START", "GAME_ABORT">>}

\* Both bids are in: another round, or the end of the game.
Play ==
  /\ task = "game"
  /\ \/ task' = "bid" /\ Request(<<"BID_RESULT", "ROUND_START", "BID_REQUEST">>)
     \/ task' = "idle" /\ \E news \in LastWords : Tell(news)
  /\ UNCHANGED <<error_count, need, sent, late, heard>>

\* The client reads its next message and answers if it is a request.
ClientReads ==
  /\ mail # <<>>
  /\ mail' = Tail(mail)
  /\ LET m == Head(mail) IN
       IF Answers(m.type) = {} THEN UNCHANGED <<sent, offers>>
       ELSE \E a \in Answers(m.type) :
              /\ sent' = sent \o [i \in DOMAIN Frame(a.msg) |-> [byte |-> Frame(a.msg)[i], id |-> m.id]]
              /\ offers' = [offers EXCEPT ![m.id] = a.offer]
  /\ UNCHANGED <<task, error_count, need, asked, late, heard>>

Init ==
  /\ task = "auth"
  /\ error_count = 0
  /\ need = 0
  /\ asked = 1
  /\ mail = <<[type |-> "VERSION", id |-> 0], [type |-> "AUTH_REQUEST", id |-> 1]>>
  /\ sent = <<>>
  /\ offers = <<NoBid>>
  /\ late = 0
  /\ heard = [want |-> 0, got |-> 0, bid |-> NoBid]

Next ==
  \/ Silent
  \/ ReadSize
  \/ LateBody
  \/ Authenticate
  \/ Ping
  \/ Alive
  \/ Bid
  \/ Play
  \/ ClientReads

Spec == Init /\ [][Next]_vars

-----------------------------------------------------------------------------
(* Properties. *)

\* Every variable has its type; everything sent is an answer to a request.
TypeOK ==
  /\ task \in {"auth", "idle", "alive", "bid", "game", "over"}
  /\ error_count \in 0..MAX_BID_ERRORS - 1
  /\ need \in Nat
  /\ asked = Len(offers)
  /\ mail \in Seq([type : DOMAIN MsgType, id : 0..asked])
  /\ sent \in Seq([byte : 0..255, id : 1..asked])
  /\ offers \in Seq({NoBid} \cup {<<m>> : m \in Bids})
  /\ late \in Nat
  /\ heard \in [want : 0..asked, got : 0..asked, bid : Seq(Nat)]

\* What an answer has to be so that the stream is never out of step: wherever in it a
\* length is read, the message it announces reaches to the end of the answer or further;
\* the first answer is announced as a whole.  That of a client that bids what a player
\* can have, which is up to 100, is so.
Sturdy(f) == \A o \in DOMAIN f : f[o] < 128 /\ o + f[o] >= Len(f)
Announced(f) == NumBytes(f) >= Len(f) - Len(Prefix(f))

AnswersFit ==
  \A type \in {"AUTH_REQUEST", "ALIVE", "BID_REQUEST"} : \A a \in Answers(type) :
    /\ Frame(a.msg) \in Seq(0..255)
    /\ IF type = "AUTH_REQUEST" THEN Announced(Frame(a.msg)) ELSE Sturdy(Frame(a.msg))

\* As long as no read timed out, what the server reads is the answer to the
\* request it sent last: to its ALIVE and not to an old BID_REQUEST, for example.
AnswersInOrder == late = 0 => heard.want = heard.got

\* A read that times out leaves the server behind by at most one answer, for good: what
\* comes too late is taken for the answer to the next request.
LagBounded == heard.want - heard.got <= late

\* Whatever was lost of the stream, a bid that counts is one the client made, in
\* the answer whose end was read last: no bid is put together from two.
BidsAreOffers == heard.bid # NoBid => heard.bid = offers[heard.got]

\* Sends have no timeout, but a client that answers only what it was asked is never
\* sent more than a few messages before the server waits for it.
MailBounded == Len(mail) <= 5 * (1 + late)

\* What read_varint_from_stream says is "how big the message being sent is": the length
\* of the client's first answer is the one it wrote.
LengthAsSent ==
  task = "auth" /\ need > 0 =>
    LET answer == Frame(AuthResponseMsg(Name)) IN need = Len(answer) - Len(Prefix(answer))

=============================================================================
