----------------------------- MODULE MCSession ------------------------------
(* Session for TLC, with the messages and lengths its constant properties    *)
(* look at.                                                                  *)
EXTENDS Session

MCName == <<104>>

Names == {<<>>, <<104>>, <<104, 105>>}
Nums == {0, 1, 10, 127, 128, 3000}

\* What the proofs assume of the answers is true of this client; it is not of one that
\* bids 128, or whose name has 248 bytes.
NameOf(length) == [i \in 1..length |-> 104]

ASSUME AnswersFitHere == AnswersFit
ASSUME AnswersFitNoFurther ==
  /\ \A m \in 0..127 : Sturdy(Frame(BidResponseMsg(m)))
  /\ ~Sturdy(Frame(BidResponseMsg(128)))
  /\ \A length \in {0, 1, 121} : Announced(Frame(AuthResponseMsg(NameOf(length))))
  /\ ~Announced(Frame(AuthResponseMsg(NameOf(248))))

\* Everything that is ever sent, over small values.
Sent ==
  {Bare(t) : t \in {"AUTH_REQUEST", "AUTH_REJECT", "BID_REQUEST", "BID_REJECT", "ACK", "GAME_ABORT", "ALIVE"}}
    \cup {VersionMsg(x, y) : x, y \in Nums}
    \cup {make_start_proto(a, x, b, y) : a, b \in Names, x, y \in Nums}
    \cup {make_round_start_proto(r, x, y, p) : r, x, y, p \in Nums}
    \cup {BidResultMsg(x, y, w) : x, y \in Nums, w \in Names}
    \cup {craft_game_end_proto(r, e) : r \in DOMAIN EndResult, e \in Nums}
    \cup {AuthResponseMsg(n) : n \in Names}
    \cup {BidResponseMsg(m) : m \in Nums}

\* The types whose messages all have what is required, are as long as their prefix
\* says, and are read back as they were.
Arriving ==
  {t \in DOMAIN MsgType :
     \A m \in {x \in Sent : TypeOf(x) = t} :
       LET b == Frame(m)
           body == SubSeq(b, Len(Prefix(b)) + 1, Len(b))
       IN  IsInitialized(m) /\ NumBytes(b) = Len(body) /\ Parse(body) = <<m>>}

\* Every message the server sends to the client can be written and arrives as it was
\* written, with the small numbers and names of Sent in it; so do the client's answers.
EverythingArrives ==
  {mail[i].type : i \in DOMAIN mail} \cup {"AUTH_RESPONSE", "BID_RESPONSE"} \subseteq Arriving

=============================================================================
