--------------------------- MODULE Session_proofs ---------------------------
(***************************************************************************)
(* Proofs about Session, for any client that bids what a player can have   *)
(* and any number of requests: which answer the server reads to which      *)
(* request, how many messages wait for a client, and that what is heard as *)
(* a bid is an offer the client made, wherever in its answers the server   *)
(* begins to read.                                                         *)
(***************************************************************************)
EXTENDS Session, Messages_proofs

\* Everything has its type but what is heard of a bid: see HeardOffer.
Types ==
  /\ task \in {"auth", "idle", "alive", "bid", "game", "over"}
  /\ error_count \in 0..MAX_BID_ERRORS - 1
  /\ need \in Nat
  /\ asked \in Nat \ {0}
  /\ mail \in Seq([type : DOMAIN MsgType, id : 0..asked])
  /\ sent \in Seq([byte : 0..255, id : 1..asked])
  /\ offers \in Seq({NoBid} \cup {<<m>> : m \in Bids})
  /\ Len(offers) = asked
  /\ late \in Nat
  /\ heard.want \in 0..asked /\ heard.got \in 0..asked
  /\ heard = [want |-> heard.want, got |-> heard.got, bid |-> heard.bid]

\* A message to the client has an id if it is a request: that of AUTH_REQUEST is 1.
MailKinds ==
  \A i \in DOMAIN mail :
    /\ mail[i].id = 0 => mail[i].type \notin {"AUTH_REQUEST", "ALIVE", "BID_REQUEST"}
    /\ mail[i].id = 1 => mail[i].type = "AUTH_REQUEST"
    /\ mail[i].id > 1 => mail[i].type \in {"ALIVE", "BID_REQUEST"}

\* Requests are read by the client, and answers by the server, in the order of their ids.
InIdOrder ==
  /\ \A i, j \in DOMAIN sent : i <= j => sent[i].id <= sent[j].id
  /\ \A i \in DOMAIN mail, j \in DOMAIN sent : mail[i].id > 0 => mail[i].id > sent[j].id
  /\ \A i, j \in DOMAIN mail : i < j /\ mail[i].id > 0 /\ mail[j].id > 0 => mail[i].id < mail[j].id

\* Before the player is known: the one answer is there, or part of it is read, or
\* it is still to come.
Auth ==
  task = "auth" =>
    /\ asked = 1
    /\ late = 0
    /\ need = 0 => Bytes(sent) \in {<<>>, Frame(AuthResponseMsg(Name))}
    /\ need > 0 => Len(sent) <= need

\* After it: wherever in an answer a length is read, the answer ends where that
\* length does, or before.
SturdySent ==
  task \notin {"auth", "over"} =>
    /\ \A i \in DOMAIN mail : mail[i].id # 1
    /\ \A i \in DOMAIN sent : sent[i].byte < 128
    /\ \A i, j \in DOMAIN sent : sent[i].id = sent[j].id => j <= i + sent[i].byte

\* How far back the answers go that the server has not read: one for every read that timed out,
\* and the one it waits for.
Waiting == IF Reading /\ need = 0 THEN asked - late ELSE asked + 1 - late
Owed ==
  /\ ~Reading => need = 0
  /\ \A i \in DOMAIN mail : mail[i].id > 0 => mail[i].id >= Waiting
  /\ task # "over" =>
       \A i \in DOMAIN sent :
         /\ Reading => sent[i].id >= asked - late
         /\ i > need => sent[i].id >= Waiting

Heard == heard.got <= heard.want /\ heard.want - heard.got <= late

\* The messages that may follow the last request.
Trailing == IF Reading THEN 0 ELSE IF task = "game" THEN 1 ELSE 4

\* Between two requests there are four messages at most, after the last one as many as
\* there may be, and so after any of them no more than five for each later one.
ShortRuns ==
  \A i \in DOMAIN mail : \A j \in i..Len(mail) : (\A l \in i..j : mail[l].id = 0) => j - i < 4
FewAfterAll ==
  \A i \in DOMAIN mail : (\A l \in i..Len(mail) : mail[l].id = 0) => Len(mail) - i < Trailing
FewAfterEach ==
  \A i \in DOMAIN mail : mail[i].id > 0 => Len(mail) - i <= 5 * (asked - mail[i].id) + Trailing

MailRuns == ShortRuns /\ FewAfterAll /\ FewAfterEach

SessionInv ==
  Types /\ MailKinds /\ InIdOrder /\ Auth /\ SturdySent /\ Owed /\ Heard /\ MailRuns
-----------------------------------------------------------------------------
(* Messages to the client. *)

Requests == {"AUTH_REQUEST", "ALIVE", "BID_REQUEST"}

\* n messages more, and if r = 1 then the last of them is a request.
Mailed(n, r) ==
  /\ asked' = asked + r
  /\ mail' \in Seq([type : DOMAIN MsgType, id : 0..asked'])
  /\ Len(mail') = Len(mail) + n
  /\ \A i \in 1..Len(mail) : mail'[i] = mail[i]
  /\ \A i \in Len(mail) + 1..Len(mail') :
       IF r = 1 /\ i = Len(mail') THEN mail'[i].id = asked + 1 /\ mail'[i].type \in {"ALIVE", "BID_REQUEST"}
       ELSE mail'[i].id = 0 /\ mail'[i].type \notin Requests
  /\ offers' \in Seq({NoBid} \cup {<<m>> : m \in Bids})
  /\ Len(offers') = asked'
  /\ \A i \in 1..asked : offers'[i] = offers[i]

LEMMA MailTyped ==
  ASSUME Types
  PROVE  /\ Len(mail) \in Nat /\ DOMAIN mail = 1..Len(mail)
         /\ \A i \in 1..Len(mail) : mail[i] \in [type : DOMAIN MsgType, id : 0..asked]
         /\ \A i \in 1..Len(mail) : mail[i].id \in 0..asked
         /\ asked \in Nat \ {0}
<1> DEFINE T == [type : DOMAIN MsgType, id : 0..asked]
<1>1. mail \in Seq(T) /\ asked \in Nat \ {0}
  BY DEF Types
<1>2. \A x \in T : x.id \in 0..asked
  OBVIOUS
<1> HIDE DEF T
<1>3. /\ Len(mail) \in Nat /\ DOMAIN mail = 1..Len(mail)
      /\ \A i \in 1..Len(mail) : mail[i] \in T
  BY <1>1, LenProperties, ElementOfSeq
<1> QED BY <1>1, <1>2, <1>3 DEF T

LEMMA MailAppended ==
  ASSUME Types, NEW a \in Nat, a >= asked, NEW news \in Seq(DOMAIN MsgType),
         NEW ids \in [DOMAIN news -> 0..a],
         mail' = mail \o [i \in DOMAIN news |-> [type |-> news[i], id |-> ids[i]]]
  PROVE  /\ mail' \in Seq([type : DOMAIN MsgType, id : 0..a])
         /\ Len(mail) \in Nat /\ Len(news) \in Nat
         /\ Len(mail') = Len(mail) + Len(news)
         /\ \A i \in 1..Len(mail) : mail'[i] = mail[i]
         /\ \A i \in Len(mail) + 1..Len(mail') :
              mail'[i].type = news[i - Len(mail)] /\ mail'[i].id = ids[i - Len(mail)]
<1> DEFINE T == [type : DOMAIN MsgType, id : 0..a]
           new == [i \in DOMAIN news |-> [type |-> news[i], id |-> ids[i]]]
<1>1. mail \in Seq(T)
  <2> DEFINE R == [type : DOMAIN MsgType, id : 0..asked]
  <2>1. R \subseteq T
    BY DEF Types
  <2>2. mail \in Seq(R)
    BY DEF Types
  <2> HIDE DEF R, T
  <2> QED BY <2>1, <2>2, SeqMonotonic
<1>2. DOMAIN news = 1..Len(news) /\ Len(news) \in Nat
  BY LenProperties
<1>3. new \in Seq(T) /\ Len(new) = Len(news)
  <2>1. \A i \in DOMAIN news : news[i] \in DOMAIN MsgType /\ ids[i] \in 0..a
    BY ElementOfSeq, <1>2
  <2>2. new \in [1..Len(news) -> T]
    BY <1>2, <2>1
  <2> HIDE DEF new, T
  <2> QED BY <2>2, <1>2
<1>4. \A i \in DOMAIN news : new[i].type = news[i] /\ new[i].id = ids[i]
  OBVIOUS
<1> HIDE DEF new, T
<1>5. /\ mail' \in Seq(T)
      /\ Len(mail') = Len(mail) + Len(new)
      /\ \A i \in 1..Len(mail) + Len(new) :
           mail'[i] = IF i <= Len(mail) THEN mail[i] ELSE new[i - Len(mail)]
  BY <1>1, <1>3, ConcatProperties DEF new
<1>6. Len(mail) \in Nat
  BY <1>1
<1> QED BY <1>2, <1>3, <1>4, <1>5, <1>6 DEF T

LEMMA RequestMailed ==
  ASSUME Types, NEW n \in Nat \ {0}, NEW news \in Seq(DOMAIN MsgType), Len(news) = n,
         news[n] \in {"ALIVE", "BID_REQUEST"}, \A i \in 1..n - 1 : news[i] \notin Requests,
         Request(news)
  PROVE  Mailed(n, 1)
<1> DEFINE ids == [i \in DOMAIN news |-> IF i = Len(news) THEN asked + 1 ELSE 0]
<1>1. asked + 1 \in Nat /\ asked + 1 >= asked /\ asked' = asked + 1
  BY DEF Types, Request
<1>2. DOMAIN news = 1..n
  BY LenProperties
<1>3. ids \in [DOMAIN news -> 0..asked + 1] /\ \A i \in DOMAIN news : ids[i] = IF i = n THEN asked + 1 ELSE 0
  BY <1>1
<1>4. mail' = mail \o [i \in DOMAIN news |-> [type |-> news[i], id |-> ids[i]]]
  BY DEF Request
<1> HIDE DEF ids
<1>5. /\ mail' \in Seq([type : DOMAIN MsgType, id : 0..asked + 1])
      /\ Len(mail) \in Nat
      /\ Len(mail') = Len(mail) + n
      /\ \A i \in 1..Len(mail) : mail'[i] = mail[i]
      /\ \A i \in Len(mail) + 1..Len(mail') :
              mail'[i].type = news[i - Len(mail)] /\ mail'[i].id = ids[i - Len(mail)]
  <2>1. PICK a \in Nat : a = asked + 1 /\ a >= asked
    BY <1>1
  <2>2. ids \in [DOMAIN news -> 0..a]
    BY <1>3, <2>1
  <2>3. /\ mail' \in Seq([type : DOMAIN MsgType, id : 0..a])
        /\ Len(mail) \in Nat
        /\ Len(mail') = Len(mail) + Len(news)
        /\ \A i \in 1..Len(mail) : mail'[i] = mail[i]
        /\ \A i \in Len(mail) + 1..Len(mail') :
                mail'[i].type = news[i - Len(mail)] /\ mail'[i].id = ids[i - Len(mail)]
    BY <1>4, <2>1, <2>2, MailAppended, ZenonT(30)
  <2> QED BY <2>1, <2>3
<1>6. /\ offers' \in Seq({NoBid} \cup {<<m>> : m \in Bids}) /\ Len(offers') = asked'
      /\ \A i \in 1..asked : offers'[i] = offers[i]
  <2> DEFINE S == {NoBid} \cup {<<m>> : m \in Bids}
  <2>1. offers \in Seq(S) /\ NoBid \in S /\ Len(offers) = asked
    BY DEF Types
  <2> HIDE DEF S
  <2> QED BY <1>1, <2>1, AppendProperties DEF Request, S
<1>7. ASSUME NEW i \in Len(mail) + 1..Len(mail')
      PROVE IF i = Len(mail') THEN mail'[i].id = asked + 1 /\ mail'[i].type \in {"ALIVE", "BID_REQUEST"}
            ELSE mail'[i].id = 0 /\ mail'[i].type \notin Requests
  <2> DEFINE k == i - Len(mail)
  <2>1. k \in 1..n /\ (k = n <=> i = Len(mail'))
    BY <1>5
  <2>2. mail'[i].type = news[k] /\ mail'[i].id = ids[k]
    BY <1>5
  <2> HIDE DEF k
  <2>3. ids[k] = (IF k = n THEN asked + 1 ELSE 0)
    BY <1>2, <1>3, <2>1
  <2>4. k # n => news[k] \notin Requests
    BY <2>1
  <2> QED BY <2>1, <2>2, <2>3, <2>4
<1> QED BY <1>1, <1>5, <1>6, <1>7 DEF Mailed

LEMMA TellMailed ==
  ASSUME Types, NEW n \in Nat, NEW news \in Seq(DOMAIN MsgType), Len(news) = n,
         \A i \in 1..n : news[i] \notin Requests,
         Tell(news)
  PROVE  Mailed(n, 0)
<1> DEFINE ids == [i \in DOMAIN news |-> 0]
<1>1. asked \in Nat /\ asked >= asked /\ asked' = asked /\ offers' = offers
  BY DEF Types, Tell
<1>2. DOMAIN news = 1..n
  BY LenProperties
<1>3. ids \in [DOMAIN news -> 0..asked] /\ \A i \in DOMAIN news : ids[i] = 0
  BY <1>1
<1>4. mail' = mail \o [i \in DOMAIN news |-> [type |-> news[i], id |-> ids[i]]]
  BY DEF Tell
<1> HIDE DEF ids
<1>5. /\ mail' \in Seq([type : DOMAIN MsgType, id : 0..asked])
      /\ Len(mail) \in Nat
      /\ Len(mail') = Len(mail) + n
      /\ \A i \in 1..Len(mail) : mail'[i] = mail[i]
      /\ \A i \in Len(mail) + 1..Len(mail') :
              mail'[i].type = news[i - Len(mail)] /\ mail'[i].id = ids[i - Len(mail)]
  BY <1>1, <1>3, <1>4, MailAppended
<1>7. ASSUME NEW i \in Len(mail) + 1..Len(mail')
      PROVE  mail'[i].id = 0 /\ mail'[i].type \notin Requests
  <2>1. i - Len(mail) \in 1..n
    BY <1>5
  <2> QED BY <1>2, <1>3, <1>5, <2>1
<1> QED BY <1>1, <1>5, <1>7 DEF Mailed, Types

LEMMA MailKept ==
  ASSUME Types, MailKinds, MailRuns, NEW n \in Nat, NEW r \in {0, 1}, Mailed(n, r),
         Trailing + n - r <= 4,
         IF r = 1 THEN n > 0 /\ Trailing' = 0 ELSE Trailing' >= Trailing + n,
         Trailing' \in Nat
  PROVE  MailKinds' /\ MailRuns'
<1> DEFINE len == Len(mail)
<1>1. /\ len \in Nat /\ asked \in Nat \ {0} /\ Trailing \in Nat
      /\ DOMAIN mail = 1..len
      /\ \A i \in 1..len : mail[i].id \in 0..asked
  BY MailTyped DEF Trailing
<1>2. /\ DOMAIN mail' = 1..len + n /\ Len(mail') = len + n
      /\ \A i \in 1..len : mail'[i] = mail[i]
      /\ asked' = asked + r
  <2> DEFINE T == [type : DOMAIN MsgType, id : 0..asked']
  <2>1. mail' \in Seq(T) /\ Len(mail') = len + n
    BY DEF Mailed
  <2> HIDE DEF T
  <2>2. DOMAIN mail' = 1..Len(mail')
    BY <2>1, LenProperties
  <2> QED BY <2>1, <2>2 DEF Mailed
<1>3. \A i \in len + 1..len + n :
        IF r = 1 /\ i = len + n THEN mail'[i].id = asked + 1 /\ mail'[i].type \in {"ALIVE", "BID_REQUEST"}
        ELSE mail'[i].id = 0 /\ mail'[i].type \notin Requests
  BY <1>2 DEF Mailed
<1> HIDE DEF len
<1>5. MailKinds'
  <2> SUFFICES ASSUME NEW i \in 1..len + n
               PROVE  /\ mail'[i].id = 0 => mail'[i].type \notin Requests
                      /\ mail'[i].id = 1 => mail'[i].type = "AUTH_REQUEST"
                      /\ mail'[i].id > 1 => mail'[i].type \in {"ALIVE", "BID_REQUEST"}
    BY <1>2 DEF MailKinds, Requests
  <2>1. CASE i \in 1..len
    BY <1>1, <1>2, <2>1 DEF MailKinds, Requests
  <2>2. CASE i \in len + 1..len + n
    BY <1>1, <1>3, <2>2 DEF Requests
  <2> QED BY <1>1, <2>1, <2>2
<1>6. ShortRuns'
  <2> SUFFICES ASSUME NEW i \in 1..len + n, NEW j \in i..len + n, \A l \in i..j : mail'[l].id = 0
               PROVE  j - i < 4
    BY <1>2 DEF ShortRuns
  <2>0. i \in Nat /\ j \in Nat /\ i >= 1 /\ i <= j /\ j <= len + n
    BY <1>1
  <2>1. CASE j <= len
    <3>1. i \in 1..len /\ j \in i..len
      BY <1>1, <2>0, <2>1
    <3>2. \A l \in i..j : mail[l].id = 0
      BY <1>1, <1>2, <2>0, <2>1
    <3> QED BY <1>1, <3>1, <3>2 DEF MailRuns, ShortRuns, len
  <2>2. CASE j > len
    <3>1. j <= len + n - r
      <4>1. mail'[j].id = 0 /\ j \in len + 1..len + n
        BY <1>1, <2>0, <2>2
      <4>2. r = 1 => j # len + n
        BY <1>1, <1>3, <4>1
      <4> QED BY <1>1, <2>0, <4>2
    <3>2. CASE i > len
      BY <1>1, <2>0, <3>1, <3>2
    <3>3. CASE i <= len
      <4>1. i \in 1..len /\ \A l \in i..len : mail[l].id = 0
        BY <1>1, <1>2, <2>0, <2>2, <3>3
      <4>2. len - i < Trailing
        BY <1>1, <4>1 DEF MailRuns, FewAfterAll, len
      <4> QED BY <1>1, <2>0, <3>1, <4>2
    <3> QED BY <1>1, <2>0, <3>2, <3>3
  <2> QED BY <1>1, <2>0, <2>1, <2>2
<1>7. FewAfterAll'
  <2> SUFFICES ASSUME NEW i \in 1..len + n, \A l \in i..len + n : mail'[l].id = 0
               PROVE  len + n - i < Trailing'
    <3>1. ASSUME NEW i \in DOMAIN mail', \A l \in i..Len(mail') : mail'[l].id = 0
          PROVE  Len(mail') - i < Trailing'
      <4>1. i \in 1..len + n /\ \A l \in i..len + n : mail'[l].id = 0
        BY <1>2, <3>1
      <4>2. len + n - i < Trailing'
        BY <4>1
      <4> QED BY <1>1, <1>2, <4>2
    <3> QED BY <3>1 DEF FewAfterAll, Trailing, Reading
  <2>1. r = 0
    <3>1. len + n \in i..len + n
      BY <1>1
    <3>2. mail'[len + n].id = 0
      BY <3>1
    <3> QED BY <1>1, <1>3, <3>2
  <2>2. CASE i > len
    BY <1>1, <2>1, <2>2
  <2>3. CASE i <= len
    <3>1. i \in 1..len /\ \A l \in i..len : mail[l].id = 0
      BY <1>1, <1>2, <2>3
    <3>2. len - i < Trailing
      BY <1>1, <3>1 DEF MailRuns, FewAfterAll, len
    <3> QED BY <1>1, <2>1, <3>2
  <2> QED BY <1>1, <2>2, <2>3
<1>8. FewAfterEach'
  <2> SUFFICES ASSUME NEW i \in 1..len + n, mail'[i].id > 0
               PROVE  len + n - i <= 5 * (asked + r - mail'[i].id) + Trailing'
    <3>1. ASSUME NEW i \in DOMAIN mail', mail'[i].id > 0
          PROVE  Len(mail') - i <= 5 * (asked' - mail'[i].id) + Trailing'
      <4>1. len + n - i <= 5 * (asked + r - mail'[i].id) + Trailing'
        BY <1>2, <3>1
      <4>2. Len(mail') = len + n /\ asked' = asked + r
        BY <1>2
      <4>3. mail'[i].id \in Nat /\ i \in Nat
        BY <1>1, <1>2, <1>3
      <4> DEFINE k == mail'[i].id
                 t == Trailing'
      <4>4. len + n - i <= 5 * (asked + r - k) + t /\ k \in Nat /\ t \in Nat
        BY <4>1, <4>3
      <4> HIDE DEF k, t
      <4>5. Len(mail') - i <= 5 * (asked' - k) + t
        BY <1>1, <4>2, <4>3, <4>4
      <4> QED BY <4>5 DEF k, t
    <3> QED BY <3>1 DEF FewAfterEach, Trailing, Reading
  <2>1. CASE i <= len
    <3>1. mail'[i] = mail[i] /\ mail[i].id \in 0..asked /\ mail[i].id > 0 /\ i \in DOMAIN mail
      BY <1>1, <1>2, <2>1
    <3>2. len - i <= 5 * (asked - mail[i].id) + Trailing
      BY <3>1 DEF MailRuns, FewAfterEach, len
    <3> DEFINE k == mail[i].id
    <3>3. k \in Nat /\ mail'[i].id = k /\ len - i <= 5 * (asked - k) + Trailing
      BY <3>1, <3>2
    <3> HIDE DEF k
    <3> QED BY <1>1, <3>3, SMTT(30)
  <2>2. CASE i > len
    <3>1. r = 1 /\ i = len + n /\ mail'[i].id = asked + 1
      BY <1>1, <1>3, <2>2
    <3> QED BY <1>1, <3>1
  <2> QED BY <1>1, <2>1, <2>2
<1> QED BY <1>5, <1>6, <1>7, <1>8 DEF MailRuns
-----------------------------------------------------------------------------
(* Bytes to the server. *)

LEMMA SentTyped ==
  ASSUME Types
  PROVE  /\ Len(sent) \in Nat /\ DOMAIN sent = 1..Len(sent)
         /\ \A i \in 1..Len(sent) : sent[i] \in [byte : 0..255, id : 1..asked]
         /\ \A i \in 1..Len(sent) : sent[i].id \in 1..asked /\ sent[i].byte \in Nat
<1> DEFINE T == [byte : 0..255, id : 1..asked]
<1>1. sent \in Seq(T)
  BY DEF Types
<1>2. \A x \in T : x.id \in 1..asked /\ x.byte \in Nat
  OBVIOUS
<1> HIDE DEF T
<1>3. /\ Len(sent) \in Nat /\ DOMAIN sent = 1..Len(sent)
      /\ \A i \in 1..Len(sent) : sent[i] \in T
  BY <1>1, LenProperties, ElementOfSeq
<1> QED BY <1>2, <1>3 DEF T

\* The first n bytes are gone.
Dropped(n) ==
  /\ n \in 0..Len(sent)
  /\ sent' \in Seq([byte : 0..255, id : 1..asked'])
  /\ DOMAIN sent' = 1..Len(sent) - n /\ Len(sent') = Len(sent) - n
  /\ \A i \in 1..Len(sent) - n : sent'[i] = sent[i + n]

LEMMA SentDropped ==
  ASSUME Types, NEW n \in 0..Len(sent), asked' \in Nat, asked' >= asked,
         sent' = SubSeq(sent, n + 1, Len(sent))
  PROVE  Dropped(n)
<1> DEFINE T == [byte : 0..255, id : 1..asked]
           U == [byte : 0..255, id : 1..asked']
<1>1. /\ Len(sent) \in Nat /\ n \in Nat /\ n <= Len(sent)
      /\ \A i \in 1..Len(sent) : sent[i] \in T
  BY SentTyped
<1>2. T \subseteq U
  BY DEF Types
<1> HIDE DEF T, U
<1>3. \A i \in n + 1..Len(sent) : sent[i] \in U
  BY <1>1, <1>2
<1>4. /\ SubSeq(sent, n + 1, Len(sent)) \in Seq(U)
      /\ Len(SubSeq(sent, n + 1, Len(sent))) =
           IF n + 1 <= Len(sent) THEN Len(sent) - (n + 1) + 1 ELSE 0
      /\ \A i \in 1..Len(sent) - (n + 1) + 1 : SubSeq(sent, n + 1, Len(sent))[i] = sent[n + 1 + i - 1]
  BY <1>1, <1>3, SubSeqProperties
<1>5. Len(sent') = Len(sent) - n /\ sent' \in Seq(U)
  BY <1>1, <1>4
<1>6. DOMAIN sent' = 1..Len(sent')
  BY <1>5, LenProperties
<1>7. ASSUME NEW i \in 1..Len(sent) - n PROVE sent'[i] = sent[i + n]
  <2>1. n + 1 + i - 1 = i + n /\ i \in 1..Len(sent) - (n + 1) + 1
    BY <1>1
  <2> QED BY <1>4, <2>1
<1> QED BY <1>5, <1>6, <1>7 DEF Dropped, U

LEMMA NothingDropped ==
  ASSUME Types, sent' = sent, asked' \in Nat, asked' >= asked
  PROVE  Dropped(0)
<1> DEFINE T == [byte : 0..255, id : 1..asked]
           U == [byte : 0..255, id : 1..asked']
<1>1. T \subseteq U
  BY DEF Types
<1>2. sent \in Seq(T)
  BY DEF Types
<1> HIDE DEF T, U
<1>3. sent' \in Seq(U)
  BY <1>1, <1>2, SeqMonotonic
<1>4. /\ 0 \in 0..Len(sent) /\ Len(sent) - 0 = Len(sent)
      /\ DOMAIN sent = 1..Len(sent) /\ \A i \in 1..Len(sent) : i + 0 = i
  BY SentTyped
<1> QED BY <1>3, <1>4 DEF Dropped, U

\* Whatever the server reads and asks, ids stay in order ...
LEMMA OrderKept ==
  ASSUME Types, InIdOrder, NEW m \in Nat, NEW r \in {0, 1}, Mailed(m, r),
         NEW n \in Nat, Dropped(n)
  PROVE  InIdOrder'
<1>1. /\ Len(sent) \in Nat /\ n <= Len(sent) /\ DOMAIN sent = 1..Len(sent)
      /\ DOMAIN sent' = 1..Len(sent) - n
      /\ \A i \in 1..Len(sent) - n : sent'[i] = sent[i + n] /\ i + n \in 1..Len(sent)
      /\ \A i \in 1..Len(sent) : sent[i].id \in 1..asked
  BY SentTyped DEF Dropped
<1>2. /\ Len(mail) \in Nat /\ DOMAIN mail = 1..Len(mail) /\ asked \in Nat
      /\ \A i \in 1..Len(mail) : mail[i].id \in 0..asked
  BY MailTyped
<1>3. /\ DOMAIN mail' = 1..Len(mail) + m
      /\ \A i \in 1..Len(mail) : mail'[i] = mail[i]
      /\ \A i \in Len(mail) + 1..Len(mail) + m :
           mail'[i].id = 0 \/ (mail'[i].id = asked + 1 /\ i = Len(mail) + m)
  <2> DEFINE T == [type : DOMAIN MsgType, id : 0..asked']
  <2>1. mail' \in Seq(T) /\ Len(mail') = Len(mail) + m
    BY DEF Mailed
  <2> HIDE DEF T
  <2>2. DOMAIN mail' = 1..Len(mail')
    BY <2>1, LenProperties
  <2> QED BY <2>1, <2>2 DEF Mailed
<1>4. ASSUME NEW i \in DOMAIN sent', NEW j \in DOMAIN sent', i <= j
      PROVE  sent'[i].id <= sent'[j].id
  <2>1. i + n <= j + n /\ i + n \in DOMAIN sent /\ j + n \in DOMAIN sent
    BY <1>1, <1>4
  <2> QED BY <1>1, <2>1 DEF InIdOrder
<1>5. ASSUME NEW i \in DOMAIN mail', NEW j \in DOMAIN sent', mail'[i].id > 0
      PROVE  mail'[i].id > sent'[j].id
  <2>1. j + n \in DOMAIN sent /\ sent'[j] = sent[j + n] /\ sent[j + n].id \in 1..asked
    BY <1>1
  <2>2. CASE i \in 1..Len(mail)
    BY <1>2, <1>3, <1>5, <2>1, <2>2 DEF InIdOrder
  <2>3. CASE i \in Len(mail) + 1..Len(mail) + m
    BY <1>2, <1>3, <1>5, <2>1, <2>3
  <2> QED BY <1>2, <1>3, <2>2, <2>3
<1>6. ASSUME NEW i \in DOMAIN mail', NEW j \in DOMAIN mail', i < j, mail'[i].id > 0, mail'[j].id > 0
      PROVE  mail'[i].id < mail'[j].id
  <2>1. i \in Nat /\ j \in Nat /\ 1 <= i /\ j <= Len(mail) + m
    BY <1>2, <1>3
  <2>2. CASE j \in 1..Len(mail)
    BY <1>2, <1>3, <1>6, <2>1, <2>2 DEF InIdOrder
  <2>3. CASE j \in Len(mail) + 1..Len(mail) + m
    <3>1. mail'[j].id = asked + 1 /\ j = Len(mail) + m
      BY <1>3, <1>6, <2>3
    <3>2. i \in 1..Len(mail)
      BY <1>2, <1>3, <1>6, <2>1, <3>1
    <3>3. mail'[i].id \in 0..asked
      BY <1>2, <1>3, <3>2
    <3> QED BY <1>2, <3>1, <3>3
  <2>4. j \in 1..Len(mail) \/ j \in Len(mail) + 1..Len(mail) + m
    BY <1>2, <1>3
  <2> QED BY <2>2, <2>3, <2>4
<1> QED BY <1>4, <1>5, <1>6 DEF InIdOrder

\* ... and the answers end where a length in them says, or before.
LEMMA SturdyKept ==
  ASSUME Types, SturdySent, NEW m \in Nat, NEW r \in {0, 1}, Mailed(m, r), NEW n \in Nat, Dropped(n),
         task' # "over" => task \notin {"auth", "over"}
  PROVE  SturdySent'
<1> SUFFICES ASSUME task' # "over", task \notin {"auth", "over"} PROVE SturdySent'
  BY DEF SturdySent
<1>1. /\ Len(sent) \in Nat /\ n <= Len(sent) /\ DOMAIN sent = 1..Len(sent)
      /\ DOMAIN sent' = 1..Len(sent) - n
      /\ \A i \in 1..Len(sent) - n : sent'[i] = sent[i + n] /\ i + n \in 1..Len(sent)
      /\ \A i \in 1..Len(sent) : sent[i].byte \in Nat
  <2>1. /\ Len(sent) \in Nat /\ DOMAIN sent = 1..Len(sent)
        /\ \A i \in 1..Len(sent) : sent[i].byte \in Nat
    BY SentTyped
  <2>2. /\ n <= Len(sent) /\ DOMAIN sent' = 1..Len(sent) - n
        /\ \A i \in 1..Len(sent) - n : sent'[i] = sent[i + n]
    BY DEF Dropped
  <2>3. \A i \in 1..Len(sent) - n : i + n \in 1..Len(sent)
    BY <2>1, <2>2
  <2> QED BY <2>1, <2>2, <2>3
<1>2. ASSUME NEW i \in DOMAIN mail' PROVE mail'[i].id # 1
  <2>1. asked \in Nat \ {0} /\ DOMAIN mail = 1..Len(mail) /\ Len(mail) \in Nat
    BY MailTyped
  <2>2. i \in 1..Len(mail) \/ i \in Len(mail) + 1..Len(mail')
    <3> DEFINE T == [type : DOMAIN MsgType, id : 0..asked']
    <3>1. mail' \in Seq(T)
      BY DEF Mailed
    <3> HIDE DEF T
    <3> QED BY <2>1, <3>1, LenProperties
  <2>3. CASE i \in 1..Len(mail)
    BY <2>1, <2>3 DEF Mailed, SturdySent
  <2>4. CASE i \in Len(mail) + 1..Len(mail')
    BY <2>1, <2>4 DEF Mailed
  <2> QED BY <2>2, <2>3, <2>4
<1>3. ASSUME NEW i \in DOMAIN sent' PROVE sent'[i].byte < 128
  <2>1. i + n \in DOMAIN sent /\ sent'[i] = sent[i + n]
    BY <1>1
  <2> QED BY <2>1 DEF SturdySent
<1>4. ASSUME NEW i \in DOMAIN sent', NEW j \in DOMAIN sent', sent'[i].id = sent'[j].id
      PROVE  j <= i + sent'[i].byte
  <2>1. /\ i \in Nat /\ j \in Nat
        /\ i + n \in DOMAIN sent /\ j + n \in DOMAIN sent
        /\ sent'[i] = sent[i + n] /\ sent'[j] = sent[j + n]
    BY <1>1
  <2>2. j + n <= i + n + sent[i + n].byte
    BY <1>4, <2>1 DEF SturdySent
  <2> DEFINE b == sent[i + n].byte
  <2>3. b \in Nat
    BY <1>1, <2>1
  <2>4. sent'[i].byte = b
    BY <2>1
  <2>5. j + n <= i + n + b
    BY <2>2
  <2> HIDE DEF b
  <2> QED BY <2>1, <2>3, <2>4, <2>5
<1> QED BY <1>2, <1>3, <1>4 DEF SturdySent
-----------------------------------------------------------------------------
(* What the server does after a read. *)

\* It goes on with the socket, having sent a request, or is done with it for now.
Goes(m, r) ==
  /\ Mailed(m, r)
  /\ error_count' \in 0..MAX_BID_ERRORS - 1
  /\ r = 1 => m > 0 /\ task' \in {"alive", "bid"} /\ Trailing + m <= 5
  /\ r = 0 => task' \in {"idle", "game", "over"} /\ Trailing + m <= Trailing'
Outcome == \E m \in 0..3, r \in {0, 1} : Goes(m, r)

LEMMA NewsTypes ==
  /\ <<>> \in Seq(DOMAIN MsgType)
  /\ \A t \in DOMAIN MsgType : <<t>> \in Seq(DOMAIN MsgType) /\ Len(<<t>>) = 1 /\ <<t>>[1] = t
  /\ \A t, u \in DOMAIN MsgType :
       /\ <<t, u>> \in Seq(DOMAIN MsgType) /\ Len(<<t, u>>) = 2
       /\ <<t, u>>[1] = t /\ <<t, u>>[2] = u
       /\ Append(<<t>>, u) = <<t, u>> /\ Append(<<>>, t) = <<t>>
  /\ \A t, u, v \in DOMAIN MsgType :
       /\ <<t, u, v>> \in Seq(DOMAIN MsgType) /\ Len(<<t, u, v>>) = 3
       /\ <<t, u, v>>[1] = t /\ <<t, u, v>>[2] = u /\ <<t, u, v>>[3] = v
  /\ {"AUTH_REJECT", "BID_REQUEST", "BID_REJECT", "BID_RESULT", "GAME_START", "GAME_END", "ACK",
      "GAME_ABORT", "ALIVE", "ROUND_START"} \subseteq DOMAIN MsgType
<1> DEFINE T == DOMAIN MsgType
<1>1. {"AUTH_REJECT", "BID_REQUEST", "BID_REJECT", "BID_RESULT", "GAME_START", "GAME_END", "ACK",
       "GAME_ABORT", "ALIVE", "ROUND_START"} \subseteq T
  BY DEF MsgType
<1> HIDE DEF T
<1>2. /\ <<>> \in Seq(T)
      /\ \A t \in T : <<t>> \in Seq(T) /\ Len(<<t>>) = 1 /\ <<t>>[1] = t
      /\ \A t, u \in T : /\ <<t, u>> \in Seq(T) /\ Len(<<t, u>>) = 2
                         /\ <<t, u>>[1] = t /\ <<t, u>>[2] = u
      /\ \A t, u, v \in T : /\ <<t, u, v>> \in Seq(T) /\ Len(<<t, u, v>>) = 3
                            /\ <<t, u, v>>[1] = t /\ <<t, u, v>>[2] = u /\ <<t, u, v>>[3] = v
  OBVIOUS
<1>3. ASSUME NEW t \in T, NEW u \in T
      PROVE  Append(<<t>>, u) = <<t, u>> /\ Append(<<>>, t) = <<t>>
  <2>1. /\ Append(<<t>>, u) \in Seq(T) /\ Len(Append(<<t>>, u)) = 2
        /\ Append(<<t>>, u)[1] = t /\ Append(<<t>>, u)[2] = u
    BY <1>2, AppendProperties
  <2>2. Append(<<t>>, u) = <<t, u>>
    <3> DEFINE a == Append(<<t>>, u)
               b == <<t, u>>
    <3>1. /\ a \in Seq(T) /\ b \in Seq(T) /\ Len(a) = Len(b) /\ Len(a) = 2
          /\ a[1] = b[1] /\ a[2] = b[2]
      BY <1>2, <2>1
    <3> HIDE DEF a, b
    <3>2. \A i \in 1..Len(a) : a[i] = b[i]
      BY <3>1
    <3>3. a = b
      BY <3>1, <3>2, SeqEqual
    <3> QED BY <3>3 DEF a, b
  <2>3. Append(<<>>, t) = <<>> \o <<t>>
    BY <1>2, AppendIsConcat
  <2>4. <<>> \o <<t>> = <<t>>
    BY <1>2, ConcatEmptySeq
  <2> QED BY <2>2, <2>3, <2>4
<1> QED BY <1>1, <1>2, <1>3 DEF T

\* Short news without a request.
TellNews == {<<>>} \cup {<<t>> : t \in {"BID_REJECT", "AUTH_REJECT", "ACK", "GAME_ABORT"}}
              \cup {<<"BID_REJECT", "GAME_ABORT">>} \cup StillBorn \cup LastWords

LEMMA TellNewsMailed ==
  ASSUME Types, NEW news \in TellNews, Tell(news)
  PROVE  \E m \in 0..3 : Mailed(m, 0) /\ (news = <<"ACK">> => m = 1)
<1>1. /\ news \in Seq(DOMAIN MsgType) /\ Len(news) \in 0..3
      /\ \A i \in 1..Len(news) : news[i] \notin Requests
      /\ news = <<"ACK">> => Len(news) = 1
  <2>1. CASE news = <<>>
    BY <2>1, NewsTypes
  <2>2. CASE news \in {<<t>> : t \in {"BID_REJECT", "AUTH_REJECT", "ACK", "GAME_ABORT"}}
    <3>1. PICK t \in {"BID_REJECT", "AUTH_REJECT", "ACK", "GAME_ABORT"} : news = <<t>>
      BY <2>2
    <3>2. news \in Seq(DOMAIN MsgType) /\ Len(news) = 1 /\ news[1] = t
      BY <3>1, NewsTypes
    <3> QED BY <3>1, <3>2 DEF Requests
  <2>3. ASSUME NEW t \in {"BID_REJECT", "BID_RESULT", "GAME_START"}, NEW u \in {"GAME_ABORT", "GAME_END"},
               news = <<t, u>>
        PROVE  /\ news \in Seq(DOMAIN MsgType) /\ Len(news) = 2
               /\ \A i \in 1..2 : news[i] \notin Requests
    <3>1. news \in Seq(DOMAIN MsgType) /\ Len(news) = 2 /\ news[1] = t /\ news[2] = u
      BY <2>3, NewsTypes
    <3>2. t \notin Requests /\ u \notin Requests
      BY DEF Requests
    <3> QED BY <3>1, <3>2
  <2>4. ASSUME NEW t \in {"BID_RESULT", "GAME_START"}, NEW u \in {"GAME_ABORT", "GAME_END"},
               news = <<t, "ROUND_START", u>>
        PROVE  /\ news \in Seq(DOMAIN MsgType) /\ Len(news) = 3
               /\ \A i \in 1..3 : news[i] \notin Requests
    <3>1. /\ news \in Seq(DOMAIN MsgType) /\ Len(news) = 3
          /\ news[1] = t /\ news[2] = "ROUND_START" /\ news[3] = u
      BY <2>4, NewsTypes
    <3>2. t \notin Requests /\ "ROUND_START" \notin Requests /\ u \notin Requests
      BY DEF Requests
    <3> QED BY <3>1, <3>2
  <2>5. CASE news = <<"GAME_ABORT">>
    <3>1. news \in Seq(DOMAIN MsgType) /\ Len(news) = 1 /\ news[1] = "GAME_ABORT"
      BY <2>5, NewsTypes
    <3> QED BY <2>5, <3>1 DEF Requests
  <2>6. \/ news = <<>> \/ news = <<"GAME_ABORT">>
        \/ news \in {<<t>> : t \in {"BID_REJECT", "AUTH_REJECT", "ACK", "GAME_ABORT"}}
        \/ \E t \in {"BID_REJECT", "BID_RESULT", "GAME_START"}, u \in {"GAME_ABORT", "GAME_END"} :
             news = <<t, u>>
        \/ \E t \in {"BID_RESULT", "GAME_START"}, u \in {"GAME_ABORT", "GAME_END"} :
             news = <<t, "ROUND_START", u>>
    BY DEF TellNews, StillBorn, LastWords
  <2>7. CASE \E t \in {"BID_REJECT", "BID_RESULT", "GAME_START"}, u \in {"GAME_ABORT", "GAME_END"} :
               news = <<t, u>>
    <3>1. news \in Seq(DOMAIN MsgType) /\ Len(news) = 2 /\ \A i \in 1..2 : news[i] \notin Requests
      BY <2>3, <2>7
    <3>2. news = <<"ACK">> => Len(news) = 1
      BY NewsTypes
    <3> QED BY <3>1, <3>2
  <2>8. CASE \E t \in {"BID_RESULT", "GAME_START"}, u \in {"GAME_ABORT", "GAME_END"} :
               news = <<t, "ROUND_START", u>>
    <3>1. news \in Seq(DOMAIN MsgType) /\ Len(news) = 3 /\ \A i \in 1..3 : news[i] \notin Requests
      BY <2>4, <2>8
    <3>2. news = <<"ACK">> => Len(news) = 1
      BY NewsTypes
    <3> QED BY <3>1, <3>2
  <2> QED BY <2>1, <2>2, <2>5, <2>6, <2>7, <2>8
<1>2. PICK m \in 0..3 : m = Len(news)
  BY <1>1
<1>3. Mailed(m, 0)
  BY <1>1, <1>2, TellMailed
<1> QED BY <1>1, <1>2, <1>3

\* News that end in a request.
AskNews == {<<"ALIVE">>, <<"BID_REQUEST">>, <<"BID_REJECT", "BID_REQUEST">>, FirstRound,
            <<"BID_RESULT", "ROUND_START", "BID_REQUEST">>}

LEMMA AskNewsMailed ==
  ASSUME Types, NEW news \in AskNews, Request(news)
  PROVE  \E m \in 1..3 :
           Mailed(m, 1) /\ (news \in {<<"ALIVE">>, <<"BID_REQUEST">>} => m = 1)
<1>1. /\ news \in Seq(DOMAIN MsgType) /\ Len(news) \in 1..3
      /\ news[Len(news)] \in {"ALIVE", "BID_REQUEST"}
      /\ \A i \in 1..Len(news) - 1 : news[i] \notin Requests
      /\ news \in {<<"ALIVE">>, <<"BID_REQUEST">>} => Len(news) = 1
  <2>1. CASE news \in {<<"ALIVE">>, <<"BID_REQUEST">>}
    <3>1. PICK t \in {"ALIVE", "BID_REQUEST"} : news = <<t>>
      BY <2>1
    <3>2. news \in Seq(DOMAIN MsgType) /\ Len(news) = 1 /\ news[1] = t
      BY <3>1, NewsTypes
    <3> QED BY <3>1, <3>2
  <2>2. CASE news = <<"BID_REJECT", "BID_REQUEST">>
    <3>1. /\ news \in Seq(DOMAIN MsgType) /\ Len(news) = 2
          /\ news[1] = "BID_REJECT" /\ news[2] = "BID_REQUEST"
      BY <2>2, NewsTypes
    <3> QED BY <3>1, <2>2, NewsTypes DEF Requests
  <2>3. CASE news = FirstRound
    <3>1. /\ news \in Seq(DOMAIN MsgType) /\ Len(news) = 3
          /\ news[1] = "GAME_START" /\ news[2] = "ROUND_START" /\ news[3] = "BID_REQUEST"
      BY <2>3, NewsTypes DEF FirstRound
    <3>2. news \notin {<<"ALIVE">>, <<"BID_REQUEST">>}
      BY <3>1, NewsTypes
    <3> QED BY <3>1, <3>2 DEF Requests
  <2>4. CASE news = <<"BID_RESULT", "ROUND_START", "BID_REQUEST">>
    <3>1. /\ news \in Seq(DOMAIN MsgType) /\ Len(news) = 3
          /\ news[1] = "BID_RESULT" /\ news[2] = "ROUND_START" /\ news[3] = "BID_REQUEST"
      BY <2>4, NewsTypes
    <3>2. news \notin {<<"ALIVE">>, <<"BID_REQUEST">>}
      BY <3>1, NewsTypes
    <3> QED BY <3>1, <3>2 DEF Requests
  <2> QED BY <2>1, <2>2, <2>3, <2>4 DEF AskNews
<1>2. PICK m \in 1..3 : m = Len(news)
  BY <1>1
<1>3. Mailed(m, 1)
  BY <1>1, <1>2, RequestMailed
<1> QED BY <1>1, <1>2, <1>3

LEMMA EndOutcome ==
  ASSUME Types, Reading, NEW news \in TellNews, End(news)
  PROVE  Outcome /\ task' = "over"
<1>1. task' = "over" /\ error_count' = 0 /\ Tell(news)
  BY DEF End
<1>2. PICK m \in 0..3 : Mailed(m, 0)
  BY <1>1, TellNewsMailed
<1>3. Trailing = 0 /\ Trailing' = 4 /\ error_count' \in 0..MAX_BID_ERRORS - 1
  BY <1>1, SessionAssumption DEF Trailing, Reading
<1>4. Goes(m, 0)
  BY <1>1, <1>2, <1>3 DEF Goes
<1> QED BY <1>1, <1>2, <1>4 DEF Outcome

LEMMA NoBidOutcome ==
  ASSUME Types, Reading, NEW news \in {<<>>, <<"BID_REJECT">>}, NoBidMade(news)
  PROVE  Outcome /\ task' \in {"idle", "over"}
<1>1. CASE End(news)
  <2>1. news \in TellNews
    BY DEF TellNews
  <2> QED BY <1>1, <2>1, EndOutcome
<1>2. CASE task' = "idle" /\ error_count' = 0 /\ Tell(Append(news, "GAME_ABORT"))
  <2> DEFINE all == Append(news, "GAME_ABORT")
  <2>1. all \in TellNews
    <3>1. news = <<>> => all = <<"GAME_ABORT">>
      BY NewsTypes
    <3>2. news = <<"BID_REJECT">> => all = <<"BID_REJECT", "GAME_ABORT">>
      BY NewsTypes
    <3> QED BY <3>1, <3>2 DEF TellNews
  <2> HIDE DEF all
  <2>2. PICK m \in 0..3 : Mailed(m, 0)
    BY <1>2, <2>1, TellNewsMailed DEF all
  <2>3. Trailing = 0 /\ Trailing' = 4 /\ error_count' \in 0..MAX_BID_ERRORS - 1
    BY <1>2, SessionAssumption DEF Trailing, Reading
  <2>4. Goes(m, 0)
    BY <1>2, <2>2, <2>3 DEF Goes
  <2> QED BY <1>2, <2>2, <2>4 DEF Outcome
<1> QED BY <1>1, <1>2 DEF NoBidMade

LEMMA StrikeOutcome ==
  ASSUME Types, Reading, NEW news \in {<<>>, <<"BID_REJECT">>}, Strike(news)
  PROVE  Outcome
<1>1. CASE error_count + 1 < MAX_BID_ERRORS
  <2>1. /\ task' = "bid"
        /\ error_count' = error_count + 1
        /\ Request(Append(news, "BID_REQUEST"))
    BY <1>1 DEF Strike
  <2> DEFINE all == Append(news, "BID_REQUEST")
  <2>2. all \in AskNews
    <3>1. news = <<>> => all = <<"BID_REQUEST">>
      BY NewsTypes
    <3>2. news = <<"BID_REJECT">> => all = <<"BID_REJECT", "BID_REQUEST">>
      BY NewsTypes
    <3> QED BY <3>1, <3>2 DEF AskNews
  <2> HIDE DEF all
  <2>3. PICK m \in 1..3 : Mailed(m, 1)
    BY <2>1, <2>2, AskNewsMailed DEF all
  <2>4. Trailing = 0 /\ error_count' \in 0..MAX_BID_ERRORS - 1
    BY <1>1, <2>1, SessionAssumption DEF Trailing, Reading, Types
  <2>5. Goes(m, 1)
    BY <2>1, <2>3, <2>4 DEF Goes
  <2> QED BY <2>3, <2>5 DEF Outcome
<1>2. CASE ~(error_count + 1 < MAX_BID_ERRORS)
  BY <1>2, NoBidOutcome DEF Strike
<1> QED BY <1>1, <1>2
-----------------------------------------------------------------------------
(* The invariant, through whatever the server does. *)

\* What is still to come answers one of the last requests: as many as reads have timed out,
\* and the request that goes out now, if one does.
CaughtUp ==
  /\ \A i \in DOMAIN mail : mail[i].id > 0 => mail[i].id >= asked + 1 - late'
  /\ task' # "over" => \A i \in DOMAIN sent' : sent'[i].id >= asked + 1 - late'

LEMMA OwedKept ==
  ASSUME Types, NEW m \in 0..3, NEW r \in {0, 1}, Goes(m, r), need' = 0,
         late' = late \/ late' = late + 1, CaughtUp
  PROVE  Owed'
<1>1. asked \in Nat \ {0} /\ late \in Nat /\ Len(mail) \in Nat /\ DOMAIN mail = 1..Len(mail)
  BY MailTyped DEF Types
<1>2. /\ DOMAIN mail' = 1..Len(mail) + m
      /\ \A i \in 1..Len(mail) : mail'[i] = mail[i]
      /\ \A i \in Len(mail) + 1..Len(mail) + m :
           mail'[i].id = 0 \/ (mail'[i].id = asked + 1 /\ r = 1)
      /\ asked' = asked + r
  <2> DEFINE T == [type : DOMAIN MsgType, id : 0..asked']
  <2>1. mail' \in Seq(T) /\ Len(mail') = Len(mail) + m
    BY DEF Goes, Mailed
  <2> HIDE DEF T
  <2>2. DOMAIN mail' = 1..Len(mail')
    BY <2>1, LenProperties
  <2> QED BY <2>1, <2>2 DEF Goes, Mailed
<1>3. Reading' <=> r = 1
  BY DEF Goes, Reading
<1>4. Waiting' = asked + 1 - late'
  BY <1>1, <1>2, <1>3, SMTT(30) DEF Waiting
<1>5. ASSUME NEW i \in DOMAIN mail', mail'[i].id > 0
      PROVE  mail'[i].id >= asked + 1 - late'
  <2>1. CASE i \in 1..Len(mail)
    BY <1>1, <1>2, <1>5, <2>1 DEF CaughtUp
  <2>2. CASE i \in Len(mail) + 1..Len(mail) + m
    <3>1. mail'[i].id = asked + 1
      BY <1>2, <1>5, <2>2
    <3>2. asked + 1 >= asked + 1 - late'
      BY <1>1
    <3> QED BY <3>1, <3>2
  <2>3. i \in 1..Len(mail) \/ i \in Len(mail) + 1..Len(mail) + m
    BY <1>1, <1>2
  <2> QED BY <2>1, <2>2, <2>3
<1>6. ASSUME task' # "over", NEW i \in DOMAIN sent'
      PROVE  /\ Reading' => sent'[i].id >= asked' - late'
             /\ i > need' => sent'[i].id >= Waiting'
  <2>1. sent'[i].id >= asked + 1 - late'
    BY <1>6 DEF CaughtUp
  <2> QED BY <1>1, <1>2, <1>3, <1>4, <2>1
<1>7. ASSUME NEW i \in DOMAIN mail', mail'[i].id > 0
      PROVE  mail'[i].id >= Waiting'
  BY <1>4, <1>5, <1>7
<1>8. ~Reading' => need' = 0
  OBVIOUS
<1> QED BY <1>6, <1>7, <1>8 DEF Owed

LEMMA ServerKept ==
  ASSUME SessionInv, Outcome, NEW n \in Nat, Dropped(n), need' = 0,
         late' = late \/ late' = late + 1, CaughtUp,
         SturdySent',
         heard'.want \in 0..asked, heard'.got \in 0..asked, Heard',
         heard' = [want |-> heard'.want, got |-> heard'.got, bid |-> heard'.bid]
  PROVE  SessionInv'
<1>1. PICK m \in 0..3, r \in {0, 1} : Goes(m, r)
  BY DEF Outcome
<1>2. Types /\ MailKinds /\ InIdOrder /\ MailRuns
  BY DEF SessionInv
<1>3. Mailed(m, r) /\ asked \in Nat \ {0} /\ asked' = asked + r
  BY <1>1, <1>2, MailTyped DEF Goes, Mailed
<1>4. Types'
  <2>1. task' \in {"auth", "idle", "alive", "bid", "game", "over"} /\ error_count' \in 0..MAX_BID_ERRORS - 1
    BY <1>1 DEF Goes
  <2>2. /\ asked' \in Nat \ {0}
        /\ heard'.want \in 0..asked' /\ heard'.got \in 0..asked'
    BY <1>3
  <2>3. /\ mail' \in Seq([type : DOMAIN MsgType, id : 0..asked'])
        /\ offers' \in Seq({NoBid} \cup {<<m_1>> : m_1 \in Bids})
        /\ Len(offers') = asked'
    BY <1>3 DEF Mailed
  <2>4. sent' \in Seq([byte : 0..255, id : 1..asked'])
    BY DEF Dropped
  <2>5. need' \in Nat /\ late' \in Nat
    BY <1>2 DEF Types
  <2> QED BY <2>1, <2>2, <2>3, <2>4, <2>5 DEF Types
<1>5. MailKinds' /\ MailRuns'
  <2>1. Trailing' \in Nat /\ Trailing \in Nat
    BY DEF Trailing
  <2>2. r = 1 => Trailing' = 0
    BY <1>1 DEF Goes, Trailing, Reading
  <2>3. Trailing + m - r <= 4
    <3>1. r = 0 => Trailing' <= 4
      BY DEF Trailing
    <3> QED BY <1>1, <2>1, <3>1 DEF Goes
  <2>4. IF r = 1 THEN m > 0 /\ Trailing' = 0 ELSE Trailing' >= Trailing + m
    BY <1>1, <2>1, <2>2 DEF Goes
  <2> QED BY <1>2, <1>3, <2>1, <2>3, <2>4, MailKept
<1>6. InIdOrder'
  BY <1>2, <1>3, OrderKept
<1>7. Auth'
  BY <1>1 DEF Goes, Auth
<1>8. Owed'
  BY <1>1, <1>2, OwedKept
<1> QED BY <1>4, <1>5, <1>6, <1>7, <1>8 DEF SessionInv

LEMMA BytesFacts ==
  ASSUME Types
  PROVE  /\ DOMAIN Bytes(sent) = 1..Len(sent) /\ Len(sent) \in Nat
         /\ \A i \in 1..Len(sent) : Bytes(sent)[i] = sent[i].byte
BY SentTyped DEF Bytes

-----------------------------------------------------------------------------
(* The steps of the server. *)

LEMMA OutcomeFacts ==
  ASSUME Types, Outcome
  PROVE  /\ asked \in Nat \ {0} /\ asked' \in Nat /\ asked' >= asked
         /\ task' # "auth"
<1>1. PICK m \in 0..3, r \in {0, 1} : Goes(m, r)
  BY DEF Outcome
<1>2. asked \in Nat \ {0}
  BY DEF Types
<1>3. asked' = asked \/ asked' = asked + 1
  BY <1>1, <1>2 DEF Goes, Mailed
<1> QED BY <1>1, <1>2, <1>3 DEF Goes

LEMMA SturdyGoes ==
  ASSUME Types, SturdySent, Outcome, NEW n \in Nat, Dropped(n),
         task' # "over" => task \notin {"auth", "over"}
  PROVE  SturdySent'
<1>1. PICK m \in 0..3, r \in {0, 1} : Goes(m, r)
  BY DEF Outcome
<1> QED BY <1>1, SturdyKept DEF Goes

LEMMA HeardKept ==
  ASSUME Types, Heard, heard' = heard, late' = late \/ late' = late + 1
  PROVE  /\ heard'.want \in 0..asked /\ heard'.got \in 0..asked /\ Heard'
         /\ heard' = [want |-> heard'.want, got |-> heard'.got, bid |-> heard'.bid]
<1> DEFINE w == heard.want
           g == heard.got
<1>1. w \in Nat /\ g \in Nat /\ late \in Nat /\ g <= w /\ w - g <= late
  BY DEF Types, Heard
<1> HIDE DEF w, g
<1>2. g <= w /\ (w - g <= late)'
  <2>1. w - g <= late /\ w - g <= late + 1
    BY <1>1
  <2> QED BY <1>1, <2>1 DEF w, g
<1> QED BY <1>2 DEF Types, Heard, w, g

LEMMA SilentOutcome ==
  ASSUME Types, Silent
  PROVE  Outcome /\ (task = "auth" => task' = "over")
<1>1. CASE task = "bid"
  <2>1. Reading /\ NoBidMade(<<>>)
    BY <1>1 DEF Silent
  <2> QED BY <1>1, <2>1, NoBidOutcome
<1>2. CASE task # "bid"
  <2>1. Reading /\ End(<<>>) /\ <<>> \in TellNews
    BY <1>2 DEF Silent, TellNews
  <2> QED BY <2>1, EndOutcome
<1> QED BY <1>1, <1>2

LEMMA SilentKept ==
  ASSUME SessionInv, Silent
  PROVE  SessionInv'
<1>1. /\ Types /\ Owed /\ Heard /\ SturdySent
      /\ Reading /\ need = 0 /\ late' = late + 1 /\ need' = need /\ sent' = sent /\ heard' = heard
  BY DEF SessionInv, Silent
<1>2. Outcome /\ (task = "auth" => task' = "over")
  BY <1>1, SilentOutcome
<1>3. Dropped(0)
  BY <1>1, <1>2, OutcomeFacts, NothingDropped
<1>4. SturdySent'
  BY <1>1, <1>2, <1>3, SturdyGoes DEF Reading
<1>5. CaughtUp
  <2>1. /\ Waiting = asked - late /\ late \in Nat /\ asked \in Nat
        /\ asked + 1 - late' = asked - late
    BY <1>1 DEF Waiting, Types
  <2>2. \A i \in DOMAIN mail : mail[i].id > 0 => mail[i].id >= asked - late
    BY <1>1, <2>1 DEF Owed
  <2>3. task # "over"
    BY <1>1 DEF Reading
  <2>4. \A i \in DOMAIN sent : sent[i].id >= asked - late
    BY <1>1, <2>3 DEF Owed
  <2> QED BY <1>1, <2>1, <2>2, <2>4 DEF CaughtUp
<1> QED BY <1>1, <1>2, <1>3, <1>4, <1>5, HeardKept, ServerKept

LEMMA LateBodyOutcome ==
  ASSUME SessionInv, LateBody
  PROVE  /\ Reading /\ Outcome /\ (task = "auth" => task' = "over")
         /\ \E n \in Nat : Dropped(n)
<1>1. Types /\ need > 0 /\ need \in Nat /\ Len(sent) \in Nat
  BY SentTyped DEF SessionInv, LateBody, Types
<1>2. Reading
  BY <1>1 DEF Owed, SessionInv
<1>3. Outcome /\ (task = "auth" => task' = "over")
  <2>1. CASE task = "bid"
    <3>1. Strike(<<>>)
      BY <2>1 DEF LateBody
    <3> QED BY <1>1, <1>2, <2>1, <3>1, StrikeOutcome
  <2>2. CASE task # "bid"
    <3>1. End(<<>>) /\ <<>> \in TellNews
      BY <2>2 DEF LateBody, TellNews
    <3> QED BY <1>1, <1>2, <3>1, EndOutcome
  <2> QED BY <2>1, <2>2
<1>4. PICK n \in 0..Min({Len(sent), need - 1}) : sent' = SubSeq(sent, n + 1, Len(sent))
  BY DEF LateBody
<1>5. n \in 0..Len(sent)
  <2>1. {Len(sent), need - 1} \subseteq Nat /\ {Len(sent), need - 1} # {}
    BY <1>1
  <2>2. Min({Len(sent), need - 1}) \in Nat /\ Min({Len(sent), need - 1}) <= Len(sent)
    BY <1>1, <2>1, SmallestOf
  <2> QED BY <1>1, <2>2
<1>6. n \in Nat /\ Dropped(n)
  BY <1>1, <1>3, <1>4, <1>5, OutcomeFacts, SentDropped
<1> QED BY <1>2, <1>3, <1>6

LEMMA LateBodyKept ==
  ASSUME SessionInv, LateBody
  PROVE  SessionInv'
<1>1. /\ Types /\ Owed /\ Heard /\ SturdySent
      /\ need > 0 /\ late' = late + 1 /\ need' = 0 /\ heard' = heard
      /\ need \in Nat /\ late \in Nat /\ asked \in Nat
  BY DEF SessionInv, LateBody, Types
<1>2. Reading /\ Outcome /\ (task = "auth" => task' = "over")
  BY LateBodyOutcome
<1>3. PICK n \in Nat : Dropped(n)
  BY LateBodyOutcome
<1>4. SturdySent'
  BY <1>1, <1>2, <1>3, SturdyGoes DEF Reading
<1>5. CaughtUp
  <2>1. /\ Waiting = asked + 1 - late /\ asked + 1 - late' = asked - late
        /\ asked + 1 - late > asked - late
    BY <1>1 DEF Waiting
  <2>2. ASSUME NEW i \in DOMAIN mail, mail[i].id > 0
        PROVE  mail[i].id >= asked - late
    <3>1. mail[i].id >= asked + 1 - late /\ mail[i].id \in Nat
      BY <1>1, <2>1, <2>2, MailTyped DEF Owed
    <3> QED BY <1>1, <3>1
  <2>3. task # "over"
    BY <1>2 DEF Reading
  <2>4. \A i \in DOMAIN sent : sent[i].id >= asked - late
    BY <1>2, <2>3 DEF Owed, SessionInv
  <2>5. \A i \in DOMAIN sent' : sent'[i].id >= asked - late
    <3>1. \A i \in DOMAIN sent' : i + n \in DOMAIN sent /\ sent'[i] = sent[i + n]
      BY <1>1, <1>3, SentTyped DEF Dropped
    <3> QED BY <2>4, <3>1
  <2> QED BY <2>1, <2>2, <2>5 DEF CaughtUp
<1> QED BY <1>1, <1>2, <1>3, <1>4, <1>5, HeardKept, ServerKept

LEMMA PrefixThere ==
  ASSUME Types, HasPrefix(Bytes(sent))
  PROVE  /\ Len(Prefix(Bytes(sent))) \in 1..Len(sent)
         /\ Len(sent) \in Nat \ {0}
<1>1. DOMAIN Bytes(sent) = 1..Len(sent) /\ Len(sent) \in Nat
  BY BytesFacts
<1>2. PICK k \in 1..Len(sent) : Len(Prefix(Bytes(sent))) = k
  BY <1>1, PrefixFacts
<1> QED BY <1>1, <1>2

\* Once the player is known a length is one byte, and what comes after the message it
\* announces belongs to later answers.
LEMMA SturdyLength ==
  ASSUME Types, SturdySent, InIdOrder, task \notin {"auth", "over"}, HasPrefix(Bytes(sent))
  PROVE  /\ Len(Prefix(Bytes(sent))) = 1 /\ NumBytes(Bytes(sent)) = sent[1].byte
         /\ \A i \in DOMAIN sent : i > 1 + NumBytes(Bytes(sent)) => sent[i].id > sent[1].id
<1>1. /\ DOMAIN Bytes(sent) = 1..Len(sent) /\ Len(sent) \in Nat \ {0}
      /\ \A i \in 1..Len(sent) : Bytes(sent)[i] = sent[i].byte
  BY BytesFacts, PrefixThere
<1>2. /\ 1 \in DOMAIN sent /\ DOMAIN sent = 1..Len(sent)
      /\ \A i \in 1..Len(sent) : sent[i].byte \in Nat /\ sent[i].id \in 1..asked
  BY <1>1, SentTyped
<1>3. PICK v \in 0..127 : v = sent[1].byte
  <2>1. sent[1].byte < 128 /\ sent[1].byte \in Nat
    BY <1>1, <1>2 DEF SturdySent
  <2> QED BY <2>1
<1>4. Bytes(sent)[1] = v
  BY <1>1, <1>2, <1>3
<1>5. Len(Prefix(Bytes(sent))) = 1 /\ NumBytes(Bytes(sent)) = v
  BY <1>1, <1>4, LengthOfOne
<1>6. ASSUME NEW i \in DOMAIN sent, i > 1 + v
      PROVE  sent[i].id > sent[1].id
  <2>1. sent[1].id # sent[i].id
    <3>1. sent[1].id = sent[i].id => i <= 1 + sent[1].byte
      BY <1>2 DEF SturdySent
    <3> QED BY <1>2, <1>3, <1>6, <3>1
  <2>2. sent[1].id <= sent[i].id
    BY <1>2 DEF InIdOrder
  <2>3. sent[1].id \in Int /\ sent[i].id \in Int
    BY <1>2
  <2> QED BY <2>1, <2>2, <2>3
<1> QED BY <1>3, <1>5, <1>6

LEMMA NothingMailed ==
  ASSUME Types, mail' = mail, asked' = asked, offers' = offers
  PROVE  Mailed(0, 0)
<1>1. asked \in Nat /\ Len(mail) \in Nat
  BY MailTyped
<1>2. /\ mail \in Seq([type : DOMAIN MsgType, id : 0..asked])
      /\ offers \in Seq({NoBid} \cup {<<m>> : m \in Bids}) /\ Len(offers) = asked
  BY DEF Types
<1> QED BY <1>1, <1>2 DEF Mailed

\* A length is read and there is a message to read.
LEMMA SizeReadKept ==
  ASSUME AnswersFit, SessionInv, ReadSize, need' > 0
  PROVE  SessionInv'
<1> DEFINE b == Bytes(sent)
           k == Len(Prefix(b))
           n == NumBytes(b)
<1>1. /\ Types /\ MailKinds /\ InIdOrder /\ Auth /\ SturdySent /\ Owed /\ Heard /\ MailRuns
      /\ Reading /\ need = 0 /\ HasPrefix(b)
      /\ need' = n /\ sent' = SubSeq(sent, k + 1, Len(sent))
      /\ task' = task /\ error_count' = error_count /\ asked' = asked /\ mail' = mail
      /\ offers' = offers /\ late' = late /\ heard' = heard
  BY DEF SessionInv, ReadSize
<1>2. /\ k \in 1..Len(sent) /\ Len(sent) \in Nat \ {0} /\ n \in 0..255
      /\ asked \in Nat \ {0} /\ late \in Nat /\ DOMAIN sent = 1..Len(sent)
  BY <1>1, PrefixThere, NumBytesRange, SentTyped DEF Types
<1>3. n > 0
  BY <1>1
<1> HIDE DEF k, n
<1>4. Mailed(0, 0)
  BY <1>1, NothingMailed
<1>5. k \in Nat /\ Dropped(k)
  <2>1. asked' \in Nat /\ asked' >= asked /\ k \in 0..Len(sent) /\ k \in Nat
    BY <1>1, <1>2
  <2> QED BY <1>1, <2>1, SentDropped
<1>6. Types'
  <2>1. sent' \in Seq([byte : 0..255, id : 1..asked'])
    BY <1>5 DEF Dropped
  <2>2. need' \in Nat
    BY <1>1, <1>2
  <2> QED BY <1>1, <2>1, <2>2 DEF Types
<1>7. MailKinds' /\ MailRuns'
  <2>1. MailKinds'
    BY <1>1 DEF MailKinds
  <2>2. MailRuns'
    BY <1>1 DEF MailRuns, ShortRuns, FewAfterAll, FewAfterEach, Trailing, Reading
  <2> QED BY <2>1, <2>2
<1>8. InIdOrder'
  BY <1>1, <1>4, <1>5, OrderKept
<1>9. task = "auth" => Len(sent) - k <= n
  <2> SUFFICES ASSUME task = "auth" PROVE Len(sent) - k <= n
    OBVIOUS
  <2> DEFINE f == Frame(AuthResponseMsg(Name))
  <2>1. b \in {<<>>, f}
    BY <1>1 DEF Auth
  <2>2. DOMAIN b = 1..Len(sent)
    BY <1>1, BytesFacts
  <2>3. b = f
    BY <1>2, <2>1, <2>2
  <2>4. f \in Seq(0..255) /\ Announced(f)
    BY DEF AnswersFit, Answers
  <2> HIDE DEF b, f
  <2>5. Len(f) = Len(sent)
    <3>1. DOMAIN f = 1..Len(f) /\ Len(f) \in Nat
      BY <2>4, LenProperties
    <3> QED BY <1>2, <2>2, <2>3, <3>1
  <2>6. n >= Len(sent) - k
    BY <2>3, <2>4, <2>5 DEF Announced, n, k
  <2> QED BY <1>2, <2>6
<1>10. Auth'
  <2>1. Len(sent') = Len(sent) - k
    BY <1>5 DEF Dropped
  <2>2. task = "auth" => Len(sent') <= need'
    BY <1>1, <1>9, <2>1
  <2>3. ~ (need' = 0)
    BY <1>1, <1>3
  <2>4. task' = "auth" => asked' = 1 /\ late' = 0
    BY <1>1 DEF Auth
  <2> QED BY <1>1, <2>2, <2>3, <2>4 DEF Auth
<1>11. SturdySent'
  <2>1. CASE task = "auth"
    BY <1>1, <2>1 DEF SturdySent
  <2>2. CASE task # "auth"
    BY <1>1, <1>4, <1>5, <2>2, SturdyKept DEF Reading
  <2> QED BY <2>1, <2>2
<1>12. Owed'
  <2>1. Reading' /\ Waiting' = asked + 1 - late /\ Waiting = asked - late
    BY <1>1, <1>3 DEF Reading, Waiting
  <2>2. sent[1].id >= asked - late /\ sent[1].id \in Nat /\ 1 \in DOMAIN sent
    <3>1. task # "over" /\ 1 \in DOMAIN sent
      BY <1>1, <1>2 DEF Reading
    <3>2. sent[1].id >= asked - late
      BY <1>1, <3>1 DEF Owed
    <3>3. sent[1].id \in Nat
      BY <1>1, <1>2, SentTyped
    <3> QED BY <3>1, <3>2, <3>3
  <2>3. ASSUME NEW i \in DOMAIN mail', mail'[i].id > 0
        PROVE  mail'[i].id >= asked + 1 - late
    <3>1. mail[i].id > sent[1].id /\ mail[i].id \in Nat /\ mail'[i] = mail[i]
      BY <1>1, <2>2, <2>3, MailTyped DEF InIdOrder
    <3>2. mail[i].id >= asked + 1 - late
      BY <1>2, <2>2, <3>1
    <3> QED BY <3>1, <3>2
  <2>4. ASSUME NEW i \in DOMAIN sent'
        PROVE  /\ sent'[i].id >= asked - late
               /\ i > n => sent'[i].id >= asked + 1 - late
    <3>1. /\ i \in 1..Len(sent) - k /\ i + k \in DOMAIN sent /\ sent'[i] = sent[i + k]
          /\ Len(sent') = Len(sent) - k
      BY <1>2, <1>5 DEF Dropped
    <3>2. sent[i + k].id >= asked - late
      BY <1>1, <3>1 DEF Owed, Reading
    <3>3. ASSUME i > n PROVE sent[i + k].id >= asked + 1 - late
      <4>1. task # "auth"
        BY <1>2, <1>9, <3>1, <3>3
      <4>2. /\ k = 1
            /\ \A j \in DOMAIN sent : j > 1 + n => sent[j].id > sent[1].id
        BY <1>1, <4>1, SturdyLength DEF Reading, k, n
      <4>3. i + k > 1 + n
        BY <1>2, <3>1, <3>3, <4>2
      <4>4. sent[i + k].id > sent[1].id /\ sent[i + k].id \in Nat
        BY <1>1, <1>2, <3>1, <4>2, <4>3, SentTyped
      <4> QED BY <1>2, <2>2, <4>4
    <3> QED BY <3>1, <3>2, <3>3
  <2> QED BY <1>1, <2>1, <2>3, <2>4 DEF Owed
<1>13. Heard'
  BY <1>1 DEF Heard
<1> QED BY <1>6, <1>7, <1>8, <1>10, <1>11, <1>12, <1>13 DEF SessionInv

\* A length of 0 is an error.
LEMMA SizeZeroOutcome ==
  ASSUME Types, ReadSize, ~ (need' > 0)
  PROVE  /\ Outcome /\ (task = "auth" => task' = "over")
         /\ need' = 0 /\ Dropped(Len(Prefix(Bytes(sent))))
<1> DEFINE k == Len(Prefix(Bytes(sent)))
<1>1. Outcome /\ (task = "auth" => task' = "over")
  <2>1. CASE task = "bid"
    <3>1. Reading /\ NoBidMade(<<>>)
      BY <2>1 DEF ReadSize
    <3> QED BY <2>1, <3>1, NoBidOutcome
  <2>2. CASE task # "bid"
    <3>1. Reading /\ End(<<>>) /\ <<>> \in TellNews
      BY <2>2 DEF ReadSize, TellNews
    <3> QED BY <3>1, EndOutcome
  <2> QED BY <2>1, <2>2
<1>2. need' = 0
  <2>1. need' \in 0..255
    BY NumBytesRange DEF ReadSize
  <2> QED BY <2>1
<1>3. Dropped(k)
  <2>1. k \in 0..Len(sent) /\ sent' = SubSeq(sent, k + 1, Len(sent))
    BY PrefixThere DEF ReadSize
  <2> HIDE DEF k
  <2> QED BY <1>1, <2>1, OutcomeFacts, SentDropped
<1> QED BY <1>1, <1>2, <1>3

LEMMA SizeZeroKept ==
  ASSUME SessionInv, ReadSize, ~ (need' > 0)
  PROVE  SessionInv'
<1> DEFINE b == Bytes(sent)
           k == Len(Prefix(b))
           n == NumBytes(b)
<1>1. /\ Types /\ InIdOrder /\ SturdySent /\ Owed /\ Heard
      /\ Reading /\ need = 0 /\ HasPrefix(b)
      /\ need' = n /\ sent' = SubSeq(sent, k + 1, Len(sent))
      /\ late' = late /\ heard' = heard
  BY DEF SessionInv, ReadSize
<1>2. /\ k \in 1..Len(sent) /\ Len(sent) \in Nat \ {0} /\ n \in 0..255
      /\ asked \in Nat \ {0} /\ late \in Nat /\ DOMAIN sent = 1..Len(sent)
  BY <1>1, PrefixThere, NumBytesRange, SentTyped DEF Types
<1> HIDE DEF k, n
<1>3. need' = 0 /\ n = 0 /\ Outcome /\ (task = "auth" => task' = "over") /\ Dropped(k) /\ k \in Nat
  BY <1>1, <1>2, SizeZeroOutcome DEF k
<1>4. SturdySent'
  BY <1>1, <1>3, SturdyGoes DEF Reading
<1>5. CaughtUp
  <2>1. sent[1].id >= asked - late /\ sent[1].id \in Nat /\ 1 \in DOMAIN sent
    <3>1. task # "over" /\ 1 \in DOMAIN sent
      BY <1>1, <1>2 DEF Reading
    <3>2. sent[1].id >= asked - late
      BY <1>1, <3>1 DEF Owed
    <3>3. sent[1].id \in Nat
      BY <1>1, <1>2, SentTyped
    <3> QED BY <3>1, <3>2, <3>3
  <2>2. ASSUME NEW i \in DOMAIN mail, mail[i].id > 0
        PROVE  mail[i].id >= asked + 1 - late
    <3>1. mail[i].id > sent[1].id /\ mail[i].id \in Nat
      BY <1>1, <2>1, <2>2, MailTyped DEF InIdOrder
    <3> QED BY <1>2, <2>1, <3>1
  <2>3. ASSUME task' # "over", NEW i \in DOMAIN sent'
        PROVE  sent'[i].id >= asked + 1 - late
    <3>1. i \in 1..Len(sent) - k /\ i + k \in DOMAIN sent /\ sent'[i] = sent[i + k]
      BY <1>2, <1>3 DEF Dropped
    <3>2. /\ k = 1
          /\ \A j \in DOMAIN sent : j > 1 + n => sent[j].id > sent[1].id
      BY <1>1, <1>3, <2>3, SturdyLength DEF Reading, k, n
    <3>3. i + k > 1 + n
      BY <1>2, <1>3, <3>1, <3>2
    <3>4. sent[i + k].id > sent[1].id /\ sent[i + k].id \in Nat
      BY <1>1, <1>2, <3>1, <3>2, <3>3, SentTyped
    <3>5. sent[i + k].id >= asked + 1 - late
      BY <1>2, <2>1, <3>4
    <3> QED BY <3>1, <3>5
  <2> QED BY <1>1, <2>2, <2>3 DEF CaughtUp
<1> QED BY <1>1, <1>3, <1>4, <1>5, HeardKept, ServerKept

\* A message is read, whatever it says.
LEMMA BodyKept ==
  ASSUME SessionInv, BodyIsThere, NEW bid, ReadBody(bid), Outcome
  PROVE  SessionInv'
<1>1. /\ Types /\ MailKinds /\ InIdOrder /\ Auth /\ SturdySent /\ Owed /\ Heard
      /\ Reading /\ need \in 1..Len(sent) /\ Len(sent) \in Nat
      /\ need' = 0 /\ late' = late /\ sent' = SubSeq(sent, need + 1, Len(sent))
      /\ heard' = [want |-> asked, got |-> sent[need].id, bid |-> bid]
      /\ asked \in Nat \ {0} /\ late \in Nat
  BY SentTyped DEF SessionInv, BodyIsThere, ReadBody, Take, Types
<1>2. /\ need \in Nat /\ need > 0 /\ need \in 0..Len(sent) /\ need \in DOMAIN sent
      /\ DOMAIN sent = 1..Len(sent)
      /\ \A i \in 1..Len(sent) : sent[i].id \in 1..asked
  BY <1>1, SentTyped
<1>3. Dropped(need)
  BY <1>1, <1>2, OutcomeFacts, SentDropped
<1>4. Waiting = asked + 1 - late /\ task # "over"
  BY <1>1, <1>2 DEF Waiting, Reading
<1>5. ASSUME NEW i \in DOMAIN sent'
      PROVE  /\ i + need \in DOMAIN sent /\ i + need > need
             /\ sent'[i] = sent[i + need]
  <2>1. i \in 1..Len(sent) - need
    BY <1>3, <1>5 DEF Dropped
  <2>2. sent'[i] = sent[i + need]
    BY <1>3, <2>1 DEF Dropped
  <2>3. i + need \in 1..Len(sent) /\ i + need > need
    BY <1>1, <1>2, <2>1
  <2> QED BY <1>2, <2>2, <2>3
<1>6. CaughtUp
  <2>1. \A i \in DOMAIN mail : mail[i].id > 0 => mail[i].id >= asked + 1 - late
    BY <1>1, <1>4 DEF Owed
  <2>2. ASSUME NEW i \in DOMAIN sent' PROVE sent'[i].id >= asked + 1 - late
    <3>1. sent[i + need].id >= asked + 1 - late
      BY <1>1, <1>4, <1>5 DEF Owed
    <3> QED BY <1>5, <3>1
  <2> QED BY <1>1, <2>1, <2>2 DEF CaughtUp
<1>7. SturdySent'
  <2>1. CASE task # "auth"
    BY <1>1, <1>2, <1>3, <1>4, <2>1, SturdyGoes
  <2>2. CASE task = "auth"
    <3>1. sent' = <<>> /\ DOMAIN sent' = {}
      <4>1. Len(sent) <= need
        BY <1>1, <1>2, <2>2 DEF Auth
      <4>2. need + 1 \in Int /\ Len(sent) \in Int /\ Len(sent) < need + 1
        BY <1>1, <1>2, <4>1
      <4>3. SubSeq(sent, need + 1, Len(sent)) = <<>>
        BY <4>2, SubSeqEmpty
      <4> QED BY <1>1, <4>3
    <3>2. ASSUME NEW i \in DOMAIN mail' PROVE mail'[i].id # 1
      <4>1. PICK m \in 0..3, r \in {0, 1} : Goes(m, r)
        BY DEF Outcome
      <4>2. Len(mail) \in Nat /\ DOMAIN mail = 1..Len(mail)
        BY <1>1, MailTyped
      <4>3. i \in 1..Len(mail) \/ i \in Len(mail) + 1..Len(mail')
        <5> DEFINE T == [type : DOMAIN MsgType, id : 0..asked']
        <5>1. mail' \in Seq(T)
          BY <4>1 DEF Goes, Mailed
        <5> HIDE DEF T
        <5> QED BY <4>2, <5>1, LenProperties
      <4>4. CASE i \in 1..Len(mail)
        <5>1. mail'[i] = mail[i] /\ i \in DOMAIN mail
          BY <4>1, <4>2, <4>4 DEF Goes, Mailed
        <5>2. mail[i].id > 0 => mail[i].id > sent[need].id
          BY <1>1, <1>2, <5>1 DEF InIdOrder
        <5>3. sent[need].id \in 1..asked
          BY <1>2
        <5> QED BY <5>1, <5>2, <5>3
      <4>5. CASE i \in Len(mail) + 1..Len(mail')
        <5>1. mail'[i].id \in {0, asked + 1}
          BY <4>1, <4>5 DEF Goes, Mailed
        <5> QED BY <1>1, <5>1
      <4> QED BY <4>3, <4>4, <4>5
    <3> QED BY <3>1, <3>2 DEF SturdySent
  <2> QED BY <2>1, <2>2
<1>8. sent[need].id >= asked - late /\ sent[need].id \in 1..asked
  BY <1>1, <1>2, <1>4 DEF Owed
<1>9. /\ heard'.want \in 0..asked /\ heard'.got \in 0..asked
      /\ heard' = [want |-> heard'.want, got |-> heard'.got, bid |-> heard'.bid]
      /\ Heard'
  <2> DEFINE got == sent[need].id
  <2>1. heard'.want = asked /\ heard'.got = got /\ heard'.bid = bid
    BY <1>1
  <2>2. got \in 0..asked /\ asked \in 0..asked /\ got <= asked /\ asked - got <= late
    BY <1>1, <1>8
  <2> HIDE DEF got
  <2>3. heard'.got <= heard'.want /\ heard'.want - heard'.got <= late
    BY <2>1, <2>2
  <2> QED BY <1>1, <2>1, <2>2, <2>3 DEF Heard, got
<1> QED BY <1>1, <1>2, <1>3, <1>6, <1>7, <1>9, ServerKept

\* Between two reads.
LEMMA UnreadKept ==
  ASSUME SessionInv, task \in {"idle", "game"}, Outcome,
         sent' = sent, need' = need, late' = late, heard' = heard
  PROVE  SessionInv'
<1>1. /\ Types /\ SturdySent /\ Owed /\ Heard /\ need = 0 /\ ~Reading
  BY DEF SessionInv, Owed, Reading
<1>2. Dropped(0)
  BY <1>1, OutcomeFacts, NothingDropped
<1>3. SturdySent'
  BY <1>1, <1>2, SturdyGoes
<1>4. CaughtUp
  <2>1. Waiting = asked + 1 - late
    BY <1>1 DEF Waiting
  <2>2. \A i \in DOMAIN sent : i > need
    BY <1>1, SentTyped
  <2> QED BY <1>1, <2>1, <2>2 DEF CaughtUp, Owed
<1> QED BY <1>1, <1>2, <1>3, <1>4, HeardKept, ServerKept

LEMMA AuthenticateOutcome ==
  ASSUME Types, Authenticate
  PROVE  Outcome
<1>1. Types /\ Reading /\ BodyIsThere /\ ReadBody(NoBid) /\ Trailing = 0
  BY DEF Authenticate, BodyIsThere, Trailing
<1>2. CASE End(<<>>) \/ End(<<"AUTH_REJECT">>)
  <2>1. <<>> \in TellNews /\ <<"AUTH_REJECT">> \in TellNews
    BY DEF TellNews
  <2> QED BY <1>1, <1>2, <2>1, EndOutcome
<1>3. CASE task' = "idle" /\ error_count' = 0 /\ Tell(<<"ACK">>)
  <2>1. <<"ACK">> \in TellNews
    BY DEF TellNews
  <2>2. PICK m \in 0..3 : Mailed(m, 0)
    BY <1>1, <1>3, <2>1, TellNewsMailed
  <2>3. Trailing' = 4 /\ error_count' \in 0..MAX_BID_ERRORS - 1
    BY <1>3, SessionAssumption DEF Trailing, Reading
  <2>4. Goes(m, 0)
    BY <1>1, <1>3, <2>2, <2>3 DEF Goes
  <2> QED BY <2>4 DEF Outcome
<1> QED BY <1>2, <1>3 DEF Authenticate

LEMMA AuthenticateKept == ASSUME SessionInv, Authenticate PROVE SessionInv'
<1>1. Types /\ BodyIsThere /\ Outcome
  BY AuthenticateOutcome DEF SessionInv, Authenticate
<1> QED BY <1>1, BodyKept DEF Authenticate

LEMMA AliveOutcome ==
  ASSUME Types, Alive
  PROVE  Outcome
<1>1. Types /\ Reading /\ BodyIsThere /\ ReadBody(NoBid) /\ Trailing = 0
  BY DEF Alive, BodyIsThere, Trailing
<1>2. CASE End(<<>>)
  <2>1. <<>> \in TellNews
    BY DEF TellNews
  <2> QED BY <1>1, <1>2, <2>1, EndOutcome
<1>3. ASSUME NEW news \in {<<>>} \cup StillBorn, task' = "idle", error_count' = 0, Tell(news)
      PROVE  Outcome
  <2>1. news \in TellNews
    BY DEF TellNews
  <2>2. PICK m \in 0..3 : Mailed(m, 0)
    BY <1>1, <1>3, <2>1, TellNewsMailed
  <2>3. Trailing' = 4 /\ error_count' \in 0..MAX_BID_ERRORS - 1
    BY <1>3, SessionAssumption DEF Trailing, Reading
  <2>4. Goes(m, 0)
    BY <1>1, <1>3, <2>2, <2>3 DEF Goes
  <2> QED BY <2>4 DEF Outcome
<1>4. CASE task' = "bid" /\ error_count' = 0 /\ Request(FirstRound)
  <2>1. FirstRound \in AskNews
    BY DEF AskNews
  <2>2. PICK m \in 1..3 : Mailed(m, 1)
    BY <1>1, <1>4, <2>1, AskNewsMailed
  <2>3. error_count' \in 0..MAX_BID_ERRORS - 1
    BY <1>4, SessionAssumption
  <2>4. Goes(m, 1)
    BY <1>1, <1>4, <2>2, <2>3 DEF Goes
  <2> QED BY <2>4 DEF Outcome
<1> QED BY <1>2, <1>3, <1>4 DEF Alive

LEMMA AliveKept == ASSUME SessionInv, Alive PROVE SessionInv'
<1>1. Types /\ BodyIsThere /\ Outcome
  BY AliveOutcome DEF SessionInv, Alive
<1> QED BY <1>1, BodyKept DEF Alive

LEMMA BidOutcome ==
  ASSUME Types, Bid
  PROVE  Outcome
<1> DEFINE amount == IF Body # <<>> /\ TypeOf(Body[1]) = "BID_RESPONSE"
                     THEN BidAmount(Body[1]) ELSE <<>>
<1>1. Types /\ Reading /\ BodyIsThere /\ task = "bid" /\ Trailing = 0
  BY DEF Bid, BodyIsThere, Trailing
<1>2. \/ ReadBody(NoBid) /\ Strike(<<>>)
      \/ ReadBody(NoBid) /\ Strike(<<"BID_REJECT">>)
      \/ ReadBody(amount) /\ task' = "game" /\ error_count' = 0 /\ Tell(<<"ACK">>)
  BY DEF Bid
<1> HIDE DEF amount
<1>3. CASE ReadBody(NoBid) /\ (Strike(<<>>) \/ Strike(<<"BID_REJECT">>))
  BY <1>1, <1>3, StrikeOutcome
<1>4. CASE ReadBody(amount) /\ task' = "game" /\ error_count' = 0 /\ Tell(<<"ACK">>)
  <2>1. <<"ACK">> \in TellNews
    BY DEF TellNews
  <2>2. PICK m \in 0..3 : Mailed(m, 0) /\ m = 1
    BY <1>1, <1>4, <2>1, TellNewsMailed
  <2>3. Trailing' = 1 /\ error_count' \in 0..MAX_BID_ERRORS - 1
    BY <1>4, SessionAssumption DEF Trailing, Reading
  <2>4. Goes(m, 0)
    BY <1>1, <1>4, <2>2, <2>3 DEF Goes
  <2> QED BY <2>4 DEF Outcome
<1> QED BY <1>2, <1>3, <1>4

LEMMA BidKept == ASSUME SessionInv, Bid PROVE SessionInv'
<1>1. Types /\ BodyIsThere /\ Outcome
  BY BidOutcome DEF SessionInv, Bid
<1> QED BY <1>1, BodyKept DEF Bid

LEMMA PingOutcome ==
  ASSUME Types, Ping
  PROVE  Outcome
<1>1. /\ Types /\ task = "idle" /\ task' = "alive" /\ Request(<<"ALIVE">>)
      /\ error_count' = error_count /\ need' = need /\ sent' = sent /\ late' = late /\ heard' = heard
  BY DEF Ping
<1>2. <<"ALIVE">> \in AskNews
  BY DEF AskNews
<1>3. PICK m \in 1..3 : Mailed(m, 1) /\ m = 1
  BY <1>1, <1>2, AskNewsMailed
<1>4. Trailing = 4 /\ error_count' \in 0..MAX_BID_ERRORS - 1
  BY <1>1 DEF Trailing, Reading, Types
<1>5. Goes(m, 1)
  BY <1>1, <1>3, <1>4 DEF Goes
<1> QED BY <1>5 DEF Outcome

LEMMA PingKept == ASSUME SessionInv, Ping PROVE SessionInv'
<1>1. Types /\ task = "idle" /\ Outcome
  BY PingOutcome DEF SessionInv, Ping
<1> QED BY <1>1, UnreadKept DEF Ping

LEMMA PlayOutcome ==
  ASSUME Types, Play
  PROVE  Outcome
<1>1. /\ Types /\ task = "game" /\ Trailing = 1
      /\ error_count' = error_count /\ need' = need /\ sent' = sent /\ late' = late /\ heard' = heard
      /\ error_count' \in 0..MAX_BID_ERRORS - 1
  BY DEF Play, Trailing, Reading, Types
<1>2. CASE task' = "bid" /\ Request(<<"BID_RESULT", "ROUND_START", "BID_REQUEST">>)
  <2>1. <<"BID_RESULT", "ROUND_START", "BID_REQUEST">> \in AskNews
    BY DEF AskNews
  <2>2. PICK m \in 1..3 : Mailed(m, 1)
    BY <1>1, <1>2, <2>1, AskNewsMailed
  <2>3. Goes(m, 1)
    BY <1>1, <1>2, <2>2 DEF Goes
  <2> QED BY <2>3 DEF Outcome
<1>3. ASSUME NEW news \in TellNews, task' = "idle", Tell(news)
      PROVE  Outcome
  <2>1. PICK m \in 0..3 : Mailed(m, 0)
    BY <1>1, <1>3, TellNewsMailed
  <2>2. Trailing' = 4
    BY <1>3 DEF Trailing, Reading
  <2>3. Goes(m, 0)
    BY <1>1, <1>3, <2>1, <2>2 DEF Goes
  <2> QED BY <2>3 DEF Outcome
<1>4. LastWords \subseteq TellNews
  BY DEF TellNews
<1> QED BY <1>2, <1>3, <1>4 DEF Play

LEMMA PlayKept == ASSUME SessionInv, Play PROVE SessionInv'
<1>1. Types /\ task = "game" /\ Outcome
  BY PlayOutcome DEF SessionInv, Play
<1> QED BY <1>1, UnreadKept DEF Play
-----------------------------------------------------------------------------
(* The steps of the client. *)

\* The client has read a message ...
MailRead ==
  /\ Len(mail) \in Nat \ {0} /\ DOMAIN mail = 1..Len(mail)
  /\ mail' \in Seq([type : DOMAIN MsgType, id : 0..asked])
  /\ DOMAIN mail' = 1..Len(mail) - 1 /\ Len(mail') = Len(mail) - 1
  /\ \A i \in 1..Len(mail) - 1 : mail'[i] = mail[i + 1]

\* ... and sent the answer f to the request id.
Answered(id, f) ==
  /\ sent' \in Seq([byte : 0..255, id : 1..asked])
  /\ DOMAIN sent' = 1..Len(sent) + Len(f)
  /\ \A i \in 1..Len(sent) : sent'[i] = sent[i]
  /\ \A i \in Len(sent) + 1..Len(sent) + Len(f) :
       sent'[i].byte = f[i - Len(sent)] /\ sent'[i].id = id

LEMMA TailRead ==
  ASSUME Types, mail # <<>>, mail' = Tail(mail)
  PROVE  MailRead
<1> DEFINE T == [type : DOMAIN MsgType, id : 0..asked]
<1>1. mail \in Seq(T)
  BY DEF Types
<1> HIDE DEF T
<1>2. Len(mail) \in Nat \ {0} /\ DOMAIN mail = 1..Len(mail)
  BY <1>1, EmptySeq, LenProperties
<1>3. /\ Tail(mail) \in Seq(T) /\ Len(Tail(mail)) = Len(mail) - 1
      /\ \A i \in 1..Len(Tail(mail)) : Tail(mail)[i] = mail[i + 1]
  BY <1>1, HeadTailProperties
<1>4. DOMAIN Tail(mail) = 1..Len(Tail(mail))
  BY <1>3, LenProperties
<1>5. /\ Tail(mail) \in Seq(T) /\ DOMAIN Tail(mail) = 1..Len(mail) - 1
      /\ Len(Tail(mail)) = Len(mail) - 1
      /\ \A i \in 1..Len(mail) - 1 : Tail(mail)[i] = mail[i + 1]
  BY <1>3, <1>4
<1> QED BY <1>2, <1>5 DEF MailRead, T

LEMMA AnswerAdded ==
  ASSUME Types, NEW id \in 1..asked, NEW f \in Seq(0..255),
         sent' = sent \o [i \in DOMAIN f |-> [byte |-> f[i], id |-> id]]
  PROVE  Answered(id, f)
<1> DEFINE T == [byte : 0..255, id : 1..asked]
           new == [i \in DOMAIN f |-> [byte |-> f[i], id |-> id]]
<1>1. sent \in Seq(T)
  BY DEF Types
<1>2. DOMAIN f = 1..Len(f) /\ Len(f) \in Nat
  BY LenProperties
<1>3. new \in Seq(T) /\ Len(new) = Len(f)
  <2>1. \A i \in DOMAIN f : f[i] \in 0..255
    BY ElementOfSeq, <1>2
  <2>2. new \in [1..Len(f) -> T]
    BY <1>2, <2>1
  <2> HIDE DEF new, T
  <2>3. PICK n \in Nat : n = Len(f)
    BY <1>2
  <2>4. new \in [1..n -> T]
    BY <2>2, <2>3
  <2>5. new \in Seq(T) /\ Len(new) = n
    BY <2>4
  <2> QED BY <2>3, <2>5
<1>4. \A i \in DOMAIN f : new[i].byte = f[i] /\ new[i].id = id
  OBVIOUS
<1> HIDE DEF new, T
<1>5. /\ sent' \in Seq(T)
      /\ Len(sent') = Len(sent) + Len(new)
      /\ \A i \in 1..Len(sent) + Len(new) :
           sent'[i] = IF i <= Len(sent) THEN sent[i] ELSE new[i - Len(sent)]
  BY <1>1, <1>3, ConcatProperties DEF new
<1>6. Len(sent) \in Nat
  BY <1>1
<1>7. DOMAIN sent' = 1..Len(sent) + Len(f)
  <2>1. DOMAIN sent' = 1..Len(sent')
    BY <1>5, LenProperties
  <2> QED BY <1>3, <1>5, <2>1
<1>8. ASSUME NEW i \in Len(sent) + 1..Len(sent) + Len(f)
      PROVE  sent'[i].byte = f[i - Len(sent)] /\ sent'[i].id = id
  <2> DEFINE k == i - Len(sent)
  <2>1. k \in 1..Len(f) /\ i \in 1..Len(sent) + Len(new) /\ ~ (i <= Len(sent))
    BY <1>2, <1>3, <1>6
  <2>2. sent'[i] = new[k]
    BY <1>5, <2>1
  <2> HIDE DEF k
  <2>3. new[k].byte = f[k] /\ new[k].id = id
    BY <1>2, <1>4, <2>1
  <2> QED BY <2>2, <2>3 DEF k
<1>9. ASSUME NEW i \in 1..Len(sent) PROVE sent'[i] = sent[i]
  BY <1>2, <1>3, <1>5, <1>6
<1> QED BY <1>5, <1>7, <1>8, <1>9 DEF Answered, T

\* What is in front of the other messages to the client does not matter to them.
LEMMA TailKept ==
  ASSUME Types, MailKinds, MailRuns, MailRead, task' = task, asked' = asked
  PROVE  MailKinds' /\ MailRuns'
<1> DEFINE len == Len(mail)
<1>1. /\ len \in Nat \ {0} /\ DOMAIN mail = 1..len /\ asked \in Nat /\ Trailing \in Nat
      /\ DOMAIN mail' = 1..len - 1 /\ Len(mail') = len - 1
      /\ \A i \in 1..len - 1 : mail'[i] = mail[i + 1] /\ i + 1 \in 1..len
      /\ \A i \in 1..len : mail[i].id \in 0..asked
      /\ Trailing' = Trailing
  BY MailTyped DEF MailRead, Trailing, Reading
<1> HIDE DEF len
<1>2. MailKinds'
  BY <1>1 DEF MailKinds
<1>3. ShortRuns'
  <2> SUFFICES ASSUME NEW i \in 1..len - 1, NEW j \in i..len - 1, \A l \in i..j : mail'[l].id = 0
               PROVE  j - i < 4
    BY <1>1 DEF ShortRuns
  <2>1. i + 1 \in 1..len /\ j + 1 \in i + 1..len
    BY <1>1
  <2>2. ASSUME NEW l \in i + 1..j + 1 PROVE mail[l].id = 0
    <3>1. l - 1 \in i..j /\ l - 1 \in 1..len - 1 /\ (l - 1) + 1 = l
      BY <1>1, <2>1
    <3> QED BY <1>1, <3>1
  <2>3. (j + 1) - (i + 1) < 4
    BY <1>1, <2>1, <2>2 DEF MailRuns, ShortRuns, len
  <2> QED BY <1>1, <2>1, <2>3
<1>4. FewAfterAll'
  <2> SUFFICES ASSUME NEW i \in 1..len - 1, \A l \in i..len - 1 : mail'[l].id = 0
               PROVE  (len - 1) - i < Trailing
    BY <1>1 DEF FewAfterAll
  <2>1. i + 1 \in 1..len
    BY <1>1
  <2>2. ASSUME NEW l \in i + 1..len PROVE mail[l].id = 0
    <3>1. l - 1 \in i..len - 1 /\ l - 1 \in 1..len - 1 /\ (l - 1) + 1 = l
      BY <1>1, <2>1
    <3> QED BY <1>1, <3>1
  <2>3. len - (i + 1) < Trailing
    BY <1>1, <2>1, <2>2 DEF MailRuns, FewAfterAll, len
  <2> QED BY <1>1, <2>1, <2>3
<1>5. FewAfterEach'
  <2> SUFFICES ASSUME NEW i \in 1..len - 1, mail'[i].id > 0
               PROVE  (len - 1) - i <= 5 * (asked - mail'[i].id) + Trailing
    BY <1>1 DEF FewAfterEach
  <2>1. i + 1 \in 1..len /\ mail'[i] = mail[i + 1]
    BY <1>1
  <2>2. len - (i + 1) <= 5 * (asked - mail[i + 1].id) + Trailing
    BY <1>1, <2>1 DEF MailRuns, FewAfterEach, len
  <2>3. len - (i + 1) = (len - 1) - i
    BY <1>1
  <2> QED BY <2>1, <2>2, <2>3
<1> QED BY <1>2, <1>3, <1>4, <1>5 DEF MailRuns

\* A message that needs no answer.
LEMMA ReadOnlyKept ==
  ASSUME SessionInv, MailRead, sent' = sent, offers' = offers,
         task' = task, error_count' = error_count, need' = need, asked' = asked, late' = late,
         heard' = heard
  PROVE  SessionInv'
<1>1. Types /\ MailKinds /\ InIdOrder /\ Auth /\ SturdySent /\ Owed /\ Heard /\ MailRuns
  BY DEF SessionInv
<1>2. /\ DOMAIN mail = 1..Len(mail) /\ DOMAIN mail' = 1..Len(mail) - 1
      /\ Len(mail) \in Nat
      /\ \A i \in 1..Len(mail) - 1 : mail'[i] = mail[i + 1] /\ i + 1 \in 1..Len(mail)
  BY DEF MailRead
<1>3. Types'
  BY <1>1 DEF Types, MailRead
<1>4. MailKinds' /\ MailRuns'
  BY <1>1, TailKept
<1>5. InIdOrder'
  <2>1. \A i \in DOMAIN mail', j \in DOMAIN sent' : mail'[i].id > 0 => mail'[i].id > sent'[j].id
    BY <1>1, <1>2 DEF InIdOrder
  <2>2. ASSUME NEW i \in DOMAIN mail', NEW j \in DOMAIN mail', i < j, mail'[i].id > 0, mail'[j].id > 0
        PROVE  mail'[i].id < mail'[j].id
    <3>1. i + 1 < j + 1 /\ mail'[i] = mail[i + 1] /\ mail'[j] = mail[j + 1]
          /\ i + 1 \in DOMAIN mail /\ j + 1 \in DOMAIN mail
      BY <1>2, <2>2
    <3> QED BY <1>1, <2>2, <3>1 DEF InIdOrder
  <2> QED BY <1>1, <2>1, <2>2 DEF InIdOrder
<1>6. Auth'
  BY <1>1 DEF Auth, Bytes
<1>7. SturdySent'
  BY <1>1, <1>2 DEF SturdySent
<1>8. Owed'
  <2>1. Waiting' = Waiting /\ Reading' = Reading
    BY DEF Waiting, Reading
  <2> QED BY <1>1, <1>2, <2>1 DEF Owed
<1>9. Heard'
  BY <1>1 DEF Heard
<1> QED BY <1>3, <1>4, <1>5, <1>6, <1>7, <1>8, <1>9 DEF SessionInv

\* An answer to the request the client reads.
LEMMA AnswerKept ==
  ASSUME SessionInv, MailRead, NEW id \in 1..asked, id = mail[1].id,
         NEW f \in Seq(0..255), Answered(id, f),
         IF id = 1 THEN f = Frame(AuthResponseMsg(Name)) ELSE Sturdy(f),
         offers' \in Seq({NoBid} \cup {<<m>> : m \in Bids}), Len(offers') = asked,
         task' = task, error_count' = error_count, need' = need, asked' = asked, late' = late,
         heard' = heard
  PROVE  SessionInv'
<1> DEFINE len == Len(sent)
<1>1. Types /\ MailKinds /\ InIdOrder /\ Auth /\ SturdySent /\ Owed /\ Heard /\ MailRuns
  BY DEF SessionInv
<1>2. /\ DOMAIN mail = 1..Len(mail) /\ DOMAIN mail' = 1..Len(mail) - 1
      /\ Len(mail) \in Nat \ {0} /\ 1 \in DOMAIN mail
      /\ \A i \in 1..Len(mail) - 1 : mail'[i] = mail[i + 1] /\ i + 1 \in 1..Len(mail) /\ 1 < i + 1
  BY DEF MailRead
<1>3. /\ len \in Nat /\ Len(f) \in Nat /\ DOMAIN f = 1..Len(f)
      /\ DOMAIN sent = 1..len /\ DOMAIN sent' = 1..len + Len(f)
      /\ \A i \in 1..len : sent'[i] = sent[i]
      /\ \A i \in len + 1..len + Len(f) : sent'[i].byte = f[i - len] /\ sent'[i].id = id
      /\ \A i \in 1..len : sent[i].id \in 1..asked /\ sent[i].byte \in Nat
  BY <1>1, SentTyped, LenProperties DEF Answered
<1>4. /\ asked \in Nat \ {0} /\ late \in Nat /\ id \in Nat
      /\ \A i \in 1..len : sent[i].id < id
      /\ id >= Waiting
  <2>1. ASSUME NEW i \in 1..len PROVE mail[1].id > sent[i].id
    <3>1. mail[1].id > 0 /\ i \in DOMAIN sent
      BY <1>3
    <3> QED BY <1>1, <1>2, <3>1 DEF InIdOrder
  <2>2. mail[1].id >= Waiting
    BY <1>1, <1>2 DEF Owed
  <2> QED BY <1>1, <1>3, <2>1, <2>2 DEF Types
<1> HIDE DEF len
<1>5. ASSUME NEW i \in DOMAIN sent'
      PROVE  i \in 1..len \/ i \in len + 1..len + Len(f)
  BY <1>3
<1>6. Types'
  BY <1>1 DEF Types, MailRead, Answered
<1>7. MailKinds' /\ MailRuns'
  BY <1>1, TailKept
<1>8. InIdOrder'
  <2>1. ASSUME NEW i \in DOMAIN sent', NEW j \in DOMAIN sent', i <= j
        PROVE  sent'[i].id <= sent'[j].id
    <3>1. CASE j \in 1..len
      <4>1. i \in 1..len
        BY <1>3, <2>1, <3>1
      <4> QED BY <1>1, <1>3, <2>1, <3>1, <4>1 DEF InIdOrder
    <3>2. CASE j \in len + 1..len + Len(f)
      <4>1. CASE i \in 1..len
        <5>1. sent'[i] = sent[i] /\ sent[i].id \in 1..asked /\ sent[i].id < id
          BY <1>3, <1>4, <4>1
        <5>2. sent[i].id <= id
          BY <1>4, <5>1
        <5> QED BY <1>3, <3>2, <5>1, <5>2
      <4>2. CASE i \in len + 1..len + Len(f)
        BY <1>3, <1>4, <3>2, <4>2
      <4> QED BY <1>5, <4>1, <4>2
    <3> QED BY <1>5, <3>1, <3>2
  <2>2. ASSUME NEW i \in DOMAIN mail', NEW j \in DOMAIN sent', mail'[i].id > 0
        PROVE  mail'[i].id > sent'[j].id
    <3>1. mail'[i] = mail[i + 1] /\ i + 1 \in DOMAIN mail /\ 1 < i + 1
      BY <1>2
    <3>2. CASE j \in 1..len
      BY <1>1, <1>3, <2>2, <3>1, <3>2 DEF InIdOrder
    <3>3. CASE j \in len + 1..len + Len(f)
      <4>1. mail[1].id < mail[i + 1].id
        BY <1>1, <1>2, <1>4, <2>2, <3>1 DEF InIdOrder
      <4>2. sent'[j].id = mail[1].id
        BY <1>3, <3>3
      <4> QED BY <3>1, <4>1, <4>2
    <3> QED BY <1>5, <3>2, <3>3
  <2>3. ASSUME NEW i \in DOMAIN mail', NEW j \in DOMAIN mail', i < j, mail'[i].id > 0, mail'[j].id > 0
        PROVE  mail'[i].id < mail'[j].id
    <3>1. i + 1 < j + 1 /\ mail'[i] = mail[i + 1] /\ mail'[j] = mail[j + 1]
          /\ i + 1 \in DOMAIN mail /\ j + 1 \in DOMAIN mail
      BY <1>2, <2>3
    <3> QED BY <1>1, <2>3, <3>1 DEF InIdOrder
  <2> QED BY <2>1, <2>2, <2>3 DEF InIdOrder
<1>9. Auth'
  <2> SUFFICES ASSUME task = "auth" PROVE Auth'
    BY DEF Auth
  <2>1. asked = 1 /\ late = 0 /\ id = 1
    BY <1>1 DEF Auth
  <2>2. need = 0
    <3>1. CASE need # 0
      <4>1. Waiting = asked + 1 - late
        BY <3>1 DEF Waiting
      <4> QED BY <1>4, <2>1, <4>1
    <3> QED BY <3>1
  <2>3. len = 0
    <3>1. ASSUME len # 0 PROVE FALSE
      <4>1. 1 \in 1..len
        BY <1>3, <3>1
      <4>2. sent[1].id \in 1..asked /\ sent[1].id < id
        BY <1>3, <1>4, <4>1
      <4> QED BY <2>1, <4>2
    <3> QED BY <3>1
  <2>4. Bytes(sent)' = f
    <3>1. DOMAIN sent' = 1..Len(f) /\ \A i \in 1..Len(f) : sent'[i].byte = f[i]
      BY <1>3, <2>3
    <3>2. f = [i \in 1..Len(f) |-> f[i]]
      BY <1>3
    <3>3. Bytes(sent)' = [i \in 1..Len(f) |-> f[i]]
      BY <3>1 DEF Bytes
    <3> QED BY <3>2, <3>3
  <2>5. f = Frame(AuthResponseMsg(Name))
    BY <2>1
  <2> QED BY <2>1, <2>2, <2>4, <2>5 DEF Auth
<1>10. SturdySent'
  <2> SUFFICES ASSUME task \notin {"auth", "over"} PROVE SturdySent'
    BY DEF SturdySent
  <2>1. /\ \A i \in DOMAIN mail : mail[i].id # 1
        /\ \A i \in DOMAIN sent : sent[i].byte < 128
        /\ \A i, j \in DOMAIN sent : sent[i].id = sent[j].id => j <= i + sent[i].byte
    BY <1>1 DEF SturdySent
  <2>2. Sturdy(f)
    BY <1>2, <2>1
  <2>3. \A k \in 1..Len(f) : f[k] \in 0..255
    BY <1>3, ElementOfSeq
  <2>4. ASSUME NEW i \in DOMAIN mail' PROVE mail'[i].id # 1
    BY <1>2, <2>1
  <2>5. ASSUME NEW i \in len + 1..len + Len(f)
        PROVE  /\ sent'[i].byte < 128
               /\ i + sent'[i].byte >= len + Len(f)
    <3> DEFINE k == i - len
    <3>1. k \in 1..Len(f) /\ i = len + k /\ sent'[i].byte = f[k]
      BY <1>3
    <3> HIDE DEF k
    <3>2. f[k] < 128 /\ k + f[k] >= Len(f) /\ f[k] \in 0..255
      BY <1>3, <2>2, <2>3, <3>1 DEF Sturdy
    <3>3. PICK v \in 0..127 : v = f[k] /\ k + v >= Len(f)
      <4>1. PICK y \in 0..255 : y = f[k]
        BY <3>2
      <4>2. y < 128
        BY <3>2, <4>1
      <4>3. y \in 0..127
        BY <4>2
      <4> QED BY <3>2, <4>1, <4>3
    <3>4. sent'[i].byte = v
      BY <3>1, <3>3
    <3>5. i + v >= len + Len(f) /\ v < 128
      <4>1. i = len + k /\ len \in Nat /\ k \in Nat /\ Len(f) \in Nat
        BY <1>3, <3>1
      <4>2. v \in 0..127 /\ k + v >= Len(f)
        BY <3>3
      <4> DEFINE n == Len(f)
      <4>3. i = len + k /\ n \in Nat /\ k + v >= n
        BY <4>1, <4>2
      <4> HIDE DEF n
      <4>4. i + v >= len + n /\ v < 128
        BY <4>1, <4>2, <4>3
      <4> QED BY <4>4 DEF n
    <3> QED BY <3>4, <3>5
  <2>6. ASSUME NEW i \in DOMAIN sent' PROVE sent'[i].byte < 128
    BY <1>3, <1>5, <2>1, <2>5
  <2>7. ASSUME NEW i \in DOMAIN sent', NEW j \in DOMAIN sent', sent'[i].id = sent'[j].id
        PROVE  j <= i + sent'[i].byte
    <3>1. CASE i \in 1..len /\ j \in 1..len
      <4>1. sent'[i] = sent[i] /\ sent'[j] = sent[j]
        BY <1>3, <3>1
      <4>2. j <= i + sent[i].byte
        BY <1>3, <2>1, <2>7, <3>1, <4>1
      <4> QED BY <4>1, <4>2
    <3>2. CASE i \in 1..len /\ j \in len + 1..len + Len(f)
      <4>1. sent'[i] = sent[i] /\ sent[i].id < id /\ sent[i].id \in 1..asked /\ sent'[j].id = id
        BY <1>3, <1>4, <3>2
      <4>2. sent[i].id = id
        BY <2>7, <4>1
      <4> QED BY <1>4, <4>1, <4>2
    <3>3. CASE i \in len + 1..len + Len(f) /\ j \in 1..len
      <4>1. sent'[j] = sent[j] /\ sent[j].id < id /\ sent[j].id \in 1..asked /\ sent'[i].id = id
        BY <1>3, <1>4, <3>3
      <4>2. sent[j].id = id
        BY <2>7, <4>1
      <4> QED BY <1>4, <4>1, <4>2
    <3>4. CASE i \in len + 1..len + Len(f) /\ j \in len + 1..len + Len(f)
      <4> DEFINE v == i + sent'[i].byte
      <4>1. v >= len + Len(f)
        BY <2>5, <3>4
      <4>2. PICK k \in 1..Len(f) : k = i - len
        BY <1>3, <3>4
      <4>3. sent'[i].byte = f[k] /\ f[k] \in 0..255
        <5>1. sent'[i].byte = f[k]
          BY <1>3, <3>4, <4>2
        <5>2. f[k] \in 0..255
          BY <2>3, <4>2
        <5> QED BY <5>1, <5>2
      <4>4. v \in Int
        <5>1. \A x \in 0..255 : i + x \in Int
          BY <1>3, <3>4
        <5> QED BY <4>3, <5>1
      <4> HIDE DEF v
      <4>5. j <= v
        BY <1>3, <3>4, <4>1, <4>4
      <4> QED BY <4>5 DEF v
    <3> QED BY <1>5, <3>1, <3>2, <3>3, <3>4
  <2> QED BY <2>4, <2>6, <2>7 DEF SturdySent
<1>11. Owed'
  <2>1. Waiting' = Waiting /\ Reading' = Reading
    BY DEF Waiting, Reading
  <2>2. Waiting >= asked - late /\ Waiting \in Int
    BY <1>4 DEF Waiting
  <2>3. \A i \in DOMAIN mail' : mail'[i].id > 0 => mail'[i].id >= Waiting
    BY <1>1, <1>2 DEF Owed
  <2>4. ASSUME task # "over", NEW i \in DOMAIN sent'
        PROVE  /\ Reading => sent'[i].id >= asked - late
               /\ i > need => sent'[i].id >= Waiting
    <3>1. CASE i \in 1..len
      BY <1>1, <1>3, <2>4, <3>1 DEF Owed
    <3>2. CASE i \in len + 1..len + Len(f)
      <4>1. id >= asked - late
        BY <1>4, <2>2
      <4> QED BY <1>3, <1>4, <3>2, <4>1
    <3> QED BY <1>5, <3>1, <3>2
  <2> QED BY <1>1, <2>1, <2>3, <2>4 DEF Owed
<1>12. Heard'
  BY <1>1 DEF Heard
<1> QED BY <1>6, <1>7, <1>8, <1>9, <1>10, <1>11, <1>12 DEF SessionInv

LEMMA ClientReadsKept ==
  ASSUME AnswersFit, SessionInv, ClientReads
  PROVE  SessionInv'
<1> DEFINE m == Head(mail)
<1>1. /\ Types /\ MailKinds /\ mail # <<>> /\ mail' = Tail(mail)
      /\ task' = task /\ error_count' = error_count /\ need' = need /\ asked' = asked
      /\ late' = late /\ heard' = heard
  BY DEF SessionInv, ClientReads
<1>2. MailRead
  BY <1>1, TailRead
<1>3. m = mail[1] /\ 1 \in DOMAIN mail /\ m.id \in 0..asked
  <2>1. 1 \in 1..Len(mail)
    BY <1>2 DEF MailRead
  <2>2. mail[1].id \in 0..asked
    BY <1>1, <2>1, MailTyped
  <2>3. Head(mail) = mail[1]
    BY <1>1 DEF Types
  <2> QED BY <1>2, <2>1, <2>2, <2>3 DEF MailRead
<1> HIDE DEF m
<1>4. CASE Answers(m.type) = {}
  <2>1. sent' = sent /\ offers' = offers
    BY <1>4 DEF ClientReads, m
  <2> QED BY <1>1, <1>2, <2>1, ReadOnlyKept
<1>5. CASE Answers(m.type) # {}
  <2>1. PICK a \in Answers(m.type) :
          /\ sent' = sent \o [i \in DOMAIN Frame(a.msg) |-> [byte |-> Frame(a.msg)[i], id |-> m.id]]
          /\ offers' = [offers EXCEPT ![m.id] = a.offer]
    BY <1>5 DEF ClientReads, m
  <2>2. m.type \in Requests
    BY <2>1 DEF Answers, Requests
  <2>3. m.id \in 1..asked /\ (m.id = 1 => m.type = "AUTH_REQUEST") /\ (m.id # 1 => m.type \in {"ALIVE", "BID_REQUEST"})
    <3>1. /\ m.id = 0 => m.type \notin Requests
          /\ m.id = 1 => m.type = "AUTH_REQUEST"
          /\ m.id > 1 => m.type \in {"ALIVE", "BID_REQUEST"}
      BY <1>1, <1>3 DEF MailKinds, Requests
    <3>2. asked \in Nat
      BY <1>1 DEF Types
    <3>3. PICK id \in 0..asked : id = m.id
      BY <1>3
    <3>4. id # 0 /\ id \in 1..asked /\ (id # 1 => id > 1)
      BY <2>2, <3>1, <3>2, <3>3
    <3> QED BY <3>1, <3>3, <3>4
  <2> DEFINE f == Frame(a.msg)
  <2>4. f \in Seq(0..255) /\ IF m.type = "AUTH_REQUEST" THEN Announced(f) ELSE Sturdy(f)
    BY <2>2 DEF AnswersFit, Requests
  <2>5. m.id = 1 => f = Frame(AuthResponseMsg(Name))
    BY <2>1, <2>3 DEF Answers
  <2>6. a.offer \in {NoBid} \cup {<<x>> : x \in Bids}
    BY <2>1, <2>2 DEF Answers, Requests
  <2>7. sent' = sent \o [i \in DOMAIN f |-> [byte |-> f[i], id |-> m.id]]
    BY <2>1
  <2> HIDE DEF f
  <2>8. PICK id \in 1..asked : id = m.id
    BY <2>3
  <2>9. sent' = sent \o [i \in DOMAIN f |-> [byte |-> f[i], id |-> id]]
    BY <2>7, <2>8
  <2>10. Answered(id, f)
    BY <1>1, <2>4, <2>9, AnswerAdded
  <2>11. offers' \in Seq({NoBid} \cup {<<x>> : x \in Bids}) /\ Len(offers') = asked
    <3> DEFINE S == {NoBid} \cup {<<x>> : x \in Bids}
    <3>1. offers \in Seq(S) /\ Len(offers) = asked /\ asked \in Nat
      BY <1>1 DEF Types
    <3>2. a.offer \in S /\ offers' = [offers EXCEPT ![id] = a.offer]
      BY <2>1, <2>6, <2>8
    <3> HIDE DEF S
    <3>3. offers' \in Seq(S) /\ Len(offers') = Len(offers)
      BY <3>1, <3>2, ExceptSeq
    <3> QED BY <3>1, <3>3 DEF S
  <2>12. IF id = 1 THEN f = Frame(AuthResponseMsg(Name)) ELSE Sturdy(f)
    BY <2>3, <2>4, <2>5, <2>8
  <2> QED BY <1>1, <1>2, <1>3, <2>4, <2>8, <2>10, <2>11, <2>12, AnswerKept
<1> QED BY <1>4, <1>5

-----------------------------------------------------------------------------
(* The specification. *)

LEMMA InitSession == ASSUME Init PROVE SessionInv
<1> DEFINE T == [type : DOMAIN MsgType, id : 0..1]
           S == {NoBid} \cup {<<m>> : m \in Bids}
<1>1. /\ task = "auth" /\ error_count = 0 /\ need = 0 /\ asked = 1 /\ late = 0
      /\ mail = <<[type |-> "VERSION", id |-> 0], [type |-> "AUTH_REQUEST", id |-> 1]>>
      /\ sent = <<>> /\ offers = <<NoBid>>
      /\ heard = [want |-> 0, got |-> 0, bid |-> NoBid]
  BY DEF Init
<1>2. mail \in Seq(T) /\ Len(mail) = 2 /\ DOMAIN mail = 1..2
  <2>1. "VERSION" \in DOMAIN MsgType /\ "AUTH_REQUEST" \in DOMAIN MsgType
    BY DEF MsgType
  <2>2. [type |-> "VERSION", id |-> 0] \in T /\ [type |-> "AUTH_REQUEST", id |-> 1] \in T
    BY <2>1
  <2> HIDE DEF T
  <2> QED BY <1>1, <2>2
<1>3. offers \in Seq(S) /\ Len(offers) = 1
  BY <1>1
<1>4. sent \in Seq([byte : 0..255, id : 1..asked]) /\ Len(sent) = 0 /\ DOMAIN sent = {}
  BY <1>1
<1>5. heard.want = 0 /\ heard.got = 0 /\ heard.bid = NoBid
  BY <1>1
<1>6. Types
  <2>1. error_count \in 0..MAX_BID_ERRORS - 1
    BY <1>1, SessionAssumption
  <2>2. mail \in Seq([type : DOMAIN MsgType, id : 0..asked])
    BY <1>1, <1>2
  <2> QED BY <1>1, <1>3, <1>4, <1>5, <2>1, <2>2 DEF Types
<1>7. /\ mail[1].id = 0 /\ mail[1].type = "VERSION" /\ mail[2].id = 1 /\ mail[2].type = "AUTH_REQUEST"
      /\ \A i \in 1..2 : i = 1 \/ i = 2
  BY <1>1
<1>8. MailKinds
  BY <1>2, <1>7 DEF MailKinds
<1>9. InIdOrder
  <2>1. ASSUME NEW i \in 1..2, NEW j \in 1..2, i < j, mail[i].id > 0, mail[j].id > 0
        PROVE  mail[i].id < mail[j].id
    <3>1. i = 1 /\ mail[1].id = 0
      BY <1>7, <2>1
    <3> QED BY <2>1, <3>1
  <2> QED BY <1>2, <1>4, <2>1 DEF InIdOrder
<1>10. Auth
  <2>1. Bytes(sent) = <<>>
    BY <1>1 DEF Bytes
  <2> QED BY <1>1, <2>1 DEF Auth
<1>11. SturdySent
  BY <1>1 DEF SturdySent
<1>12. Owed
  <2>1. Waiting = 1
    BY <1>1 DEF Waiting, Reading
  <2>2. \A i \in 1..2 : mail[i].id > 0 => mail[i].id >= 1
    BY <1>7
  <2>3. Reading
    BY <1>1 DEF Reading
  <2> QED BY <1>2, <1>4, <2>1, <2>2, <2>3 DEF Owed
<1>13. Heard
  BY <1>1, <1>5 DEF Heard
<1>14. MailRuns
  <2>1. Trailing = 0
    BY <1>1 DEF Trailing, Reading
  <2>2. ShortRuns
    BY <1>2 DEF ShortRuns
  <2>3. ASSUME NEW i \in 1..2 PROVE ~ (\A l \in i..2 : mail[l].id = 0)
    <3>1. 2 \in i..2 /\ mail[2].id # 0
      BY <1>7
    <3> QED BY <3>1
  <2>4. FewAfterAll
    BY <1>2, <2>3 DEF FewAfterAll
  <2>5. ASSUME NEW i \in 1..2, mail[i].id > 0 PROVE 2 - i <= 5 * (asked - mail[i].id) + Trailing
    <3>1. i = 2 /\ mail[2].id = 1
      BY <1>7, <2>5
    <3> QED BY <1>1, <2>1, <3>1
  <2>6. FewAfterEach
    BY <1>2, <2>5 DEF FewAfterEach
  <2> QED BY <2>2, <2>4, <2>6 DEF MailRuns
<1> QED BY <1>6, <1>8, <1>9, <1>10, <1>11, <1>12, <1>13, <1>14 DEF SessionInv

LEMMA StutterSession == ASSUME SessionInv, UNCHANGED vars PROVE SessionInv'
BY DEF SessionInv, vars, Types, MailKinds, InIdOrder, Auth, Bytes, SturdySent, Owed, Waiting, Reading, Heard,
       MailRuns, ShortRuns, FewAfterAll, FewAfterEach, Trailing

LEMMA NextSession == ASSUME AnswersFit, SessionInv, [Next]_vars PROVE SessionInv'
<1>1. CASE Silent BY <1>1, SilentKept
<1>2. CASE ReadSize BY <1>2, SizeReadKept, SizeZeroKept
<1>3. CASE LateBody BY <1>3, LateBodyKept
<1>4. CASE Authenticate BY <1>4, AuthenticateKept
<1>5. CASE Ping BY <1>5, PingKept
<1>6. CASE Alive BY <1>6, AliveKept
<1>7. CASE Bid BY <1>7, BidKept
<1>8. CASE Play BY <1>8, PlayKept
<1>9. CASE ClientReads BY <1>9, ClientReadsKept
<1>10. CASE UNCHANGED vars BY <1>10, StutterSession
<1> QED BY <1>1, <1>2, <1>3, <1>4, <1>5, <1>6, <1>7, <1>8, <1>9, <1>10 DEF Next

\* The invariant holds whenever the answers are such that the stream stays in step.
THEOREM SessionInvAlways == ASSUME AnswersFit PROVE Spec => []SessionInv
<1>1. Init => SessionInv
  BY InitSession
<1>2. SessionInv /\ [Next]_vars => SessionInv'
  BY NextSession
<1> QED BY <1>1, <1>2, PTL DEF Spec

\* The server is behind the client by no more answers than reads have timed out.
THEOREM LagBoundedAlways == ASSUME AnswersFit PROVE Spec => []LagBounded
<1>1. SessionInv => LagBounded
  BY DEF SessionInv, Heard, LagBounded
<1> QED BY <1>1, SessionInvAlways, PTL

\* As long as no read timed out, the server reads the answer to its last request.
THEOREM AnswersInOrderAlways == ASSUME AnswersFit PROVE Spec => []AnswersInOrder
<1>1. SessionInv => AnswersInOrder
  <2> SUFFICES ASSUME SessionInv, late = 0 PROVE heard.want = heard.got
    BY DEF AnswersInOrder
  <2> DEFINE w == heard.want
             g == heard.got
  <2>1. w \in Int /\ g \in Int /\ g <= w /\ w - g <= 0
    BY DEF SessionInv, Types, Heard
  <2> HIDE DEF w, g
  <2>2. w = g
    BY <2>1
  <2> QED BY <2>2 DEF w, g
<1> QED BY <1>1, SessionInvAlways, PTL

\* Few messages wait for the client, and only because of reads that timed out more than a few.
THEOREM MailBoundedAlways == ASSUME AnswersFit PROVE Spec => []MailBounded
<1>1. SessionInv => MailBounded
  <2> SUFFICES ASSUME SessionInv PROVE Len(mail) <= 5 * (1 + late)
    BY DEF MailBounded
  <2> DEFINE len == Len(mail)
             asking == {i \in 1..len : mail[i].id > 0}
  <2>1. /\ Types /\ Owed /\ MailRuns
        /\ len \in Nat /\ DOMAIN mail = 1..len /\ asked \in Nat /\ late \in Nat
        /\ \A i \in 1..len : mail[i].id \in 0..asked
        /\ Trailing \in 0..4 /\ (Reading => Trailing = 0)
    BY MailTyped DEF SessionInv, Types, Trailing
  <2> HIDE DEF len
  <2>2. CASE asking = {}
    <3>1. \A i \in 1..len : mail[i].id = 0
      BY <2>1, <2>2
    <3>2. CASE len = 0
      BY <2>1, <3>2 DEF len
    <3>3. CASE len # 0
      <4>1. 1 \in 1..len /\ \A l \in 1..len : mail[l].id = 0
        BY <2>1, <3>1, <3>3
      <4>2. len - 1 < Trailing
        BY <2>1, <4>1 DEF MailRuns, FewAfterAll, len
      <4>3. len <= 5 * (1 + late)
        BY <2>1, <4>2
      <4> QED BY <4>3 DEF len
    <3> QED BY <3>2, <3>3
  <2>3. CASE asking # {}
    <3>1. PICK p \in asking : \A i \in asking : p <= i
      <4>1. asking \subseteq Nat
        BY <2>1
      <4> HIDE DEF asking
      <4> QED BY <2>3, <4>1, SmallestOf
    <3>2. p \in 1..len /\ mail[p].id > 0 /\ \A i \in 1..len : i < p => mail[i].id = 0
      <4>1. p \in 1..len /\ mail[p].id > 0
        BY <3>1
      <4>2. ASSUME NEW i \in 1..len, i < p PROVE mail[i].id = 0
        <5>1. i \notin asking
          BY <2>1, <3>1, <4>1, <4>2
        <5>2. mail[i].id \in 0..asked /\ ~ (mail[i].id > 0)
          BY <2>1, <5>1
        <5> QED BY <2>1, <5>2
      <4> QED BY <4>1, <4>2
    <3>3. p <= 5
      <4>1. CASE p = 1
        BY <4>1
      <4>2. CASE p > 1
        <5>1. 1 \in 1..len /\ p - 1 \in 1..len
          BY <2>1, <3>2, <4>2
        <5>2. \A l \in 1..p - 1 : mail[l].id = 0
          BY <2>1, <3>2
        <5>3. (p - 1) - 1 < 4
          BY <2>1, <5>1, <5>2 DEF MailRuns, ShortRuns, len
        <5> QED BY <2>1, <3>2, <5>3
      <4> QED BY <2>1, <3>2, <4>1, <4>2
    <3>4. PICK id \in 1..asked : id = mail[p].id
      BY <2>1, <3>2
    <3>5. len - p <= 5 * (asked - id) + Trailing
      BY <2>1, <3>2, <3>4 DEF MailRuns, FewAfterEach, len
    <3>6. id >= Waiting
      BY <2>1, <3>2, <3>4 DEF Owed
    <3>7. CASE Reading
      <4>1. id >= asked - late
        BY <2>1, <3>6 DEF Waiting
      <4>2. len <= 5 * (1 + late)
        BY <2>1, <3>2, <3>3, <3>5, <3>7, <4>1
      <4> QED BY <4>2 DEF len
    <3>8. CASE ~Reading
      <4>1. id >= asked + 1 - late
        BY <3>6, <3>8 DEF Waiting
      <4>2. len <= 5 * (1 + late)
        BY <2>1, <3>2, <3>3, <3>5, <4>1
      <4> QED BY <4>2 DEF len
    <3> QED BY <3>7, <3>8
  <2> QED BY <2>2, <2>3
<1> QED BY <1>1, SessionInvAlways, PTL

-----------------------------------------------------------------------------
(* The client's answers. *)

\* A byte that is not smaller than the rest is long keeps an answer sturdy.
LEMMA SturdyPrepend ==
  ASSUME NEW a \in 0..127, NEW d \in Seq(0..255), Sturdy(d), a >= Len(d)
  PROVE  /\ <<a>> \o d \in Seq(0..255) /\ Len(<<a>> \o d) = 1 + Len(d)
         /\ Sturdy(<<a>> \o d)
<1> DEFINE f == <<a>> \o d
<1>1. <<a>> \in Seq(0..255) /\ Len(<<a>>) = 1 /\ <<a>>[1] = a
  OBVIOUS
<1>2. f \in Seq(0..255) /\ Len(f) = 1 + Len(d) /\ Len(d) \in Nat
  BY <1>1, BytesJoined
<1>3. f[1] = a /\ \A i \in 1..Len(d) : f[i + 1] = d[i]
  BY <1>1, ConcatProperties
<1> HIDE DEF f
<1>4. DOMAIN f = 1..Len(f) /\ DOMAIN d = 1..Len(d)
  BY <1>2
<1>5. PICK n \in Nat : n = Len(d)
  BY <1>2
<1>6. ASSUME NEW o \in 1..n + 1 PROVE f[o] < 128 /\ o + f[o] >= n + 1
  <2>1. CASE o = 1
    <3>1. a < 128 /\ 1 + a >= n + 1
      BY <1>5
    <3> QED BY <1>3, <2>1, <3>1
  <2>2. CASE o # 1
    <3>1. PICK i \in 1..n : o = i + 1
      <4>1. o - 1 \in 1..n /\ o = (o - 1) + 1
        BY <2>2
      <4> QED BY <4>1
    <3>2. PICK v \in 0..255 : v = d[i] /\ f[o] = v
      <4>1. d[i] \in 0..255
        BY <1>5, <3>1
      <4>2. f[i + 1] = d[i]
        BY <1>3, <1>5, <3>1
      <4>3. f[o] = d[i]
        BY <3>1, <4>2
      <4> QED BY <4>1, <4>3
    <3>3. v < 128 /\ i + v >= n
      BY <1>4, <1>5, <3>1, <3>2 DEF Sturdy
    <3>4. (i + 1) + v >= n + 1
      BY <3>3
    <3> QED BY <3>1, <3>2, <3>3, <3>4
  <2> QED BY <2>1, <2>2
<1>7. Len(f) = n + 1 /\ DOMAIN f = 1..n + 1
  BY <1>2, <1>4, <1>5
<1>8. Sturdy(f)
  BY <1>6, <1>7 DEF Sturdy
<1> QED BY <1>2, <1>8 DEF f

LEMMA SturdyLast ==
  ASSUME NEW m \in 0..127
  PROVE  <<m>> \in Seq(0..255) /\ Len(<<m>>) = 1 /\ Sturdy(<<m>>)
<1> DEFINE f == <<m>>
<1>1. f \in Seq(0..255) /\ Len(f) = 1 /\ DOMAIN f = {1} /\ f[1] = m
  OBVIOUS
<1> HIDE DEF f
<1>2. \A o \in {1} : f[o] < 128 /\ o + f[o] >= 1
  BY <1>1
<1>3. Sturdy(f)
  BY <1>1, <1>2 DEF Sturdy
<1> QED BY <1>1, <1>3 DEF f

\* d is the end of the answer with the offer m, from its byte at on.
EndsAnswer(d, m, at) ==
  /\ d \in Seq(0..255) /\ Len(d) = AnswerLength(m) + 1 - at
  /\ \A i \in 1..Len(d) : d[i] = AnswerByte(m, at - 1 + i)

LEMMA AnswerPrepend ==
  ASSUME NEW m \in -1..127, NEW at \in 1..6, NEW next, next = at + 1, NEW d, EndsAnswer(d, m, next),
         NEW a \in 0..127, a = AnswerByte(m, at)
  PROVE  EndsAnswer(<<a>> \o d, m, at)
<1> DEFINE f == <<a>> \o d
           n == Len(d)
<1>1. <<a>> \in Seq(0..255) /\ Len(<<a>>) = 1 /\ <<a>>[1] = a
  OBVIOUS
<1>2. d \in Seq(0..255) /\ n \in Nat /\ n = AnswerLength(m) + 1 - next /\ AnswerLength(m) \in 3..7
  BY DEF EndsAnswer, AnswerLength
<1>3. f \in Seq(0..255) /\ Len(f) = 1 + n
  BY <1>1, <1>2, BytesJoined
<1>4. f[1] = a /\ \A i \in 1..n : f[i + 1] = d[i]
  BY <1>1, <1>2, ConcatProperties
<1> HIDE DEF f
<1>5. \A i \in 1..n : d[i] = AnswerByte(m, next - 1 + i)
  BY DEF EndsAnswer
<1> HIDE DEF n
<1>6. ASSUME NEW i \in 1..1 + n PROVE f[i] = AnswerByte(m, at - 1 + i)
  <2>1. CASE i = 1
    <3>1. at - 1 + i = at
      BY <2>1
    <3> QED BY <1>4, <2>1, <3>1
  <2>2. CASE i # 1
    <3>1. PICK k \in 1..n : i = k + 1
      <4>1. i - 1 \in 1..n /\ i = (i - 1) + 1
        BY <1>2, <2>2
      <4> QED BY <4>1
    <3>2. next - 1 + k = at - 1 + i
      BY <1>2, <3>1
    <3> QED BY <1>4, <1>5, <3>1, <3>2
  <2> QED BY <2>1, <2>2
<1>7. 1 + n = AnswerLength(m) + 1 - at
  BY <1>2, SMTT(30)
<1> QED BY <1>3, <1>6, <1>7 DEF EndsAnswer, f

LEMMA AnswerLast ==
  ASSUME NEW m \in -1..127, NEW at \in 1..7, at = AnswerLength(m), NEW a \in 0..127, a = AnswerByte(m, at)
  PROVE  EndsAnswer(<<a>>, m, at)
<1> DEFINE f == <<a>>
<1>1. f \in Seq(0..255) /\ Len(f) = 1 /\ f[1] = a
  OBVIOUS
<1> HIDE DEF f
<1>2. at + 1 - at = 1 /\ \A i \in 1..1 : at - 1 + i = at /\ i = 1
  OBVIOUS
<1> QED BY <1>1, <1>2 DEF EndsAnswer, f

\* An amount below 128 makes a sturdy answer ...
LEMMA BidFrame ==
  ASSUME NEW m \in 0..127
  PROVE  /\ Frame(BidResponseMsg(m)) \in Seq(0..255)
         /\ Sturdy(Frame(BidResponseMsg(m)))
         /\ EndsAnswer(Frame(BidResponseMsg(m)), m, 1)
<1> DEFINE schema == BidResponse
           nested == With(BidResponse, [money |-> m])
           req == BidResponseMsg(m)
           inner == [field |-> BidResponse["money"], value |-> m]
           item == [field |-> ServerRequest["bidResponse"], value |-> nested]
<1>1. /\ DOMAIN BidResponse = {"money"} /\ BidResponse["money"].num = 1
      /\ BidResponse["money"].kind = "u32" /\ Nested["BidResponse"] = BidResponse
      /\ "BidResponse" \in DOMAIN Nested /\ "BidResponse" \notin {"u32", "enum"}
  BY DEF BidResponse, Required, Nested
<1>2. /\ item.field.num = 5 /\ item.field.kind = "BidResponse" /\ item.value = nested
      /\ inner.field.num = 1 /\ inner.field.kind = "u32" /\ inner.value = m
  <2>1. ServerRequest["bidResponse"].num = 5 /\ ServerRequest["bidResponse"].kind = "BidResponse"
    BY DEF ServerRequest, Optional
  <2> QED BY <1>1, <2>1
<1>3. nested["money"] = <<m>>
  BY <1>1 DEF With
<1>4. \A n \in DOMAIN ServerRequest :
        req[n] = IF n = "msgType" THEN <<4>> ELSE IF n = "bidResponse" THEN <<nested>> ELSE <<>>
  <2>1. MsgType.BID_RESPONSE = 4
    BY DEF MsgType
  <2> HIDE DEF nested
  <2> DEFINE g == [msgType |-> 4, bidResponse |-> nested]
  <2>2. DOMAIN g = {"msgType", "bidResponse"} /\ g["msgType"] = 4 /\ g["bidResponse"] = nested
    OBVIOUS
  <2>3. req = [n \in DOMAIN ServerRequest |-> IF n \in DOMAIN g THEN <<g[n]>> ELSE <<>>]
    BY <2>1 DEF BidResponseMsg, With, nested
  <2> HIDE DEF g, req
  <2> QED BY <2>2, <2>3
<1> HIDE DEF req, nested
<1>5. Items(ServerRequest, req)
        = <<[field |-> ServerRequest["msgType"], value |-> 4]>> \o <<item>>
  <2>1. InOrder(ServerRequest)[5] = "bidResponse" /\ 5 \in {4, 5}
    BY RequestOrder
  <2> QED BY <1>4, <2>1, TwoItems
<1>6. Items(BidResponse, nested) = <<inner>>
  BY <1>1, <1>3, NestedItems
<1> HIDE DEF item, inner
<1>7. Varint[m] = <<m>> /\ Varint[2] = <<2>> /\ Varint[6] = <<6>> /\ Varint[8] = <<8>>
      /\ Varint[42] = <<42>>
  <2>1. m \in Nat /\ m < 128
    OBVIOUS
  <2>2. /\ 2 \in Nat /\ 2 < 128 /\ 6 \in Nat /\ 6 < 128 /\ 8 \in Nat /\ 8 < 128
        /\ 42 \in Nat /\ 42 < 128
    OBVIOUS
  <2> QED BY <2>1, <2>2, VarintOfOne
<1>8. ScalarSize(inner) = 2 /\ WriteScalar(inner) = <<8>> \o <<m>>
  <2>1. "u32" # "string" /\ Tag(inner.field) = 8
    BY <1>2 DEF Tag
  <2>2. Len(<<m>>) = 1
    OBVIOUS
  <2>3. ScalarSize(inner) = 1 + Len(Varint[m])
    BY <1>2, <2>1 DEF ScalarSize
  <2>4. WriteScalar(inner) = Varint[8] \o Varint[m]
    BY <1>2, <2>1 DEF WriteScalar
  <2> QED BY <1>7, <2>2, <2>3, <2>4
<1> DEFINE s1 == <<m>>
           s2 == <<8>> \o s1
           s3 == <<2>> \o s2
           s4 == <<42>> \o s3
           s5 == <<4>> \o s4
           s6 == <<8>> \o s5
           s7 == <<6>> \o s6
<1>9. s1 \in Seq(0..255) /\ Len(s1) = 1 /\ Sturdy(s1) /\ EndsAnswer(s1, m, 7)
  <2>1. EndsAnswer(<<m>>, m, 7)
    <3>1. m \in -1..127 /\ 7 \in 1..7 /\ AnswerLength(m) = 7 /\ AnswerByte(m, 7) = m
      BY DEF AnswerLength, AnswerByte
    <3> QED BY <3>1, AnswerLast
  <2> QED BY <2>1, SturdyLast
<1> HIDE DEF s1
<1>10. s2 \in Seq(0..255) /\ Len(s2) = 2 /\ Sturdy(s2) /\ EndsAnswer(s2, m, 6)
  <2>1. PICK a \in 0..127 : a = 8 /\ a >= 1
    OBVIOUS
  <2>2. a >= Len(s1)
    BY <1>9, <2>1
  <2>3. <<a>> \o s1 \in Seq(0..255) /\ Len(<<a>> \o s1) = 1 + Len(s1) /\ Sturdy(<<a>> \o s1)
    BY <1>9, <2>2, SturdyPrepend
  <2>4. EndsAnswer(<<a>> \o s1, m, 6)
    <3>1. m \in -1..127 /\ 6 \in 1..6 /\ 7 = 6 + 1 /\ AnswerByte(m, 6) = a
      BY <2>1 DEF AnswerByte
    <3> QED BY <1>9, <3>1, AnswerPrepend
  <2> QED BY <1>9, <2>1, <2>3, <2>4
<1> HIDE DEF s2
<1>11. s3 \in Seq(0..255) /\ Len(s3) = 3 /\ Sturdy(s3) /\ EndsAnswer(s3, m, 5)
  <2>1. PICK a \in 0..127 : a = 2 /\ a >= 2
    OBVIOUS
  <2>2. a >= Len(s2)
    BY <1>10, <2>1
  <2>3. <<a>> \o s2 \in Seq(0..255) /\ Len(<<a>> \o s2) = 1 + Len(s2) /\ Sturdy(<<a>> \o s2)
    BY <1>10, <2>2, SturdyPrepend
  <2>4. EndsAnswer(<<a>> \o s2, m, 5)
    <3>1. m \in -1..127 /\ 5 \in 1..6 /\ 6 = 5 + 1 /\ AnswerByte(m, 5) = a
      BY <2>1 DEF AnswerByte
    <3> QED BY <1>10, <3>1, AnswerPrepend
  <2> QED BY <1>10, <2>1, <2>3, <2>4
<1> HIDE DEF s3
<1>12. s4 \in Seq(0..255) /\ Len(s4) = 4 /\ Sturdy(s4) /\ EndsAnswer(s4, m, 4)
  <2>1. PICK a \in 0..127 : a = 42 /\ a >= 3
    OBVIOUS
  <2>2. a >= Len(s3)
    BY <1>11, <2>1
  <2>3. <<a>> \o s3 \in Seq(0..255) /\ Len(<<a>> \o s3) = 1 + Len(s3) /\ Sturdy(<<a>> \o s3)
    BY <1>11, <2>2, SturdyPrepend
  <2>4. EndsAnswer(<<a>> \o s3, m, 4)
    <3>1. m \in -1..127 /\ 4 \in 1..6 /\ 5 = 4 + 1 /\ AnswerByte(m, 4) = a
      BY <2>1 DEF AnswerByte
    <3> QED BY <1>11, <3>1, AnswerPrepend
  <2> QED BY <1>11, <2>1, <2>3, <2>4
<1> HIDE DEF s4
<1>13. s5 \in Seq(0..255) /\ Len(s5) = 5 /\ Sturdy(s5) /\ EndsAnswer(s5, m, 3)
  <2>1. PICK a \in 0..127 : a = 4 /\ a >= 4
    OBVIOUS
  <2>2. a >= Len(s4)
    BY <1>12, <2>1
  <2>3. <<a>> \o s4 \in Seq(0..255) /\ Len(<<a>> \o s4) = 1 + Len(s4) /\ Sturdy(<<a>> \o s4)
    BY <1>12, <2>2, SturdyPrepend
  <2>4. EndsAnswer(<<a>> \o s4, m, 3)
    <3>1. m \in -1..127 /\ 3 \in 1..6 /\ 4 = 3 + 1 /\ AnswerByte(m, 3) = a
      BY <2>1 DEF AnswerByte
    <3> QED BY <1>12, <3>1, AnswerPrepend
  <2> QED BY <1>12, <2>1, <2>3, <2>4
<1> HIDE DEF s5
<1>14. s6 \in Seq(0..255) /\ Len(s6) = 6 /\ Sturdy(s6) /\ EndsAnswer(s6, m, 2)
  <2>1. PICK a \in 0..127 : a = 8 /\ a >= 5
    OBVIOUS
  <2>2. a >= Len(s5)
    BY <1>13, <2>1
  <2>3. <<a>> \o s5 \in Seq(0..255) /\ Len(<<a>> \o s5) = 1 + Len(s5) /\ Sturdy(<<a>> \o s5)
    BY <1>13, <2>2, SturdyPrepend
  <2>4. EndsAnswer(<<a>> \o s5, m, 2)
    <3>1. m \in -1..127 /\ 2 \in 1..6 /\ 3 = 2 + 1 /\ AnswerByte(m, 2) = a
      BY <2>1 DEF AnswerByte
    <3> QED BY <1>13, <3>1, AnswerPrepend
  <2> QED BY <1>13, <2>1, <2>3, <2>4
<1> HIDE DEF s6
<1>15. s7 \in Seq(0..255) /\ Sturdy(s7) /\ EndsAnswer(s7, m, 1)
  <2>1. PICK a \in 0..127 : a = 6 /\ a >= 6
    OBVIOUS
  <2>2. a >= Len(s6)
    BY <1>14, <2>1
  <2>3. <<a>> \o s6 \in Seq(0..255) /\ Len(<<a>> \o s6) = 1 + Len(s6) /\ Sturdy(<<a>> \o s6)
    BY <1>14, <2>2, SturdyPrepend
  <2>4. EndsAnswer(<<a>> \o s6, m, 1)
    <3>1. m \in -1..127 /\ 1 \in 1..6 /\ 2 = 1 + 1 /\ AnswerByte(m, 1) = a
      BY <2>1 DEF AnswerByte
    <3> QED BY <1>14, <3>1, AnswerPrepend
  <2> QED BY <1>14, <2>1, <2>3, <2>4
<1> HIDE DEF s7
<1>16. FieldSize(item) = 4 /\ WriteField(item) = s4
  <2>1. /\ item.field.kind \in DOMAIN Nested /\ item.field.kind \notin {"u32", "enum"}
        /\ item.field.num = 4 \/ item.field.num = 5
        /\ Items(Nested[item.field.kind], item.value) = <<inner>>
    BY <1>1, <1>2, <1>6
  <2>2. WriteScalar(inner) = s2
    BY <1>8 DEF s1, s2
  <2>3. PICK k \in Nat : k = 2 /\ ScalarSize(inner) = k
    BY <1>8
  <2>4. s2 \in Seq(0..255) /\ Len(s2) = k
    BY <1>10, <2>3
  <2>5. Tag(item.field) = 42
    BY <1>2 DEF Tag
  <2>6. s4 = Varint[Tag(item.field)] \o (Varint[k] \o s2)
    BY <1>7, <2>3, <2>5 DEF s3, s4
  <2>7. FieldSize(item) = 1 + Len(Varint[k]) + k /\ WriteField(item) = s4
    <3>1. ScalarSize(inner) = k
      BY <2>3
    <3> QED BY <2>1, <2>2, <2>4, <2>6, <3>1, NestedField
  <2>8. Len(<<2>>) = 1 /\ Len(Varint[k]) = 1
    BY <1>7, <2>3
  <2>9. FieldSize(item) = 4
    BY <2>3, <2>7, <2>8
  <2> QED BY <2>7, <2>9
<1>17. Frame(req) = Varint[6] \o Encode(req) /\ Encode(req) = <<8, 4>> \o s4
  <2>1. PICK t \in 0..14 : t = 4
    OBVIOUS
  <2>2. PICK size \in Nat : size = 4 /\ FieldSize(item) = size /\ Len(WriteField(item)) = size
    BY <1>12, <1>16
  <2>3. WriteField(item) \in Seq(0..255)
    BY <1>12, <1>16
  <2>4. Items(ServerRequest, req)
          = <<[field |-> ServerRequest["msgType"], value |-> t]>> \o <<item>>
    BY <1>5, <2>1
  <2>5. /\ Frame(req) = Varint[2 + size] \o Encode(req)
        /\ Encode(req) = <<8, t>> \o WriteField(item)
    BY <2>2, <2>3, <2>4, AnswerFrame
  <2>6. 2 + size = 6
    BY <2>2
  <2> QED BY <1>16, <2>1, <2>5, <2>6
<1>18. <<8, 4>> \o s4 = s6
  <2>1. <<8>> \o <<4>> = <<8, 4>>
    BY TwoJoined
  <2>2. <<8>> \in Seq(0..255) /\ <<4>> \in Seq(0..255)
    OBVIOUS
  <2>3. (<<8>> \o <<4>>) \o s4 = <<8>> \o (<<4>> \o s4)
    BY <1>12, <2>2, ConcatAssociative
  <2> QED BY <2>1, <2>3 DEF s5, s6
<1>19. Frame(req) = s7
  BY <1>7, <1>17, <1>18 DEF s7
<1> QED BY <1>15, <1>19 DEF req

\* ... and so is an ACK ...
LEMMA AckFrame ==
  /\ Frame(Bare("ACK")) \in Seq(0..255) /\ Sturdy(Frame(Bare("ACK")))
  /\ EndsAnswer(Frame(Bare("ACK")), -1, 1)
<1> DEFINE req == Bare("ACK")
           it == [field |-> ServerRequest["msgType"], value |-> 10]
           items == Items(ServerRequest, req)
           sizes == [i \in DOMAIN items |-> FieldSize(items[i])]
           written == [i \in DOMAIN items |-> WriteField(items[i])]
<1>1. items = <<it>>
  <2>1. MsgType["ACK"] = 10
    BY DEF MsgType
  <2>2. req = With(ServerRequest, [msgType |-> 10])
    BY <2>1 DEF Bare
  <2> QED BY <2>2, BareItems
<1>2. FieldSize(it) = 2 /\ WriteField(it) = <<8, 10>>
  <2>1. PICK t \in 0..14 : t = 10
    OBVIOUS
  <2>2. LET item == [field |-> ServerRequest["msgType"], value |-> t] IN
          FieldSize(item) = 2 /\ WriteField(item) = <<8, t>>
    BY TypeField
  <2> QED BY <2>1, <2>2
<1>3. ComputeSize(req) = SumFunction(sizes) /\ Encode(req) = FlattenSeq(written)
  BY DEF ComputeSize, Encode
<1> HIDE DEF req, it, items
<1>4. DOMAIN items = {1} /\ items[1] = it
  <2>1. DOMAIN <<it>> = 1..1 /\ <<it>>[1] = it
    OBVIOUS
  <2> QED BY <1>1, <2>1
<1>5. SumFunction(sizes) = 2
  <2>1. DOMAIN sizes = {1} /\ sizes[1] = 2
    BY <1>2, <1>4
  <2> HIDE DEF sizes
  <2>2. 2 \in Nat
    OBVIOUS
  <2> QED BY <2>1, <2>2, SumOfOne
<1> DEFINE w == <<8, 10>>
<1>6. w \in Seq(0..255)
  OBVIOUS
<1>7. FlattenSeq(written) = w
  <2>1. written = [i \in {1} |-> w]
    BY <1>2, <1>4
  <2> HIDE DEF w
  <2>2. Len(written) = 1 /\ written[1] = w
    <3>1. written \in [1..1 -> {w}]
      BY <2>1
    <3> HIDE DEF written
    <3> QED BY <2>1, <3>1
  <2> HIDE DEF written
  <2>3. 1 \in Nat \ {0} /\ \A i \in 2..1 : written[i] = <<>>
    OBVIOUS
  <2>4. written[1] \in Seq(0..255)
    BY <1>6, <2>2
  <2>5. FlattenSeq(written) = written[1]
    BY <2>2, <2>3, <2>4, FlattenOne
  <2> QED BY <2>2, <2>5
<1> DEFINE s1 == <<10>>
           s2 == <<8>> \o s1
           s3 == <<2>> \o s2
           none == -1
<1>8. none \in -1..127 /\ none < 0 /\ AnswerLength(none) = 3
  BY DEF AnswerLength
<1> HIDE DEF none
<1>9. s1 \in Seq(0..255) /\ Len(s1) = 1 /\ Sturdy(s1) /\ EndsAnswer(s1, none, 3)
  <2>1. PICK m \in 0..127 : m = 10
    OBVIOUS
  <2>2. EndsAnswer(<<m>>, none, 3)
    <3>1. 3 \in 1..7 /\ AnswerByte(none, 3) = m
      BY <1>8, <2>1 DEF AnswerByte
    <3> QED BY <1>8, <3>1, AnswerLast
  <2> QED BY <2>1, <2>2, SturdyLast
<1>10. s2 = w
  BY TwoJoined
<1> HIDE DEF s1
<1>11. s2 \in Seq(0..255) /\ Len(s2) = 2 /\ Sturdy(s2) /\ EndsAnswer(s2, none, 2)
  <2>1. PICK a \in 0..127 : a = 8 /\ a >= 1
    OBVIOUS
  <2>2. a >= Len(s1)
    BY <1>9, <2>1
  <2>3. <<a>> \o s1 \in Seq(0..255) /\ Len(<<a>> \o s1) = 1 + Len(s1) /\ Sturdy(<<a>> \o s1)
    BY <1>9, <2>2, SturdyPrepend
  <2>4. EndsAnswer(<<a>> \o s1, none, 2)
    <3>1. 2 \in 1..6 /\ 3 = 2 + 1 /\ AnswerByte(none, 2) = a
      BY <1>8, <2>1 DEF AnswerByte
    <3> QED BY <1>8, <1>9, <3>1, AnswerPrepend
  <2> QED BY <1>9, <2>1, <2>3, <2>4
<1> HIDE DEF s2, w
<1>12. s3 \in Seq(0..255) /\ Sturdy(s3) /\ EndsAnswer(s3, none, 1)
  <2>1. PICK a \in 0..127 : a = 2 /\ a >= 2
    OBVIOUS
  <2>2. a >= Len(s2)
    BY <1>11, <2>1
  <2>3. <<a>> \o s2 \in Seq(0..255) /\ Sturdy(<<a>> \o s2)
    BY <1>11, <2>2, SturdyPrepend
  <2>4. EndsAnswer(<<a>> \o s2, none, 1)
    <3>1. 1 \in 1..6 /\ 2 = 1 + 1 /\ AnswerByte(none, 1) = a
      BY <1>8, <2>1 DEF AnswerByte
    <3> QED BY <1>8, <1>11, <3>1, AnswerPrepend
  <2> QED BY <1>11, <2>1, <2>3, <2>4
<1>13. Frame(req) = s3
  <2>1. Varint[2] = <<2>>
    <3>1. 2 \in Nat /\ 2 < 128
      OBVIOUS
    <3> QED BY <3>1, VarintOfOne
  <2> QED BY <1>3, <1>5, <1>7, <1>10, <2>1 DEF Frame
<1> QED BY <1>12, <1>13 DEF req, none

\* ... and a name that fits announces an answer of its length.
LEMMA AuthFrame ==
  ASSUME NEW name \in Seq(0..255), Len(name) <= 247
  PROVE  /\ Frame(AuthResponseMsg(name)) \in Seq(0..255)
         /\ Announced(Frame(AuthResponseMsg(name)))
<1> DEFINE nested == With(AuthResponse, [player_name |-> name])
           req == AuthResponseMsg(name)
           inner == [field |-> AuthResponse["player_name"], value |-> name]
           item == [field |-> ServerRequest["authResponse"], value |-> nested]
<1>1. /\ DOMAIN AuthResponse = {"player_name"} /\ AuthResponse["player_name"].num = 1
      /\ AuthResponse["player_name"].kind = "string" /\ Nested["AuthResponse"] = AuthResponse
      /\ "AuthResponse" \in DOMAIN Nested /\ "AuthResponse" \notin {"u32", "enum"}
  BY DEF AuthResponse, Required, Nested
<1>2. /\ item.field.num = 4 /\ item.field.kind = "AuthResponse" /\ item.value = nested
      /\ inner.field.num = 1 /\ inner.field.kind = "string" /\ inner.value = name
  <2>1. ServerRequest["authResponse"].num = 4 /\ ServerRequest["authResponse"].kind = "AuthResponse"
    BY DEF ServerRequest, Optional
  <2> QED BY <1>1, <2>1
<1>3. nested["player_name"] = <<name>>
  BY <1>1 DEF With
<1>4. \A n \in DOMAIN ServerRequest :
        req[n] = IF n = "msgType" THEN <<1>> ELSE IF n = "authResponse" THEN <<nested>> ELSE <<>>
  <2>1. MsgType.AUTH_RESPONSE = 1
    BY DEF MsgType
  <2> HIDE DEF nested
  <2> DEFINE g == [msgType |-> 1, authResponse |-> nested]
  <2>2. DOMAIN g = {"msgType", "authResponse"} /\ g["msgType"] = 1 /\ g["authResponse"] = nested
    OBVIOUS
  <2>3. req = [n \in DOMAIN ServerRequest |-> IF n \in DOMAIN g THEN <<g[n]>> ELSE <<>>]
    BY <2>1 DEF AuthResponseMsg, With, nested
  <2> HIDE DEF g, req
  <2> QED BY <2>2, <2>3
<1> HIDE DEF req, nested
<1>5. Items(ServerRequest, req)
        = <<[field |-> ServerRequest["msgType"], value |-> 1]>> \o <<item>>
  <2>1. InOrder(ServerRequest)[4] = "authResponse" /\ 4 \in {4, 5}
    BY RequestOrder
  <2> QED BY <1>4, <2>1, TwoItems
<1>6. Items(AuthResponse, nested) = <<inner>>
  BY <1>1, <1>3, NestedItems
<1> HIDE DEF item, inner
<1>7. PICK len \in Nat : len = Len(name) /\ len <= 247
  BY LenProperties
<1> DEFINE c == Varint[len]
           bytes == c \o name
           w == WriteScalar(inner)
<1>8. c \in Seq(0..255) /\ Len(c) \in {1, 2}
  <2>1. len < 16384
    BY <1>7
  <2> QED BY <2>1, VarintEnds, VarintShort
<1> HIDE DEF c
<1>9. bytes \in Seq(0..255) /\ Len(bytes) = Len(c) + len
  <2>1. bytes \in Seq(0..255) /\ Len(bytes) = Len(c) + Len(name)
    BY <1>8, BytesJoined
  <2> QED BY <1>7, <2>1
<1>10. PICK k \in Nat : k <= 250 /\ ScalarSize(inner) = k /\ w \in Seq(0..255) /\ Len(w) = k
  <2>1. bytes = Varint[Len(inner.value)] \o inner.value
    BY <1>2, <1>7 DEF c
  <2> HIDE DEF bytes, w
  <2>2. inner.value \in Seq(0..255)
    BY <1>2
  <2>3. /\ ScalarSize(inner) \in Nat /\ ScalarSize(inner) = 1 + Len(bytes)
        /\ WriteScalar(inner) \in Seq(0..255) /\ Len(WriteScalar(inner)) = ScalarSize(inner)
    BY <1>2, <1>9, <2>1, <2>2, ScalarField
  <2>4. 1 + Len(bytes) <= 250
    <3>1. PICK x \in {1, 2} : Len(c) = x
      BY <1>8
    <3>2. 1 + (x + len) <= 250
      BY <1>7
    <3> QED BY <1>9, <3>1, <3>2
  <2> QED BY <2>3, <2>4 DEF w
<1> HIDE DEF bytes, w
<1> DEFINE out == Varint[Tag(item.field)] \o (Varint[k] \o w)
<1>11. out \in Seq(0..255) /\ Len(out) = 1 + Len(Varint[k]) + k
  <2>1. PICK tag \in 0..127 : Tag(item.field) = tag
    <3>1. Tag(item.field) = 34
      BY <1>2 DEF Tag
    <3> QED BY <3>1
  <2> QED BY <1>10, <2>1, NestedLength
<1>12. FieldSize(item) = 1 + Len(Varint[k]) + k /\ WriteField(item) = out
  <2>1. /\ item.field.kind \in DOMAIN Nested /\ item.field.kind \notin {"u32", "enum"}
        /\ item.field.num = 4 \/ item.field.num = 5
        /\ Items(Nested[item.field.kind], item.value) = <<inner>>
    BY <1>1, <1>2, <1>6
  <2>2. WriteScalar(inner) = w
    BY DEF w
  <2>3. w \in Seq(0..255) /\ Len(w) = k /\ ScalarSize(inner) = k
    BY <1>10
  <2> QED BY <2>1, <2>2, <2>3, NestedField
<1> HIDE DEF out
<1>13. PICK size \in Nat : size <= 253 /\ FieldSize(item) = size /\ Len(out) = size
  <2>1. Len(Varint[k]) \in {1, 2}
    <3>1. k < 16384
      BY <1>10
    <3> QED BY <3>1, VarintShort
  <2>2. PICK x \in {1, 2} : Len(Varint[k]) = x
    BY <2>1
  <2>3. 1 + x + k \in Nat /\ 1 + x + k <= 253
    BY <1>10
  <2>4. FieldSize(item) = 1 + x + k /\ Len(out) = 1 + x + k
    BY <1>11, <1>12, <2>2
  <2> QED BY <2>3, <2>4
<1>14. /\ Frame(req) = Varint[2 + size] \o Encode(req)
       /\ Encode(req) \in Seq(0..255) /\ Len(Encode(req)) = 2 + size
  <2>1. PICK t \in 0..14 : t = 1
    OBVIOUS
  <2>2. Items(ServerRequest, req)
          = <<[field |-> ServerRequest["msgType"], value |-> t]>> \o <<item>>
    BY <1>5, <2>1
  <2>3. WriteField(item) \in Seq(0..255) /\ Len(WriteField(item)) = size /\ FieldSize(item) = size
    BY <1>11, <1>12, <1>13
  <2> QED BY <2>2, <2>3, AnswerFrame
<1>15. PICK whole \in Nat : whole = 2 + size /\ whole < 256
  BY <1>13
<1> DEFINE f == Varint[whole] \o Encode(req)
<1>16. /\ NumBytes(f) = whole /\ Len(Prefix(f)) = Len(Varint[whole])
       /\ f \in Seq(0..255) /\ Len(f) = Len(Varint[whole]) + Len(Encode(req))
  BY <1>14, <1>15, FrameLength
<1>17. Frame(req) = f
  BY <1>14, <1>15
<1>18. Len(Varint[whole]) \in {1, 2}
  <2>1. whole < 16384
    BY <1>15
  <2> QED BY <2>1, VarintShort
<1>19. Len(f) - Len(Prefix(f)) = whole
  BY <1>14, <1>15, <1>16, <1>18
<1> HIDE DEF f
<1>20. Announced(f)
  BY <1>15, <1>16, <1>19 DEF Announced
<1> QED BY <1>16, <1>17, <1>20 DEF req

\* What the theorems above assume is so of every client whose name has at most 247
\* bytes and whose bids are below 128, more than the money a player starts with.
THEOREM ClientsAnswersFit ==
  ASSUME Name \in Seq(0..255), Len(Name) <= 247, Bids \subseteq 0..127
  PROVE  AnswersFit
<1>1. ASSUME NEW a \in Answers("AUTH_REQUEST")
      PROVE  Frame(a.msg) \in Seq(0..255) /\ Announced(Frame(a.msg))
  <2>1. a.msg = AuthResponseMsg(Name)
    BY DEF Answers
  <2> QED BY <2>1, AuthFrame
<1>2. ASSUME NEW a \in Answers("ALIVE")
      PROVE  Frame(a.msg) \in Seq(0..255) /\ Sturdy(Frame(a.msg))
  <2>1. a.msg = Bare("ACK")
    BY DEF Answers
  <2> QED BY <2>1, AckFrame
<1>3. ASSUME NEW a \in Answers("BID_REQUEST")
      PROVE  Frame(a.msg) \in Seq(0..255) /\ Sturdy(Frame(a.msg))
  <2>1. PICK m \in Bids : a.msg = BidResponseMsg(m)
    BY DEF Answers
  <2>2. m \in 0..127
    OBVIOUS
  <2> QED BY <2>1, <2>2, BidFrame
<1> QED BY <1>1, <1>2, <1>3 DEF AnswersFit
-----------------------------------------------------------------------------
(* The line of answers, and the bids heard from it. *)

\* The amount of an offer, -1 without one, and those of the requests the bytes s answer.
Amount(offer) == IF offer = NoBid THEN -1 ELSE offer[1]
Amounts(s, o) == [i \in DOMAIN s |-> Amount(o[s[i].id])]

\* The bytes s are the ends of answers with the offers o, whole ones but for the first: if a
\* length has been read it is the byte before, unless that was lost or is of another answer.
LaidOut(s, o, length, at) ==
  /\ InLine(Bytes(s), Len(s), at, Amounts(s, o))
  /\ Len(s) > 0 => at[Len(s)] = AnswerLength(Amounts(s, o)[Len(s)])
  /\ length > 0 /\ Len(s) > 0 => Announces(length, at, Amounts(s, o))

\* Once the player is known, what it has sent is laid out like that.
WholeAnswers == task \notin {"auth", "over"} => \E at : LaidOut(sent, offers, need, at)

\* What the client has not read is later than what was heard of it, and so nothing it
\* answers changes the offer that was heard.
HeardBefore == \A i \in DOMAIN mail : mail[i].id > 0 => mail[i].id > heard.got
HeardOffer == heard.bid # NoBid => heard.got \in 1..asked /\ heard.bid = offers[heard.got]

BidInv == WholeAnswers /\ HeardBefore /\ HeardOffer

\* Bytes of answers, and offers, to a requests.
AnswersTo(s, a) == s \in Seq([byte : 0..255, id : 1..a])
OffersTo(o, a) == o \in Seq({NoBid} \cup {<<m>> : m \in Bids}) /\ Len(o) = a

LEMMA OfferAmount ==
  ASSUME Bids \subseteq 0..127, NEW a \in Nat, NEW o, OffersTo(o, a), NEW k \in 1..a
  PROVE  /\ Amount(o[k]) \in -1..127
         /\ Amount(o[k]) \in 0..127 => o[k] = <<Amount(o[k])>>
<1>1. o[k] \in {NoBid} \cup {<<m>> : m \in Bids}
  <2> DEFINE S == {NoBid} \cup {<<m>> : m \in Bids}
  <2>1. o \in Seq(S) /\ Len(o) = a
    BY DEF OffersTo
  <2> HIDE DEF S
  <2>2. o[k] \in S
    BY <2>1, ElementOfSeq
  <2> QED BY <2>2 DEF S
<1>2. CASE o[k] = NoBid
  BY <1>2 DEF Amount
<1>3. CASE o[k] # NoBid
  <2>1. PICK m \in Bids : o[k] = <<m>>
    BY <1>1, <1>3
  <2>2. m \in 0..127 /\ <<m>>[1] = m
    BY <2>1
  <2>3. Amount(o[k]) = m
    BY <1>3, <2>1, <2>2 DEF Amount
  <2> QED BY <2>1, <2>2, <2>3
<1> QED BY <1>2, <1>3

LEMMA SentFacts ==
  ASSUME NEW a \in Nat, NEW s, AnswersTo(s, a)
  PROVE  /\ Len(s) \in Nat /\ DOMAIN s = 1..Len(s) /\ DOMAIN Bytes(s) = 1..Len(s)
         /\ \A i \in 1..Len(s) : s[i].id \in 1..a /\ Bytes(s)[i] = s[i].byte
<1> DEFINE T == [byte : 0..255, id : 1..a]
<1>1. s \in Seq(T)
  BY DEF AnswersTo
<1>2. \A x \in T : x.id \in 1..a
  OBVIOUS
<1> HIDE DEF T
<1>3. Len(s) \in Nat /\ DOMAIN s = 1..Len(s) /\ \A i \in 1..Len(s) : s[i] \in T
  BY <1>1, LenProperties, ElementOfSeq
<1> QED BY <1>2, <1>3 DEF Bytes

AmountsAre(off, s, o, n) == \A i \in 1..n : off[i] = Amount(o[s[i].id])

LEMMA AmountsTyped ==
  ASSUME Bids \subseteq 0..127, NEW a \in Nat, NEW s, AnswersTo(s, a), NEW o, OffersTo(o, a)
  PROVE  Numbers(Amounts(s, o), Len(s)) /\ AmountsAre(Amounts(s, o), s, o, Len(s))
<1>1. DOMAIN s = 1..Len(s) /\ \A i \in 1..Len(s) : s[i].id \in 1..a
  BY SentFacts
<1>2. \A k \in 1..a : Amount(o[k]) \in -1..127
  BY OfferAmount
<1> QED BY <1>1, <1>2 DEF Amounts, Numbers, AmountsAre

\* t are the bytes s after the first k, and what was offered before is in p as in o; the length
\* then was read in front of t.
After(t, s, k) == Len(t) = Len(s) - k /\ \A i \in 1..Len(s) - k : t[i] = s[i + k]
SameOffers(p, o, a) == \A i \in 1..a : p[i] = o[i]
ReadBefore(then, k, s, o, at) ==
  then > 0 /\ k < Len(s) =>
    at[k + 1] = 1 \/ then = AnswerByte(Amounts(s, o)[k + 1], at[k + 1] - 1)

\* The first k bytes are read.
LEMMA LaidOutDropped ==
  ASSUME Bids \subseteq 0..127, NEW a \in Nat, NEW s, AnswersTo(s, a), NEW o, OffersTo(o, a),
         NEW length, NEW at, LaidOut(s, o, length, at),
         NEW c \in Nat, c >= a, NEW t, AnswersTo(t, c), NEW p, OffersTo(p, c),
         NEW k \in 0..Len(s), After(t, s, k), SameOffers(p, o, a),
         NEW then, ReadBefore(then, k, s, o, at)
  PROVE  \E to : LaidOut(t, p, then, to)
<1> DEFINE n == Len(s)
           off == Amounts(s, o)
           new == Amounts(t, p)
           to == [i \in 1..n - k |-> at[i + k]]
<1>1. n \in Nat /\ \A i \in 1..n : s[i].id \in 1..a
  BY SentFacts
<1>2. /\ \A i \in 1..n : off[i] = Amount(o[s[i].id])
      /\ new \in [1..n - k -> -1..127] /\ \A i \in 1..n - k : new[i] = Amount(p[t[i].id])
  <2>1. \A i \in 1..n : off[i] = Amount(o[s[i].id])
    BY AmountsTyped DEF AmountsAre
  <2>2. new \in [1..Len(t) -> -1..127] /\ \A i \in 1..Len(t) : new[i] = Amount(p[t[i].id])
    <3>1. Numbers(Amounts(t, p), Len(t)) /\ AmountsAre(Amounts(t, p), t, p, Len(t))
      BY AmountsTyped DEF AmountsAre
    <3> QED BY <3>1 DEF Numbers, AmountsAre
  <2> HIDE DEF off, new
  <2>3. Len(t) = n - k
    BY DEF After
  <2> QED BY <2>1, <2>2, <2>3
<1>3. InLine(Bytes(s), n, at, off) /\ (n > 0 => at[n] = AnswerLength(off[n]))
  BY DEF LaidOut
<1>4. \A i \in 1..n - k : Bytes(t)[i] = Bytes(s)[i + k] /\ new[i] = off[i + k]
  <2> TAKE i \in 1..n - k
  <2>1. i + k \in 1..n /\ i \in 1..Len(t) /\ t[i] = s[i + k]
    <3>1. i + k \in 1..n
      BY <1>1
    <3>2. i \in 1..Len(t) /\ t[i] = s[i + k]
      BY DEF After
    <3> QED BY <3>1, <3>2
  <2>2. Bytes(t)[i] = t[i].byte /\ Bytes(s)[i + k] = s[i + k].byte
    BY <2>1, SentFacts
  <2>3. s[i + k].id \in 1..a
    BY <1>1, <2>1
  <2>4. p[s[i + k].id] = o[s[i + k].id]
    BY <2>3 DEF SameOffers
  <2> HIDE DEF off, new
  <2> QED BY <1>2, <2>1, <2>2, <2>4
<1> HIDE DEF off, new
<1>5. InLine(Bytes(t), n - k, to, new)
  <2> DEFINE b == Bytes(s)
             d == Bytes(t)
             l == n - k
  <2>1. k \in 0..n /\ InLine(b, n, at, off) /\ Numbers(new, l)
    BY <1>2, <1>3 DEF Numbers
  <2>2. FromOn(d, b, l, k) /\ FromOn(new, off, l, k) /\ FromOn(to, at, l, k)
    BY <1>4 DEF FromOn
  <2>3. to \in [1..l -> 1..7]
    <3>1. \A i \in 1..l : i + k \in 1..n
      BY <1>1
    <3>2. \A i \in 1..n : at[i] \in 1..7
      BY <1>3 DEF InLine
    <3> QED BY <3>1, <3>2
  <2>4. PICK x : x = l
    OBVIOUS
  <2>5. n \in Nat /\ x = n - k
    BY <1>1, <2>4
  <2> HIDE DEF n, b, d, to, l
  <2>6. InLine(d, x, to, new)
    BY <2>1, <2>2, <2>3, <2>4, <2>5, InLineSuffix
  <2> QED BY <2>4, <2>6 DEF d, l
<1>6. n - k > 0 => to[n - k] = AnswerLength(new[n - k])
  <2> HAVE n - k > 0
  <2>1. n - k \in 1..n - k /\ (n - k) + k = n /\ n > 0
    BY <1>1
  <2>2. to[n - k] = at[n] /\ new[n - k] = off[n]
    BY <1>4, <2>1
  <2> QED BY <1>3, <2>1, <2>2
<1>7. then > 0 /\ n - k > 0 => Announces(then, to, new)
  <2> HAVE then > 0 /\ n - k > 0
  <2>1. 1 \in 1..n - k /\ 1 + k = k + 1 /\ k < n
    BY <1>1
  <2>2. to[1] = at[k + 1] /\ new[1] = off[k + 1]
    BY <1>4, <2>1
  <2>3. at[k + 1] = 1 \/ then = AnswerByte(off[k + 1], at[k + 1] - 1)
    BY <2>1 DEF off, ReadBefore
  <2> HIDE DEF to
  <2> QED BY <2>2, <2>3 DEF Announces
<1>8. LaidOut(t, p, then, to)
  <2> HIDE DEF to
  <2>1. Len(t) = n - k
    BY DEF After
  <2> QED BY <1>5, <1>6, <1>7, <2>1 DEF LaidOut, new
<1> QED BY <1>8

\* t are the bytes s and after them the answer with the offer m to the request id, and what was
\* offered before that is in p as in o.
Longer(t, s, m, id) ==
  /\ Len(t) = Len(s) + AnswerLength(m)
  /\ \A i \in 1..Len(s) : t[i] = s[i] /\ s[i].id < id
  /\ \A i \in Len(s) + 1..Len(t) : t[i].id = id /\ t[i].byte = AnswerByte(m, i - Len(s))
EarlierOffers(p, o, a, id) == \A i \in 1..a : i < id => p[i] = o[i]

\* Another answer is sent.
LEMMA LaidOutLonger ==
  ASSUME Bids \subseteq 0..127, NEW a \in Nat, NEW s, AnswersTo(s, a), NEW o, OffersTo(o, a),
         NEW length, NEW at, LaidOut(s, o, length, at),
         NEW t, AnswersTo(t, a), NEW p, OffersTo(p, a), NEW id \in 1..a,
         NEW m, m = Amount(p[id]), Longer(t, s, m, id), EarlierOffers(p, o, a, id)
  PROVE  \E to : LaidOut(t, p, length, to)
<1> DEFINE n == Len(s)
           l == Len(t)
           off == Amounts(s, o)
           new == Amounts(t, p)
<1>1. n \in Nat /\ l \in Nat /\ \A i \in 1..n : s[i].id \in 1..a
  BY SentFacts
<1>2. /\ off \in [1..n -> -1..127] /\ \A i \in 1..n : off[i] = Amount(o[s[i].id])
      /\ new \in [1..l -> -1..127] /\ \A i \in 1..l : new[i] = Amount(p[t[i].id])
  BY AmountsTyped DEF AmountsAre, Numbers
<1>3. InLine(Bytes(s), n, at, off) /\ (n > 0 => at[n] = AnswerLength(off[n]))
      /\ (length > 0 /\ n > 0 => Announces(length, at, off))
  BY DEF LaidOut
<1>4. m \in -1..127
  BY OfferAmount
<1>5. l = n + AnswerLength(m) /\ AnswerLength(m) \in 1..7
  BY <1>4 DEF AnswerLength, Longer
<1>6. \A i \in 1..n : Bytes(t)[i] = Bytes(s)[i] /\ new[i] = off[i]
  <2> TAKE i \in 1..n
  <2>1. i \in 1..l /\ t[i] = s[i] /\ s[i].id < id /\ s[i].id \in 1..a
    BY <1>1, <1>5 DEF Longer
  <2>2. Bytes(t)[i] = t[i].byte /\ Bytes(s)[i] = s[i].byte
    BY <2>1, SentFacts
  <2>3. p[s[i].id] = o[s[i].id]
    BY <2>1 DEF EarlierOffers
  <2> HIDE DEF off, new
  <2> QED BY <1>2, <2>1, <2>2, <2>3
<1>7. \A i \in n + 1..l : Bytes(t)[i] = AnswerByte(m, i - n) /\ new[i] = m
  <2> TAKE i \in n + 1..l
  <2>1. i \in 1..l /\ t[i].id = id /\ t[i].byte = AnswerByte(m, i - n)
    BY <1>1 DEF Longer
  <2>2. Bytes(t)[i] = t[i].byte
    BY <2>1, SentFacts
  <2> HIDE DEF new
  <2> QED BY <1>2, <2>1, <2>2
<1> HIDE DEF n, l, off, new
<1>8. PICK to : /\ InLine(Bytes(t), l, to, new) /\ to[l] = AnswerLength(new[l])
                /\ to[1] = IF n > 0 THEN at[1] ELSE 1
  <2> DEFINE b == Bytes(s)
             d == Bytes(t)
  <2>1. InLine(b, n, at, off) /\ Numbers(new, l)
    BY <1>2, <1>3 DEF Numbers
  <2>2. FromOn(d, b, n, 0) /\ FromOn(new, off, n, 0)
    <3>1. \A i \in 1..n : i + 0 = i
      BY <1>1
    <3> QED BY <1>6, <3>1 DEF FromOn
  <2>4. AnswerFrom(d, n, l, m) /\ AmountFrom(new, n, l, m)
    BY <1>7 DEF AnswerFrom, AmountFrom
  <2> HIDE DEF b, d
  <2>5. PICK first : first = IF n > 0 THEN at[1] ELSE 1
    OBVIOUS
  <2>6. WholeFrom(d, l, new, first)
    BY <1>1, <1>3, <1>4, <1>5, <2>1, <2>2, <2>4, <2>5, InLineLonger
  <2> QED BY <2>5, <2>6 DEF d, WholeFrom
<1>9. length > 0 => Announces(length, to, new)
  <2> HAVE length > 0
  <2>1. CASE n > 0
    <3>1. 1 \in 1..n
      BY <1>1, <2>1
    <3>2. to[1] = at[1] /\ new[1] = off[1]
      BY <1>6, <1>8, <2>1, <3>1
    <3> QED BY <1>3, <2>1, <3>2 DEF Announces
  <2>2. CASE ~ (n > 0)
    BY <1>8, <2>2 DEF Announces
  <2> QED BY <2>1, <2>2
<1>10. LaidOut(t, p, length, to)
  BY <1>8, <1>9 DEF LaidOut, l, new
<1> QED BY <1>10

\* What the body is that the server reads.
LEMMA LaidOutBody ==
  ASSUME Bids \subseteq 0..127, NEW a \in Nat, NEW s, AnswersTo(s, a), NEW o, OffersTo(o, a),
         NEW length \in 1..Len(s), NEW at, LaidOut(s, o, length, at)
  PROVE  LET body == SubSeq(Bytes(s), 1, length)
             offer == o[s[length].id]
         IN  \/ NoBidIn(body)
             \/ Amount(offer) \in 0..127 /\ BidIn(body, Amount(offer)) /\ offer = <<Amount(offer)>>
<1> DEFINE n == Len(s)
           off == Amounts(s, o)
           b == Bytes(s)
           body == SubSeq(b, 1, length)
           to == [i \in 1..length |-> at[i]]
           new == [i \in 1..length |-> off[i]]
<1>1. n \in Nat /\ length \in 1..n /\ length \in 0..n /\ length \in Nat \ {0} /\ s[length].id \in 1..a
  BY SentFacts
<1>2. \A i \in 1..n : off[i] = Amount(o[s[i].id])
  BY AmountsTyped DEF AmountsAre, Numbers
<1>3. InLine(b, n, at, off) /\ Announces(length, at, off)
  BY <1>1 DEF LaidOut
<1>4. \A i \in 1..n : b[i] \in 0..127
  <2> TAKE i \in 1..n
  <2>1. at[i] \in 1..7 /\ off[i] \in -1..127 /\ b[i] = AnswerByte(off[i], at[i])
    BY <1>3 DEF InLine
  <2> QED BY <2>1 DEF AnswerByte
<1> HIDE DEF n, off, b
<1>5. body \in Seq(0..127) /\ Len(body) = length /\ \A i \in 1..length : body[i] = b[i]
  <2> DEFINE S == 0..127
             lo == 1
  <2>1. \A i \in lo..length : b[i] \in S
    BY <1>1, <1>4
  <2>2. lo \in Int /\ length \in Int /\ lo <= length /\ length - lo + 1 = length
        /\ \A i \in 1..length : lo + i - 1 = i
    BY <1>1
  <2> HIDE DEF S, lo
  <2>3. /\ SubSeq(b, lo, length) \in Seq(S)
        /\ Len(SubSeq(b, lo, length)) = IF lo <= length THEN length - lo + 1 ELSE 0
        /\ \A i \in 1..length - lo + 1 : SubSeq(b, lo, length)[i] = b[lo + i - 1]
    BY <2>1, <2>2, SubSeqProperties
  <2> QED BY <2>2, <2>3 DEF S, lo
<1> HIDE DEF body
<1>6. Plain(body, length)
  <2>1. body \in [1..length -> 0..127]
    <3> DEFINE S == 0..127
    <3>1. body \in Seq(S) /\ Len(body) = length
      BY <1>5
    <3> HIDE DEF S
    <3>2. body \in [1..length -> S]
      BY <3>1, LenProperties
    <3> QED BY <3>2 DEF S
  <2> QED BY <1>5, <2>1 DEF Plain
<1>7. InLine(body, length, to, new)
  <2> HIDE DEF to, new
  <2>1. FromOn(body, b, length, 0)
    <3>1. \A i \in 1..length : i + 0 = i
      BY <1>1
    <3> QED BY <1>5, <3>1 DEF FromOn
  <2>2. InLine(body, length, Beginning(at, length), Beginning(off, length))
    BY <1>1, <1>3, <2>1, InLinePrefix
  <2> QED BY <2>2 DEF to, new, Beginning
<1>8. Announces(length, to, new)
  <2>1. 1 \in 1..length
    BY <1>1
  <2>2. to[1] = at[1] /\ new[1] = off[1]
    BY <2>1
  <2> HIDE DEF to, new
  <2> QED BY <1>3, <2>2 DEF Announces
<1>9. new[length] = Amount(o[s[length].id])
  BY <1>1, <1>2
<1> HIDE DEF to, new
<1>10. Told(body, length, new)
  BY <1>1, <1>6, <1>7, <1>8, BodyTells
<1>11. Amount(o[s[length].id]) \in 0..127 => o[s[length].id] = <<Amount(o[s[length].id])>>
  <2>1. \A k \in 1..a : Amount(o[k]) \in 0..127 => o[k] = <<Amount(o[k])>>
    BY OfferAmount
  <2> QED BY <1>1, <2>1
<1> QED BY <1>9, <1>10, <1>11 DEF Told, body, b

-----------------------------------------------------------------------------
(* The server's steps keep the line of answers. *)

LEMMA BidsTyped ==
  ASSUME Types
  PROVE  asked \in Nat /\ AnswersTo(sent, asked) /\ OffersTo(offers, asked)
BY DEF Types, AnswersTo, OffersTo

\* No bytes are laid out well.
LEMMA NothingLaidOut ==
  ASSUME NEW a \in Nat, NEW s, AnswersTo(s, a), Len(s) = 0, NEW o, NEW length
  PROVE  \E at : LaidOut(s, o, length, at)
<1> DEFINE at == [i \in 1..0 |-> 1]
           off == Amounts(s, o)
<1>1. DOMAIN s = 1..0
  BY SentFacts
<1>2. off \in [1..0 -> -1..127]
  BY <1>1 DEF Amounts
<1>3. at \in [1..0 -> 1..7]
  OBVIOUS
<1> HIDE DEF at, off
<1>4. InLine(Bytes(s), 0, at, off)
  BY <1>2, <1>3 DEF InLine
<1>5. LaidOut(s, o, length, at)
  BY <1>4 DEF LaidOut, off
<1> QED BY <1>5

\* Offers once made stay.
OffersKept == OffersTo(offers', asked') /\ \A i \in 1..asked : offers'[i] = offers[i]

LEMMA OutcomeOffers ==
  ASSUME Types, Outcome
  PROVE  OffersKept
<1>1. PICK m \in 0..3, r \in {0, 1} : Mailed(m, r)
  BY DEF Outcome, Goes
<1>2. Len(offers') = asked'
  BY <1>1 DEF Mailed
<1>3. offers' \in Seq({NoBid} \cup {<<x>> : x \in Bids})
  BY <1>1 DEF Mailed
<1>4. \A i \in 1..asked : offers'[i] = offers[i]
  BY <1>1 DEF Mailed
<1> QED BY <1>2, <1>3, <1>4 DEF OffersKept, OffersTo

\* Some bytes are read or lost.
LEMMA WholeDropped ==
  ASSUME Bids \subseteq 0..127, Types, task \notin {"auth", "over"}, WholeAnswers,
         asked' \in Nat, asked' >= asked, OffersKept, NEW n \in Nat, Dropped(n), need' = 0
  PROVE  WholeAnswers'
<1>1. PICK at : LaidOut(sent, offers, need, at)
  BY DEF WholeAnswers
<1>2. asked \in Nat /\ AnswersTo(sent, asked) /\ OffersTo(offers, asked)
  BY BidsTyped
<1>3. n \in 0..Len(sent) /\ AnswersTo(sent', asked') /\ After(sent', sent, n)
  BY DEF Dropped, AnswersTo, After
<1>4. OffersTo(offers', asked') /\ SameOffers(offers', offers, asked)
  BY DEF OffersKept, SameOffers
<1>5. ReadBefore(need', n, sent, offers, at)
  BY DEF ReadBefore
<1>6. \E to : LaidOut(sent', offers', need', to)
  BY <1>1, <1>2, <1>3, <1>4, <1>5, LaidOutDropped
<1> QED BY <1>6 DEF WholeAnswers

\* What the server sends comes later than anything that it has heard.
LEMMA LaterMailed ==
  ASSUME Types, InIdOrder, HeardBefore, Outcome,
         heard' = heard \/ (need \in DOMAIN sent /\ heard'.got = sent[need].id)
  PROVE  HeardBefore'
<1>1. PICK m \in 0..3, r \in {0, 1} : Mailed(m, r)
  BY DEF Outcome, Goes
<1>2. Len(mail) \in Nat /\ DOMAIN mail = 1..Len(mail) /\ asked \in Nat
  BY MailTyped
<1>3. heard'.got \in 0..asked
  BY SentTyped, SMTT(30) DEF Types
<1>4. ASSUME NEW i \in DOMAIN mail', mail'[i].id > 0 PROVE mail'[i].id > heard'.got
  <2>1. i \in 1..Len(mail) \/ i \in Len(mail) + 1..Len(mail')
    <3> DEFINE T == [type : DOMAIN MsgType, id : 0..asked']
    <3>1. mail' \in Seq(T)
      BY <1>1 DEF Mailed
    <3> HIDE DEF T
    <3> QED BY <1>2, <3>1, LenProperties
  <2>2. CASE i \in 1..Len(mail)
    <3>1. mail'[i] = mail[i] /\ i \in DOMAIN mail
      BY <1>1, <1>2, <2>2 DEF Mailed
    <3>2. mail[i].id > heard.got
      BY <1>4, <3>1 DEF HeardBefore
    <3>3. need \in DOMAIN sent => mail[i].id > sent[need].id
      BY <1>4, <3>1 DEF InIdOrder
    <3> QED BY <3>1, <3>2, <3>3
  <2>3. CASE i \in Len(mail) + 1..Len(mail')
    <3>1. mail'[i].id = asked + 1 \/ mail'[i].id = 0
      BY <1>1, <2>3 DEF Mailed
    <3> QED BY <1>2, <1>3, <1>4, <3>1
  <2> QED BY <2>1, <2>2, <2>3
<1> QED BY <1>4 DEF HeardBefore

\* The server has read nothing that it could take for a bid.
LEMMA UnheardBids ==
  ASSUME Bids \subseteq 0..127, SessionInv, BidInv, Outcome, NEW n \in Nat, Dropped(n), need' = 0,
         heard' = heard, task' # "over" => task \notin {"auth", "over"}
  PROVE  BidInv'
<1>1. Types /\ InIdOrder /\ WholeAnswers /\ HeardBefore /\ HeardOffer
  BY DEF SessionInv, BidInv
<1>2. asked \in Nat \ {0} /\ asked' \in Nat /\ asked' >= asked /\ OffersKept
  BY <1>1, OutcomeFacts, OutcomeOffers
<1>3. WholeAnswers'
  <2>1. CASE task' = "over"
    BY <2>1 DEF WholeAnswers
  <2>2. CASE task' # "over"
    BY <1>1, <1>2, <2>2, WholeDropped
  <2> QED BY <2>1, <2>2
<1>4. HeardBefore'
  BY <1>1, LaterMailed
<1>5. HeardOffer'
  <2> SUFFICES ASSUME heard.bid # NoBid
               PROVE  heard.got \in 1..asked' /\ heard.bid = offers'[heard.got]
    BY DEF HeardOffer
  <2>1. heard.got \in 1..asked /\ heard.bid = offers[heard.got]
    BY <1>1 DEF HeardOffer
  <2>2. offers'[heard.got] = offers[heard.got]
    BY <1>2, <2>1 DEF OffersKept
  <2>3. \A k \in 1..asked : k \in 1..asked'
    BY <1>2
  <2> QED BY <2>1, <2>2, <2>3
<1> QED BY <1>3, <1>4, <1>5 DEF BidInv

\* A message is read: a bid in it is that of the answer in which it ends.
LEMMA BodyBids ==
  ASSUME Bids \subseteq 0..127, SessionInv, BidInv, BodyIsThere, NEW bid, ReadBody(bid), Outcome,
         bid # NoBid => task = "bid" /\ Body # <<>> /\ bid = BidAmount(Body[1])
  PROVE  BidInv'
<1>1. /\ Types /\ InIdOrder /\ Auth /\ WholeAnswers /\ HeardBefore /\ HeardOffer
      /\ need \in 1..Len(sent) /\ Len(sent) \in Nat /\ DOMAIN sent = 1..Len(sent)
      /\ need' = 0 /\ sent' = SubSeq(sent, need + 1, Len(sent)) /\ sent[need].id \in 1..asked
      /\ heard' = [want |-> asked, got |-> sent[need].id, bid |-> bid]
      /\ task # "over"
  BY SentTyped DEF SessionInv, BidInv, BodyIsThere, ReadBody, Take, Reading
<1>2. asked \in Nat \ {0} /\ asked' \in Nat /\ asked' >= asked /\ OffersKept
  BY <1>1, OutcomeFacts, OutcomeOffers
<1>3. heard'.got = sent[need].id /\ heard'.bid = bid
  BY <1>1
<1>4. need \in Nat /\ need \in 0..Len(sent) /\ Dropped(need)
  BY <1>1, <1>2, SentDropped
<1>5. WholeAnswers'
  <2>1. CASE task = "auth"
    <3>1. Len(sent) <= need
      BY <1>1, <2>1 DEF Auth
    <3>2. Len(sent') = 0 /\ AnswersTo(sent', asked')
      <4>1. Len(sent') = Len(sent) - need
        BY <1>4 DEF Dropped
      <4>2. Len(sent) - need = 0
        <5> DEFINE l == Len(sent)
        <5>1. l \in Nat /\ need \in 1..l /\ l <= need
          BY <1>1, <3>1
        <5> HIDE DEF l
        <5>2. l - need = 0
          BY <5>1
        <5> QED BY <5>2 DEF l
      <4>3. AnswersTo(sent', asked')
        BY <1>4 DEF Dropped, AnswersTo
      <4> QED BY <4>1, <4>2, <4>3
    <3>3. \E at : LaidOut(sent', offers', need', at)
      BY <1>2, <3>2, NothingLaidOut
    <3> QED BY <3>3 DEF WholeAnswers
  <2>2. CASE task # "auth"
    BY <1>1, <1>2, <1>4, <2>2, WholeDropped
  <2> QED BY <2>1, <2>2
<1>6. HeardBefore'
  BY <1>1, <1>3, LaterMailed
<1>7. HeardOffer'
  <2> SUFFICES ASSUME bid # NoBid
               PROVE  sent[need].id \in 1..asked' /\ bid = offers'[sent[need].id]
    BY <1>3 DEF HeardOffer
  <2>1. PICK at : LaidOut(sent, offers, need, at)
    BY <1>1 DEF WholeAnswers
  <2> DEFINE b == SubSeq(Bytes(sent), 1, need)
             offer == offers[sent[need].id]
  <2>2. asked \in Nat /\ AnswersTo(sent, asked) /\ OffersTo(offers, asked)
    BY <1>1, BidsTyped
  <2>3. NoBidIn(b) \/ (Amount(offer) \in 0..127 /\ BidIn(b, Amount(offer)) /\ offer = <<Amount(offer)>>)
    BY <1>1, <2>1, <2>2, LaidOutBody, ZenonT(30)
  <2>4. Parse(b) # <<>> /\ bid = BidAmount(Parse(b)[1]) /\ bid # <<>>
    BY DEF Body, NoBid
  <2> HIDE DEF b, offer
  <2>5. IsBidOf(Parse(b)[1], Amount(offer)) /\ offer = <<Amount(offer)>>
    BY <2>3, <2>4 DEF NoBidIn, BidIn
  <2>6. bid = offer
    BY <2>4, <2>5 DEF IsBidOf
  <2>7. offers'[sent[need].id] = offers[sent[need].id]
    BY <1>1, <1>2 DEF OffersKept
  <2>8. \A k \in 1..asked : k \in 1..asked'
    BY <1>2
  <2> QED BY <1>1, <2>6, <2>7, <2>8 DEF offer
<1> QED BY <1>5, <1>6, <1>7 DEF BidInv

\* A length is read and there is a message to read: it is the byte before what is left.
LEMMA SizeReadBids ==
  ASSUME Bids \subseteq 0..127, SessionInv, BidInv, ReadSize, need' > 0
  PROVE  BidInv'
<1>1. /\ Types /\ InIdOrder /\ SturdySent /\ WholeAnswers /\ HeardBefore /\ HeardOffer
      /\ Reading /\ HasPrefix(Bytes(sent))
      /\ need' = NumBytes(Bytes(sent))
      /\ sent' = SubSeq(sent, Len(Prefix(Bytes(sent))) + 1, Len(sent))
      /\ task' = task /\ asked' = asked /\ mail' = mail /\ offers' = offers /\ heard' = heard
  BY DEF SessionInv, BidInv, ReadSize
<1>2. HeardBefore' /\ HeardOffer'
  BY <1>1 DEF HeardBefore, HeardOffer
<1>3. ASSUME task # "auth" PROVE WholeAnswers'
  <2>1. task \notin {"auth", "over"}
    BY <1>1, <1>3 DEF Reading
  <2>2. PICK at : LaidOut(sent, offers, need, at)
    BY <1>1, <2>1 DEF WholeAnswers
  <2>3. Len(Prefix(Bytes(sent))) = 1 /\ need' = sent[1].byte /\ Len(sent) \in Nat \ {0}
    BY <1>1, <2>1, SturdyLength, PrefixThere
  <2>4. PICK k \in 0..Len(sent) : k = 1
    BY <2>3
  <2>5. asked \in Nat /\ AnswersTo(sent, asked) /\ OffersTo(offers, asked)
    BY <1>1, BidsTyped
  <2>6. k \in Nat /\ Dropped(k)
    <3>1. sent' = SubSeq(sent, k + 1, Len(sent))
      BY <1>1, <2>3, <2>4
    <3>2. asked' \in Nat /\ asked' >= asked
      BY <1>1, <2>5
    <3> QED BY <1>1, <2>4, <3>1, <3>2, SentDropped
  <2>7. AnswersTo(sent', asked) /\ After(sent', sent, k)
    BY <1>1, <2>6 DEF Dropped, AnswersTo, After
  <2>8. OffersTo(offers', asked) /\ SameOffers(offers', offers, asked)
    BY <1>1, <2>5 DEF SameOffers
  <2>9. ReadBefore(need', k, sent, offers, at)
    <3> DEFINE off == Amounts(sent, offers)
               b == Bytes(sent)
               n == Len(sent)
               size == need'
    <3>1. InLine(b, n, at, off)
      BY <2>2 DEF LaidOut
    <3>2. b[1] = size /\ n \in Nat \ {0}
      <4>1. 1 \in 1..Len(sent) /\ n \in Nat \ {0}
        BY <2>3
      <4>2. Bytes(sent)[1] = sent[1].byte
        BY <1>1, <4>1, BytesFacts
      <4> QED BY <2>3, <4>1, <4>2
    <3> HIDE DEF off, b, n, size
    <3>3. SUFFICES ASSUME 1 < n
                   PROVE  at[2] = 1 \/ size = AnswerByte(off[2], at[2] - 1)
      <4>1. k + 1 = 2
        BY <2>4
      <4> QED BY <2>4, <3>3, <4>1 DEF ReadBefore, off, n, size
    <3>4. 1 \in 1..n /\ 2 \in 1..n /\ 1 + 1 = 2
      BY <3>2, <3>3
    <3>5. /\ at[1] \in 1..7 /\ b[1] = AnswerByte(off[1], at[1])
          /\ IF at[1] < AnswerLength(off[1]) THEN off[2] = off[1] /\ at[2] = at[1] + 1 ELSE at[2] = 1
      BY <3>1, <3>4 DEF InLine
    <3>6. CASE at[1] < AnswerLength(off[1])
      <4>1. at[2] - 1 = at[1] /\ off[2] = off[1]
        BY <3>5, <3>6
      <4> QED BY <3>2, <3>5, <4>1
    <3> QED BY <3>5, <3>6
  <2>10. \E to : LaidOut(sent', offers', need', to)
    <3>1. asked >= asked
      BY <2>5
    <3> QED BY <2>2, <2>4, <2>5, <2>7, <2>8, <2>9, <3>1, LaidOutDropped
  <2> QED BY <2>10 DEF WholeAnswers
<1>4. task = "auth" => WholeAnswers'
  BY <1>1 DEF WholeAnswers
<1> QED BY <1>2, <1>3, <1>4 DEF BidInv

LEMMA SilentBids == ASSUME Bids \subseteq 0..127, SessionInv, BidInv, Silent PROVE BidInv'
<1>1. /\ Types /\ Reading /\ Outcome /\ (task = "auth" => task' = "over")
      /\ need' = 0 /\ sent' = sent /\ heard' = heard
  BY SilentOutcome DEF SessionInv, Silent
<1>2. Dropped(0)
  BY <1>1, OutcomeFacts, NothingDropped
<1> QED BY <1>1, <1>2, UnheardBids DEF Reading

LEMMA LateBodyBids == ASSUME Bids \subseteq 0..127, SessionInv, BidInv, LateBody PROVE BidInv'
<1>1. Reading /\ Outcome /\ (task = "auth" => task' = "over") /\ need' = 0 /\ heard' = heard
  BY LateBodyOutcome DEF LateBody
<1>2. PICK n \in Nat : Dropped(n)
  BY LateBodyOutcome
<1> QED BY <1>1, <1>2, UnheardBids DEF Reading

LEMMA SizeZeroBids ==
  ASSUME Bids \subseteq 0..127, SessionInv, BidInv, ReadSize, ~ (need' > 0)
  PROVE  BidInv'
<1>1. /\ Types /\ Reading /\ Outcome /\ (task = "auth" => task' = "over")
      /\ need' = 0 /\ Dropped(Len(Prefix(Bytes(sent)))) /\ heard' = heard
  BY SizeZeroOutcome DEF SessionInv, ReadSize
<1>2. PICK n \in Nat : Dropped(n)
  <2>1. Len(Prefix(Bytes(sent))) \in Nat
    BY <1>1, PrefixThere DEF ReadSize
  <2> QED BY <1>1, <2>1
<1> QED BY <1>1, <1>2, UnheardBids DEF Reading

\* Between two reads.
LEMMA UnreadBids ==
  ASSUME Bids \subseteq 0..127, SessionInv, BidInv, task \in {"idle", "game"}, Outcome,
         sent' = sent, need' = need, heard' = heard
  PROVE  BidInv'
<1>1. Types /\ need = 0
  BY DEF SessionInv, Owed, Reading
<1>2. Dropped(0)
  BY <1>1, OutcomeFacts, NothingDropped
<1> QED BY <1>1, <1>2, UnheardBids

LEMMA TaskBids ==
  ASSUME Bids \subseteq 0..127, SessionInv, BidInv, Authenticate \/ Alive \/ Bid \/ Ping \/ Play
  PROVE  BidInv'
<1>1. Types
  BY DEF SessionInv
<1>2. CASE Authenticate
  <2>1. BodyIsThere /\ ReadBody(NoBid) /\ Outcome
    BY <1>1, <1>2, AuthenticateOutcome DEF Authenticate
  <2> QED BY <2>1, BodyBids
<1>3. CASE Alive
  <2>1. BodyIsThere /\ ReadBody(NoBid) /\ Outcome
    BY <1>1, <1>3, AliveOutcome DEF Alive
  <2> QED BY <2>1, BodyBids
<1>4. CASE Bid
  <2> DEFINE amount == IF Body # <<>> /\ TypeOf(Body[1]) = "BID_RESPONSE"
                       THEN BidAmount(Body[1]) ELSE <<>>
  <2>1. BodyIsThere /\ task = "bid" /\ Outcome
    BY <1>1, <1>4, BidOutcome DEF Bid
  <2>2. ReadBody(NoBid) \/ (amount # <<>> /\ ReadBody(amount))
    BY <1>4 DEF Bid
  <2>3. amount # <<>> => Body # <<>> /\ amount = BidAmount(Body[1])
    OBVIOUS
  <2> HIDE DEF amount
  <2> QED BY <2>1, <2>2, <2>3, BodyBids
<1>5. CASE Ping
  <2>1. task = "idle" /\ Outcome /\ sent' = sent /\ need' = need /\ heard' = heard
    BY <1>1, <1>5, PingOutcome DEF Ping
  <2> QED BY <2>1, UnreadBids
<1>6. CASE Play
  <2>1. task = "game" /\ Outcome /\ sent' = sent /\ need' = need /\ heard' = heard
    BY <1>1, <1>6, PlayOutcome DEF Play
  <2> QED BY <2>1, UnreadBids
<1> QED BY <1>2, <1>3, <1>4, <1>5, <1>6
-----------------------------------------------------------------------------
(* The client's steps keep it, and the specification. *)

\* What it answers, to the byte.
LEMMA AnswerBytes ==
  ASSUME Bids \subseteq 0..127, NEW type \in {"ALIVE", "BID_REQUEST"}, NEW a \in Answers(type)
  PROVE  EndsAnswer(Frame(a.msg), Amount(a.offer), 1)
<1>1. CASE type = "ALIVE"
  <2>1. a.msg = Bare("ACK") /\ a.offer = NoBid
    BY <1>1 DEF Answers
  <2>2. Amount(a.offer) = -1
    BY <2>1 DEF Amount
  <2> QED BY <2>1, <2>2, AckFrame
<1>2. CASE type = "BID_REQUEST"
  <2>1. PICK m \in Bids : a.msg = BidResponseMsg(m) /\ a.offer = <<m>>
    BY <1>2 DEF Answers
  <2>2. m \in 0..127
    OBVIOUS
  <2>3. Amount(a.offer) = m
    <3>1. <<m>> # <<>> /\ <<m>>[1] = m
      OBVIOUS
    <3> QED BY <2>1, <3>1 DEF Amount, NoBid
  <2> QED BY <2>1, <2>2, <2>3, BidFrame
<1> QED BY <1>1, <1>2

\* The answer to a request is put behind the others.
LEMMA AnsweredBids ==
  ASSUME Bids \subseteq 0..127, Types, InIdOrder, task \notin {"auth", "over"}, WholeAnswers,
         NEW id \in 1..asked, 1 \in DOMAIN mail, id = mail[1].id,
         NEW f, NEW offer \in {NoBid} \cup {<<m>> : m \in Bids}, EndsAnswer(f, Amount(offer), 1),
         Answered(id, f), offers' = [offers EXCEPT ![id] = offer],
         task' = task, asked' = asked, need' = need
  PROVE  WholeAnswers'
<1>1. PICK at : LaidOut(sent, offers, need, at)
  BY DEF WholeAnswers
<1>2. asked \in Nat /\ AnswersTo(sent, asked) /\ OffersTo(offers, asked)
  BY BidsTyped
<1>3. OffersTo(offers', asked) /\ offers'[id] = offer /\ \A i \in 1..asked : i < id => offers'[i] = offers[i]
  <2> DEFINE S == {NoBid} \cup {<<m>> : m \in Bids}
  <2>1. offers \in Seq(S) /\ Len(offers) = asked /\ DOMAIN offers = 1..asked
    <3>1. offers \in Seq(S) /\ Len(offers) = asked
      BY <1>2 DEF OffersTo
    <3> HIDE DEF S
    <3> QED BY <3>1, LenProperties
  <2>2. offer \in S
    OBVIOUS
  <2> HIDE DEF S
  <2>3. offers' \in Seq(S) /\ Len(offers') = Len(offers)
    BY <2>1, <2>2, ExceptSeq
  <2>4. OffersTo(offers', asked)
    BY <2>1, <2>3 DEF OffersTo, S
  <2>5. offers'[id] = offer /\ \A i \in 1..asked : i # id => offers'[i] = offers[i]
    BY <2>1
  <2>6. \A i \in 1..asked : i < id => i # id
    BY <1>2
  <2> QED BY <2>4, <2>5, <2>6
<1> DEFINE m == Amount(offer)
           n == Len(sent)
<1>4. /\ Len(f) = AnswerLength(m) /\ \A i \in 1..Len(f) : f[i] = AnswerByte(m, i)
      /\ Len(f) \in 3..7
  <2>1. /\ Len(f) = AnswerLength(m) + 1 - 1 /\ \A i \in 1..Len(f) : f[i] = AnswerByte(m, 1 - 1 + i)
    BY DEF EndsAnswer
  <2>2. AnswerLength(m) \in {3, 7}
    BY DEF AnswerLength
  <2> HIDE DEF m
  <2>3. Len(f) = AnswerLength(m) /\ Len(f) \in {3, 7}
    BY <2>1, <2>2
  <2>4. \A i \in 1..Len(f) : 1 - 1 + i = i
    BY <2>3
  <2> QED BY <2>1, <2>3, <2>4
<1> HIDE DEF m
<1>5. n \in Nat /\ \A i \in 1..n : i \in DOMAIN sent /\ sent[i].id \in 1..asked
  BY SentTyped
<1>6. \A i \in 1..n : sent'[i] = sent[i] /\ sent[i].id < id
  <2>1. \A i \in 1..n : sent'[i] = sent[i]
    BY DEF Answered
  <2>2. mail[1].id > 0
    OBVIOUS
  <2>3. \A i \in 1..n : mail[1].id > sent[i].id
    BY <1>5, <2>2 DEF InIdOrder
  <2>4. id \in Nat /\ \A i \in 1..n : sent[i].id \in Nat
    BY <1>5
  <2> HIDE DEF n
  <2>5. \A i \in 1..n : sent[i].id < id
    BY <2>3, <2>4
  <2> QED BY <2>1, <2>5
<1>7. AnswersTo(sent', asked) /\ Len(sent') = n + AnswerLength(m)
  <2> DEFINE T == [byte : 0..255, id : 1..asked]
             l == n + Len(f)
  <2>1. sent' \in Seq(T) /\ DOMAIN sent' = 1..l
    BY DEF Answered
  <2>2. l \in Nat
    BY <1>4, <1>5
  <2> HIDE DEF T, l
  <2>3. Len(sent') = l
    BY <2>1, <2>2, LenProperties
  <2> QED BY <1>4, <2>1, <2>3 DEF AnswersTo, T, l
<1>8. \A i \in n + 1..Len(sent') : sent'[i].id = id /\ sent'[i].byte = AnswerByte(m, i - n)
  <2> TAKE i \in n + 1..Len(sent')
  <2>1. i \in n + 1..n + Len(f) /\ i - n \in 1..Len(f)
    BY <1>4, <1>5, <1>7
  <2>2. sent'[i].byte = f[i - n] /\ sent'[i].id = id
    BY <2>1 DEF Answered
  <2> QED BY <1>4, <2>1, <2>2
<1>9. \E to : LaidOut(sent', offers', need, to)
  <2>1. Longer(sent', sent, m, id)
    BY <1>6, <1>7, <1>8 DEF Longer
  <2>2. EarlierOffers(offers', offers, asked, id) /\ m = Amount(offers'[id])
    BY <1>3 DEF EarlierOffers, m
  <2>3. AnswersTo(sent', asked) /\ OffersTo(offers', asked)
    BY <1>3, <1>7
  <2> HIDE DEF n
  <2> QED BY <1>1, <1>2, <2>1, <2>2, <2>3, LaidOutLonger
<1> QED BY <1>9 DEF WholeAnswers

LEMMA ClientReadsBids ==
  ASSUME Bids \subseteq 0..127, SessionInv, BidInv, ClientReads
  PROVE  BidInv'
<1> DEFINE m == Head(mail)
<1>1. /\ Types /\ MailKinds /\ InIdOrder /\ SturdySent /\ WholeAnswers /\ HeardBefore /\ HeardOffer
      /\ mail # <<>> /\ mail' = Tail(mail)
      /\ task' = task /\ need' = need /\ asked' = asked /\ heard' = heard
  BY DEF SessionInv, BidInv, ClientReads
<1>2. MailRead
  BY <1>1, TailRead
<1>3. m = mail[1] /\ 1 \in DOMAIN mail /\ m.id \in 0..asked /\ asked \in Nat
  <2>1. 1 \in 1..Len(mail)
    BY <1>2 DEF MailRead
  <2>2. mail[1].id \in 0..asked
    BY <1>1, <2>1, MailTyped
  <2>3. Head(mail) = mail[1] /\ asked \in Nat
    BY <1>1 DEF Types
  <2> QED BY <1>2, <2>1, <2>2, <2>3 DEF MailRead
<1> HIDE DEF m
<1>4. HeardBefore'
  <2>1. \A i \in DOMAIN mail' : mail'[i] = mail[i + 1] /\ i + 1 \in DOMAIN mail
    BY <1>2 DEF MailRead
  <2> QED BY <1>1, <2>1 DEF HeardBefore
<1>5. CASE Answers(m.type) = {}
  <2>1. sent' = sent /\ offers' = offers
    BY <1>5 DEF ClientReads, m
  <2>2. WholeAnswers'
    BY <1>1, <2>1 DEF WholeAnswers
  <2>3. HeardOffer'
    BY <1>1, <2>1 DEF HeardOffer
  <2> QED BY <1>4, <2>2, <2>3 DEF BidInv
<1>6. CASE Answers(m.type) # {}
  <2>1. PICK a \in Answers(m.type) :
          /\ sent' = sent \o [i \in DOMAIN Frame(a.msg) |-> [byte |-> Frame(a.msg)[i], id |-> m.id]]
          /\ offers' = [offers EXCEPT ![m.id] = a.offer]
    BY <1>6 DEF ClientReads, m
  <2>2. m.type \in Requests /\ a.offer \in {NoBid} \cup {<<x>> : x \in Bids}
    BY <2>1 DEF Answers, Requests
  <2>3. /\ m.id = 0 => m.type \notin Requests
        /\ m.id > 1 => m.type \in {"ALIVE", "BID_REQUEST"}
    BY <1>1, <1>3 DEF MailKinds, Requests
  <2>4. PICK id \in 0..asked : id = m.id
    BY <1>3
  <2>5. id \in 1..asked /\ id > 0
    BY <1>3, <2>2, <2>3, <2>4
  <2>6. HeardOffer'
    <3> SUFFICES ASSUME heard.bid # NoBid
                 PROVE  heard.got \in 1..asked /\ heard.bid = offers'[heard.got]
      BY <1>1 DEF HeardOffer
    <3>1. heard.got \in 1..asked /\ heard.bid = offers[heard.got]
      BY <1>1 DEF HeardOffer
    <3>2. id > heard.got
      BY <1>1, <1>3, <2>4, <2>5 DEF HeardBefore
    <3>3. heard.got # id
      BY <1>3, <2>4, <3>1, <3>2
    <3>4. DOMAIN offers = 1..asked
      <4> DEFINE S == {NoBid} \cup {<<x>> : x \in Bids}
      <4>1. offers \in Seq(S) /\ Len(offers) = asked
        BY <1>1 DEF Types
      <4> HIDE DEF S
      <4> QED BY <4>1, LenProperties
    <3>5. offers'[heard.got] = offers[heard.got]
      BY <2>1, <2>4, <3>1, <3>3, <3>4
    <3> QED BY <3>1, <3>5
  <2>7. ASSUME task \notin {"auth", "over"} PROVE WholeAnswers'
    <3>1. id # 1
      BY <1>1, <1>3, <2>4, <2>7 DEF SturdySent
    <3>2. m.type \in {"ALIVE", "BID_REQUEST"}
      <4>1. id > 1
        BY <1>3, <2>5, <3>1
      <4> QED BY <2>3, <2>4, <4>1
    <3> DEFINE f == Frame(a.msg)
               offer == a.offer
    <3>3. EndsAnswer(f, Amount(offer), 1)
      BY <2>1, <3>2, AnswerBytes
    <3>4. f \in Seq(0..255)
      BY <3>3 DEF EndsAnswer
    <3>5. sent' = sent \o [i \in DOMAIN f |-> [byte |-> f[i], id |-> id]]
      BY <2>1, <2>4
    <3>6. offer \in {NoBid} \cup {<<x>> : x \in Bids} /\ offers' = [offers EXCEPT ![id] = offer]
      BY <2>1, <2>2, <2>4
    <3> HIDE DEF f, offer
    <3>7. Answered(id, f)
      BY <1>1, <2>5, <3>4, <3>5, AnswerAdded
    <3>8. id = mail[1].id
      BY <1>3, <2>4
    <3> QED BY <1>1, <1>3, <2>5, <2>7, <3>3, <3>6, <3>7, <3>8, AnsweredBids
  <2>8. task \in {"auth", "over"} => WholeAnswers'
    BY <1>1 DEF WholeAnswers
  <2> QED BY <1>4, <2>6, <2>7, <2>8 DEF BidInv
<1> QED BY <1>5, <1>6

LEMMA InitBids == ASSUME Init PROVE BidInv
<1>1. /\ task = "auth" /\ mail = <<[type |-> "VERSION", id |-> 0], [type |-> "AUTH_REQUEST", id |-> 1]>>
      /\ heard.got = 0 /\ heard.bid = NoBid
  BY DEF Init
<1>2. DOMAIN mail = 1..2 /\ mail[1].id = 0 /\ mail[2].id = 1
  BY <1>1
<1>3. HeardBefore
  BY <1>1, <1>2 DEF HeardBefore
<1> QED BY <1>1, <1>3 DEF BidInv, WholeAnswers, HeardOffer

LEMMA StutterBids == ASSUME BidInv, UNCHANGED vars PROVE BidInv'
BY DEF BidInv, vars, WholeAnswers, HeardBefore, HeardOffer

LEMMA NextBids == ASSUME Bids \subseteq 0..127, SessionInv, BidInv, [Next]_vars PROVE BidInv'
<1>1. CASE Silent BY <1>1, SilentBids
<1>2. CASE ReadSize BY <1>2, SizeReadBids, SizeZeroBids
<1>3. CASE LateBody BY <1>3, LateBodyBids
<1>4. CASE Authenticate \/ Alive \/ Bid \/ Ping \/ Play BY <1>4, TaskBids
<1>5. CASE ClientReads BY <1>5, ClientReadsBids
<1>6. CASE UNCHANGED vars BY <1>6, StutterBids
<1> QED BY <1>1, <1>2, <1>3, <1>4, <1>5, <1>6 DEF Next

\* The bytes that the server has not read are the ends of answers, whatever timed out, was cut
\* short or came late; so a bid that it reads is the one made in the answer it read last.
THEOREM BidInvAlways ==
  ASSUME Name \in Seq(0..255), Len(Name) <= 247, Bids \subseteq 0..127
  PROVE  Spec => [](SessionInv /\ BidInv)
<1>1. AnswersFit
  BY ClientsAnswersFit
<1>2. Init => SessionInv /\ BidInv
  BY InitSession, InitBids
<1>3. (SessionInv /\ BidInv) /\ [Next]_vars => (SessionInv /\ BidInv)'
  BY <1>1, NextSession, NextBids
<1> QED BY <1>2, <1>3, PTL DEF Spec

\* A bid that counts is one the client made, in the answer whose end was read last: however
\* reads time out, no bid is put together from two answers.
THEOREM BidsAreOffersAlways ==
  ASSUME Name \in Seq(0..255), Len(Name) <= 247, Bids \subseteq 0..127
  PROVE  Spec => []BidsAreOffers
<1>1. SessionInv /\ BidInv => BidsAreOffers
  BY DEF BidInv, HeardOffer, BidsAreOffers
<1> QED BY <1>1, BidInvAlways, PTL

\* Every variable has its type; a bid that was heard is an amount or none.
THEOREM SessionTyped ==
  ASSUME Name \in Seq(0..255), Len(Name) <= 247, Bids \subseteq 0..127
  PROVE  Spec => []TypeOK
<1>1. ASSUME SessionInv, BidInv PROVE TypeOK
  <2>1. Types /\ HeardOffer
    BY <1>1 DEF SessionInv, BidInv
  <2>2. heard.bid \in Seq(Nat)
    <3>1. CASE heard.bid = NoBid
      BY <3>1 DEF NoBid
    <3>2. CASE heard.bid # NoBid
      <4> DEFINE S == {NoBid} \cup {<<m>> : m \in Bids}
      <4>1. heard.got \in 1..asked /\ heard.bid = offers[heard.got]
        BY <2>1, <3>2 DEF HeardOffer
      <4>2. offers \in Seq(S) /\ Len(offers) = asked
        BY <2>1 DEF Types
      <4> HIDE DEF S
      <4>3. offers[heard.got] \in S
        BY <4>1, <4>2, ElementOfSeq
      <4>4. PICK m \in Bids : heard.bid = <<m>>
        BY <3>2, <4>1, <4>3 DEF S
      <4>5. m \in Nat
        BY SessionAssumption
      <4> QED BY <4>4, <4>5
    <3> QED BY <3>1, <3>2
  <2> DEFINE w == heard.want
             g == heard.got
             d == heard.bid
  <2>3. heard \in [want : 0..asked, got : 0..asked, bid : Seq(Nat)]
    <3>1. w \in 0..asked /\ g \in 0..asked /\ d \in Seq(Nat) /\ heard = [want |-> w, got |-> g, bid |-> d]
      BY <2>1, <2>2 DEF Types
    <3> HIDE DEF w, g, d
    <3> QED BY <3>1
  <2> QED BY <2>1, <2>3 DEF Types, TypeOK
<1>2. SessionInv /\ BidInv => TypeOK
  BY <1>1
<1> QED BY <1>2, BidInvAlways, PTL
=============================================================================
