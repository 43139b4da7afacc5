------------------------------ MODULE Messages ------------------------------
(***************************************************************************)
(* The messages of the protocol as src/protos/Comms.rs has them, how they  *)
(* become bytes and how bytes become messages again.                       *)
(*                                                                         *)
(* A message is a function from the names of its fields to sequences of    *)
(* values: <<>> is None, <<v>> is Some(v), only a repeated field has more. *)
(* A string is the sequence of its bytes.                                  *)
(***************************************************************************)
EXTENDS Integers, Sequences, SequencesExt, FiniteSetsExt

\* A field: its number, what its values are, and how many it may have.
Required(num, kind) == [num |-> num, kind |-> kind, label |-> "required"]
Optional(num, kind) == [num |-> num, kind |-> kind, label |-> "optional"]
Repeated(num, kind) == [num |-> num, kind |-> kind, label |-> "repeated"]

GameEnd == [result |-> Required(1, "enum"), elo |-> Optional(2, "u32")]

GameStart == [player1_name |-> Required(1, "string"), player2_name |-> Required(2, "string"),
              player1_start_money |-> Required(3, "u32"), player2_start_money |-> Required(4, "u32")]

GameState == [player1_bids |-> Repeated(1, "u32"), player2_bids |-> Repeated(2, "u32"),
              current_player |-> Required(3, "u32"), bottle_pos |-> Required(4, "u32"),
              money_left |-> Required(5, "u32")]

AuthResponse == [player_name |-> Required(1, "string")]

BidResponse == [money |-> Required(1, "u32")]

BidReject == [reason |-> Required(1, "string")]

AuthReject == [reason |-> Required(1, "string")]

BidResult == [player_a_bid |-> Required(1, "u32"), player_b_bid |-> Required(2, "u32"),
              winner_name |-> Required(3, "string"), result_type |-> Required(4, "enum")]

RoundStart == [round_num |-> Required(1, "u32"), player_a_money |-> Required(2, "u32"),
               player_b_money |-> Required(3, "u32"), bottle_pos |-> Required(4, "u32")]

Nested == [GameEnd |-> GameEnd, GameState |-> GameState, AuthResponse |-> AuthResponse,
           BidResponse |-> BidResponse, BidReject |-> BidReject, BidResult |-> BidResult,
           AuthReject |-> AuthReject, GameStart |-> GameStart, RoundStart |-> RoundStart]

ServerRequest ==
  [msgType |-> Required(1, "enum"),
   gameEnd |-> Optional(2, "GameEnd"), gameState |-> Optional(3, "GameState"),
   authResponse |-> Optional(4, "AuthResponse"), bidResponse |-> Optional(5, "BidResponse"),
   bidReject |-> Optional(6, "BidReject"), bidResult |-> Optional(7, "BidResult"),
   authReject |-> Optional(8, "AuthReject"), gameStart |-> Optional(9, "GameStart"),
   roundStart |-> Optional(10, "RoundStart"),
   version_major |-> Optional(11, "u32"), version_minor |-> Optional(12, "u32")]

\* The values of the enumerations.
MsgType == [AUTH_REQUEST |-> 0, AUTH_RESPONSE |-> 1, AUTH_REJECT |-> 2, BID_REQUEST |-> 3,
            BID_RESPONSE |-> 4, BID_REJECT |-> 5, BID_RESULT |-> 6, GAME_START |-> 7,
            GAME_END |-> 8, DISCONNECT |-> 9, ACK |-> 10, GAME_ABORT |-> 11, ALIVE |-> 12,
            ROUND_START |-> 13, VERSION |-> 14]

EndResult == [WIN |-> 0, LOSS |-> 1, DRAW |-> 2]

RoundResultType == [WIN |-> 0, DRAW |-> 1]

\* A message without any field, and with the fields f.
New(schema) == [n \in DOMAIN schema |-> <<>>]
With(schema, f) == [n \in DOMAIN schema |-> IF n \in DOMAIN f THEN <<f[n]>> ELSE <<>>]

Missing(schema, m) == \E n \in DOMAIN schema : schema[n].label = "required" /\ m[n] = <<>>

IsInitialized(req) ==
  /\ ~Missing(ServerRequest, req)
  /\ \A n \in DOMAIN ServerRequest :
       ServerRequest[n].kind \in DOMAIN Nested =>
         \A i \in DOMAIN req[n] : ~Missing(Nested[ServerRequest[n].kind], req[n][i])

\* msgType(): the type of the message, AUTH_REQUEST when it is none of MsgType's.
TypeOf(req) ==
  LET known == {t \in DOMAIN MsgType : <<MsgType[t]>> = req.msgType}
  IN  IF known = {} THEN "AUTH_REQUEST" ELSE CHOOSE t \in known : TRUE

-----------------------------------------------------------------------------
(* Writing. *)

Varint[n \in Nat] == IF n < 128 THEN <<n>> ELSE <<128 + (n % 128)>> \o Varint[n \div 128]

Delimited(bytes) == Varint[Len(bytes)] \o bytes

Tag(field) == field.num * 8 + (IF field.kind \in {"u32", "enum"} THEN 0 ELSE 2)

\* The fields in the order they are written in, that of their numbers: 1, 2, 3 ...
InOrder(schema) ==
  [k \in {schema[n].num : n \in DOMAIN schema} |-> CHOOSE n \in DOMAIN schema : schema[n].num = k]

\* Every value a message has, with its field, in that order.
Items(schema, m) ==
  FlattenSeq([i \in DOMAIN InOrder(schema) |->
                LET n == InOrder(schema)[i] IN
                  [j \in DOMAIN m[n] |-> [field |-> schema[n], value |-> m[n][j]]]])

\* The size a field says it has; every tag is one byte.
ScalarSize(item) ==
  LET v == item.value IN
    IF item.field.kind = "string" THEN 1 + Len(Varint[Len(v)]) + Len(v) ELSE 1 + Len(Varint[v])

FieldSize(item) ==
  IF item.field.kind \in DOMAIN Nested
    THEN LET items == Items(Nested[item.field.kind], item.value)
             len == SumFunction([i \in DOMAIN items |-> ScalarSize(items[i])])
         IN  1 + Len(Varint[len]) + len
    ELSE ScalarSize(item)

ComputeSize(req) ==
  LET items == Items(ServerRequest, req)
  IN  SumFunction([i \in DOMAIN items |-> FieldSize(items[i])])

WriteScalar(item) ==
  Varint[Tag(item.field)]
    \o (IF item.field.kind = "string" THEN Delimited(item.value) ELSE Varint[item.value])

WriteField(item) ==
  IF item.field.kind \in DOMAIN Nested
    THEN LET items == Items(Nested[item.field.kind], item.value)
         IN  Varint[Tag(item.field)]
               \o Delimited(FlattenSeq([i \in DOMAIN items |-> WriteScalar(items[i])]))
    ELSE WriteScalar(item)

Encode(req) ==
  LET items == Items(ServerRequest, req)
  IN  FlattenSeq([i \in DOMAIN items |-> WriteField(items[i])])

\* write_length_delimited_to_bytes: what is sent for a message that is initialized.
Frame(req) == Varint[ComputeSize(req)] \o Encode(req)

-----------------------------------------------------------------------------
(* Reading.  A result is <<>> for an error and <<r>> for r. *)

\* The varint from position i to the first of ends: its value and the position after it.
VarintTo(b, i, ends) ==
  IF ends = {} THEN <<>>
  ELSE <<[value |-> FoldRight(LAMBDA d, v : (v * 128) + (d % 128), SubSeq(b, i, Min(ends)), 0),
          next  |-> Min(ends) + 1]>>

VarintAt(b, i) == VarintTo(b, i, {j \in i..Len(b) : b[j] < 128})

\* len bytes from position i on, and as many as a varint in front of them says.
Slice(b, i, len) ==
  IF i + len > Len(b) + 1 THEN <<>>
  ELSE <<[value |-> SubSeq(b, i, i + len - 1), next |-> i + len]>>

Measured(b, v) == IF v = <<>> THEN <<>> ELSE Slice(b, v[1].next, v[1].value)

\* What a tag of that wire type is followed by; groups and types the format does
\* not have are errors (no instance has a group).
Payload(wire, b, i) ==
  CASE wire = 0 -> VarintAt(b, i)
    [] wire = 1 -> Slice(b, i, 8)
    [] wire = 2 -> Measured(b, VarintAt(b, i))
    [] wire = 5 -> Slice(b, i, 4)
    [] OTHER    -> <<>>

Tagged(tag, item) ==
  IF item = <<>> THEN <<>>
  ELSE <<[tag |-> tag, value |-> item[1].value, next |-> item[1].next]>>

\* The value after a tag, if there are both; field number 0 is an error.
Record(b, tag) ==
  IF tag = <<>> THEN <<>>
  ELSE IF tag[1].value < 8 THEN <<>>
  ELSE Tagged(tag[1].value, Payload(tag[1].value % 8, b, tag[1].next))

Before(x, rest) == IF rest = <<>> THEN <<>> ELSE <<<<x>> \o rest[1]>>

\* The tagged values of b, in order.
Records(b) ==
  LET from[i \in 1..Len(b) + 1] ==
        IF i > Len(b) THEN <<<<>>>>
        ELSE LET r == Record(b, VarintAt(b, i)) IN
               IF r = <<>> THEN <<>> ELSE Before(r[1], from[r[1].next])
  IN from[1]

\* The numbers of a packed repeated field.
Unpack(b) ==
  LET from[i \in 1..Len(b) + 1] ==
        IF i > Len(b) THEN <<<<>>>>
        ELSE LET v == VarintAt(b, i) IN
               IF v = <<>> THEN <<>> ELSE Before(v[1].value, from[v[1].next])
  IN from[1]

\* Takes one record into m: the values of a repeated field pile up, other values
\* replace what is there.  A tag that no field has is skipped.
MergeScalar(schema, m, r) ==
  LET field == {n \in DOMAIN schema : Tag(schema[n]) = r.tag}
      packed == {n \in DOMAIN schema : schema[n].label = "repeated" /\ schema[n].num * 8 + 2 = r.tag}
  IN  IF m = <<>> \/ (packed # {} /\ Unpack(r.value) = <<>>) THEN <<>>
      ELSE <<[n \in DOMAIN schema |->
                IF n \in packed THEN m[1][n] \o Unpack(r.value)[1]
                ELSE IF n \notin field THEN m[1][n]
                ELSE IF schema[n].label = "repeated" THEN Append(m[1][n], r.value)
                ELSE <<r.value>>]>>

MergeScalars(schema, old, records) ==
  IF records = <<>> THEN <<>>
  ELSE FoldLeft(LAMBDA m, r : MergeScalar(schema, m, r), <<old>>, records[1])

Replace(req, n, merged) == IF merged = <<>> THEN <<>> ELSE <<[req EXCEPT ![n] = merged]>>

\* A nested message is merged into the one there is.
MergeNested(req, n, b) ==
  LET schema == Nested[ServerRequest[n].kind] IN
    Replace(req, n, MergeScalars(schema, IF req[n] = <<>> THEN New(schema) ELSE req[n][1], Records(b)))

\* MergeScalar for a ServerRequest.
MergeFrom(req, r) ==
  LET nested == {n \in DOMAIN ServerRequest :
                   ServerRequest[n].kind \in DOMAIN Nested /\ Tag(ServerRequest[n]) = r.tag}
  IN  IF req = <<>> \/ nested = {} THEN MergeScalar(ServerRequest, req, r)
      ELSE MergeNested(req[1], CHOOSE n \in nested : TRUE, r.value)

\* A message that lacks a required field is an error, and so is one that does not parse.
Complete(req) == IF req = <<>> THEN <<>> ELSE IF IsInitialized(req[1]) THEN req ELSE <<>>

MergeAll(records) ==
  IF records = <<>> THEN <<>> ELSE FoldLeft(MergeFrom, <<New(ServerRequest)>>, records[1])

\* ServerRequest::parse_from_bytes.
Parse(b) == Complete(MergeAll(Records(b)))

-----------------------------------------------------------------------------
(* What the server builds, and what it looks at. *)

Bare(type) == With(ServerRequest, [msgType |-> MsgType[type]])

VersionMsg(major, minor) ==
  With(ServerRequest, [msgType |-> MsgType.VERSION, version_major |-> major, version_minor |-> minor])

make_start_proto(player_a_name, player_a_money, player_b_name, player_b_money) ==
  With(ServerRequest,
       [msgType |-> MsgType.GAME_START,
        gameStart |-> With(GameStart, [player1_name |-> player_a_name, player2_name |-> player_b_name,
                                       player1_start_money |-> player_a_money,
                                       player2_start_money |-> player_b_money])])

make_round_start_proto(round_num, player_a_money, player_b_money, bottle_pos) ==
  With(ServerRequest,
       [msgType |-> MsgType.ROUND_START,
        roundStart |-> With(RoundStart, [round_num |-> round_num, player_a_money |-> player_a_money,
                                         player_b_money |-> player_b_money, bottle_pos |-> bottle_pos])])

\* Variant with a bug: a drawn round has no winner to set.
BidResultNoWinner(bid_a, bid_b, winner_name) ==
  With(ServerRequest,
       [msgType |-> MsgType.BID_RESULT,
        bidResult |->
          [With(BidResult, [player_a_bid |-> bid_a, player_b_bid |-> bid_b, result_type |->
                              IF bid_a # bid_b THEN RoundResultType.WIN ELSE RoundResultType.DRAW])
             EXCEPT !.winner_name = IF winner_name = <<>> THEN <<>> ELSE <<winner_name>>]])

\* The name of the winner is empty after a draw, but it is set.
BidResultMsg(bid_a, bid_b, winner_name) ==
  With(ServerRequest,
       [msgType |-> MsgType.BID_RESULT,
        bidResult |->
          With(BidResult, [player_a_bid |-> bid_a, player_b_bid |-> bid_b, winner_name |-> winner_name,
                           result_type |-> IF bid_a # bid_b THEN RoundResultType.WIN
                                           ELSE RoundResultType.DRAW])])

craft_game_end_proto(result, elo) ==
  With(ServerRequest,
       [msgType |-> MsgType.GAME_END,
        gameEnd |-> With(GameEnd, [result |-> EndResult[result], elo |-> elo])])

\* Variant with a bug: the accessor, which takes a missing amount for 0.
BidAmountOrZero(req) ==
  IF req.bidResponse = <<>> THEN <<0>> ELSE req.bidResponse[1].money

\* response_proto.bidResponse.money: None without a bidResponse.
BidAmount(req) ==
  IF req.bidResponse = <<>> THEN <<>> ELSE req.bidResponse[1].money

=============================================================================
