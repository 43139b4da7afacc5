------------------------------ MODULE Framing -------------------------------
(***************************************************************************)
(* read_varint_from_stream: the length in front of a message, computed     *)
(* with the arithmetic of a u8.                                            *)
(***************************************************************************)
EXTENDS Integers, Sequences, SequencesExt, FiniteSetsExt

\* A byte and its bits, the lowest first.
Weight == <<1, 2, 4, 8, 16, 32, 64, 128>>
BitsOf(byte) == {k \in 1..8 : (byte \div Weight[k]) % 2 = 1}
ByteOf(bits) ==
  LET digit == [k \in 1..8 |-> IF k \in bits THEN Weight[k] ELSE 0]
  IN  digit[1] + digit[2] + digit[3] + digit[4] + digit[5] + digit[6] + digit[7] + digit[8]

\* The bytes read: up to the first without the continuation bit, if it is there.
HasPrefix(b) == \E i \in DOMAIN b : b[i] < 128
Prefix(b) == SubSeq(b, 1, Min({i \in DOMAIN b : b[i] < 128}))

\* (byte & 0x7F) << shift as u8.  A shift of 8 and more is masked in a build
\* without overflow checks; with them it panics.
Shifted(byte, i) == ((byte % 128) * Weight[1 + ((7 * (i - 1)) % 8)]) % 256

Panics(b) == Len(Prefix(b)) > 2

\* result |= ...: the bits of every byte, in their places.
NumBytes(b) == ByteOf(UNION {BitsOf(Shifted(b[i], i)) : i \in DOMAIN Prefix(b)})

=============================================================================
