--------------------------- MODULE Messages_proofs ---------------------------
(***************************************************************************)
(* Proofs about Messages and Framing: how a length is written and read,    *)
(* what the frames of a client's answers look like, and what a message     *)
(* that begins anywhere in them and ends with one of them parses as.       *)
(***************************************************************************)
EXTENDS Messages, Framing, SequenceTheorems, FiniteSetTheorems, TLAPS

-----------------------------------------------------------------------------
(* The length in front of a message. *)

\* A set of numbers has a smallest one, and Min is it.
LEMMA SmallestOf ==
  ASSUME NEW S, S \subseteq Nat, S # {}
  PROVE  Min(S) \in S /\ \A x \in S : Min(S) <= x
<1>1. \E x \in S : \A y \in S : ~ (<<y, x>> \in OpToRel(<, Nat))
  BY NatLessThanWellFounded, WFMin
<1>2. PICK x \in S : \A y \in S : ~ (y < x)
  BY <1>1 DEF OpToRel
<1>3. \A y \in S : x <= y
  BY <1>2
<1> QED BY <1>3 DEF Min

\* The bytes read are those up to the first that ends a length.
LEMMA PrefixFacts ==
  ASSUME NEW n \in Nat, NEW b, DOMAIN b = 1..n, HasPrefix(b)
  PROVE  \E k \in 1..n : /\ b[k] < 128
                         /\ \A i \in 1..k - 1 : ~ (b[i] < 128)
                         /\ Len(Prefix(b)) = k /\ DOMAIN Prefix(b) = 1..k
<1> DEFINE ends == {i \in DOMAIN b : b[i] < 128}
           k == Min(ends)
<1>1. ends \subseteq Nat /\ ends # {}
  BY DEF HasPrefix
<1>2. k \in ends /\ \A i \in ends : k <= i
  <2> HIDE DEF ends
  <2> QED BY <1>1, SmallestOf
<1>3. k \in 1..n /\ b[k] < 128 /\ \A i \in 1..k - 1 : ~ (b[i] < 128)
  <2>1. k \in 1..n /\ b[k] < 128
    BY <1>2
  <2>2. \A i \in 1..n : b[i] < 128 => k <= i
    BY <1>2
  <2> HIDE DEF k
  <2> QED BY <2>1, <2>2
<1>4. Prefix(b) = SubSeq(b, 1, k)
  BY DEF Prefix
<1> HIDE DEF k
<1>5. /\ SubSeq(b, 1, k) \in Seq({b[i] : i \in 1..n})
      /\ Len(SubSeq(b, 1, k)) = IF 1 <= k THEN k - 1 + 1 ELSE 0
  <2>1. \A i \in 1..k : b[i] \in {b[j] : j \in 1..n}
    BY <1>3
  <2>2. 1 \in Int /\ k \in Int
    BY <1>3
  <2> QED BY <2>1, <2>2, SubSeqProperties
<1>6. Len(Prefix(b)) = k
  BY <1>3, <1>4, <1>5
<1>7. DOMAIN Prefix(b) = 1..k
  <2>1. DOMAIN SubSeq(b, 1, k) = 1..Len(SubSeq(b, 1, k))
    BY <1>5, LenProperties
  <2> QED BY <1>4, <1>6, <2>1
<1> QED BY <1>3, <1>6, <1>7

\* The eight bits of a byte, added up.
LEMMA ByteOfRange == ASSUME NEW bits PROVE ByteOf(bits) \in 0..255
<1> DEFINE digit == [k \in 1..8 |-> IF k \in bits THEN Weight[k] ELSE 0]
<1>1. /\ digit[1] \in {0, 1} /\ digit[2] \in {0, 2} /\ digit[3] \in {0, 4} /\ digit[4] \in {0, 8}
      /\ digit[5] \in {0, 16} /\ digit[6] \in {0, 32} /\ digit[7] \in {0, 64} /\ digit[8] \in {0, 128}
  BY DEF Weight
<1>2. ByteOf(bits) = digit[1] + digit[2] + digit[3] + digit[4] + digit[5] + digit[6] + digit[7] + digit[8]
  BY DEF ByteOf
<1> HIDE DEF digit
<1> QED BY <1>1, <1>2

LEMMA ByteOfBits == ASSUME NEW n \in 0..255 PROVE ByteOf(BitsOf(n)) = n
<1> DEFINE b1 == n \div 2
           b2 == b1 \div 2
           b3 == b2 \div 2
           b4 == b3 \div 2
           b5 == b4 \div 2
           b6 == b5 \div 2
           b7 == b6 \div 2
           digit == [k \in 1..8 |-> IF k \in BitsOf(n) THEN Weight[k] ELSE 0]
<1>1. /\ n \div 1 = n /\ n \div 2 = b1 /\ n \div 4 = b2 /\ n \div 8 = b3 /\ n \div 16 = b4
      /\ n \div 32 = b5 /\ n \div 64 = b6 /\ n \div 128 = b7
  OBVIOUS
<1>2. /\ 1 \in BitsOf(n) <=> n % 2 = 1
      /\ 2 \in BitsOf(n) <=> b1 % 2 = 1
      /\ 3 \in BitsOf(n) <=> b2 % 2 = 1
      /\ 4 \in BitsOf(n) <=> b3 % 2 = 1
      /\ 5 \in BitsOf(n) <=> b4 % 2 = 1
      /\ 6 \in BitsOf(n) <=> b5 % 2 = 1
      /\ 7 \in BitsOf(n) <=> b6 % 2 = 1
      /\ 8 \in BitsOf(n) <=> b7 % 2 = 1
  BY <1>1 DEF BitsOf, Weight
<1>3. /\ digit[1] = n % 2
      /\ digit[2] = 2 * (b1 % 2)
      /\ digit[3] = 4 * (b2 % 2)
      /\ digit[4] = 8 * (b3 % 2)
      /\ digit[5] = 16 * (b4 % 2)
      /\ digit[6] = 32 * (b5 % 2)
      /\ digit[7] = 64 * (b6 % 2)
      /\ digit[8] = 128 * (b7 % 2)
  BY <1>2 DEF Weight
<1>4. ByteOf(BitsOf(n)) = digit[1] + digit[2] + digit[3] + digit[4] + digit[5] + digit[6] + digit[7] + digit[8]
  BY DEF ByteOf
<1>5. b7 \in {0, 1}
  OBVIOUS
<1> HIDE DEF digit
<1> QED BY <1>3, <1>4, <1>5

LEMMA NumBytesRange == ASSUME NEW b PROVE NumBytes(b) \in 0..255
BY ByteOfRange DEF NumBytes

\* One byte without the continuation bit is the length itself.
LEMMA LengthOfOne ==
  ASSUME NEW n \in Nat \ {0}, NEW b, DOMAIN b = 1..n, NEW v \in 0..127, b[1] = v
  PROVE  HasPrefix(b) /\ Len(Prefix(b)) = 1 /\ NumBytes(b) = v
<1>1. HasPrefix(b)
  BY DEF HasPrefix
<1>2. Len(Prefix(b)) = 1 /\ DOMAIN Prefix(b) = {1}
  <2>1. PICK k \in 1..n : /\ b[k] < 128
                          /\ \A i \in 1..k - 1 : ~ (b[i] < 128)
                          /\ Len(Prefix(b)) = k /\ DOMAIN Prefix(b) = 1..k
    BY <1>1, PrefixFacts
  <2>2. k = 1
    BY <2>1
  <2> QED BY <2>1, <2>2
<1>3. Shifted(v, 1) = v
  <2>1. (7 * (1 - 1)) % 8 = 0 /\ v % 128 = v /\ (v * 1) % 256 = v /\ Weight[1] = 1
    BY DEF Weight
  <2> QED BY <2>1 DEF Shifted
<1>4. UNION {BitsOf(Shifted(b[i], i)) : i \in DOMAIN Prefix(b)} = BitsOf(v)
  BY <1>2, <1>3
<1>5. NumBytes(b) = v
  <2>1. NumBytes(b) = ByteOf(BitsOf(v))
    BY <1>4 DEF NumBytes
  <2>2. v \in 0..255
    OBVIOUS
  <2> QED BY <2>1, <2>2, ByteOfBits
<1> QED BY <1>1, <1>2, <1>5

-----------------------------------------------------------------------------
(* Lengths as they are written: the recursive function Varint. *)

\* g is Varint up to n.
VarintUpTo(g, n) ==
  /\ DOMAIN g = 0..n
  /\ \A k \in 0..n : g[k] = IF k < 128 THEN <<k>> ELSE <<128 + (k % 128)>> \o g[k \div 128]

LEMMA Quotient == ASSUME NEW k \in Nat, ~ (k < 128) PROVE k \div 128 \in 0..k - 1 /\ k \div 128 \in Nat
OBVIOUS

LEMMA VarintUpToUnique ==
  ASSUME NEW n \in Nat, NEW m \in Nat, NEW g, NEW h, VarintUpTo(g, n), VarintUpTo(h, m),
         NEW k \in Nat, k <= n, k <= m
  PROVE  g[k] = h[k]
<1> DEFINE bad == {i \in Nat : i <= n /\ i <= m /\ g[i] # h[i]}
<1>1. CASE bad = {}
  BY <1>1
<1>2. CASE bad # {}
  <2>1. Min(bad) \in bad /\ \A x \in bad : Min(bad) <= x
    <3>1. bad \subseteq Nat
      OBVIOUS
    <3> HIDE DEF bad
    <3> QED BY <1>2, <3>1, SmallestOf
  <2>2. PICK i \in bad : \A x \in bad : i <= x
    BY <2>1
  <2>3. i \in Nat /\ i \in 0..n /\ i \in 0..m /\ g[i] # h[i]
    BY <2>2
  <2>4. ~ (i < 128)
    <3>1. g[i] = (IF i < 128 THEN <<i>> ELSE <<128 + (i % 128)>> \o g[i \div 128])
      BY <2>3 DEF VarintUpTo
    <3>2. h[i] = (IF i < 128 THEN <<i>> ELSE <<128 + (i % 128)>> \o h[i \div 128])
      BY <2>3 DEF VarintUpTo
    <3> QED BY <2>3, <3>1, <3>2
  <2> DEFINE q == i \div 128
  <2>5. q \in 0..i - 1 /\ q \in Nat
    BY <2>3, <2>4, Quotient
  <2>6. g[i] = <<128 + (i % 128)>> \o g[q] /\ h[i] = <<128 + (i % 128)>> \o h[q]
    BY <2>3, <2>4 DEF VarintUpTo
  <2> HIDE DEF q
  <2>7. q \notin bad
    BY <2>2, <2>3, <2>5
  <2>8. g[q] = h[q]
    BY <2>3, <2>5, <2>7
  <2> QED BY <2>3, <2>6, <2>8
<1> QED BY <1>1, <1>2

LEMMA VarintUpToExists == ASSUME NEW n \in Nat PROVE \E g : VarintUpTo(g, n)
<1> DEFINE bad == {i \in Nat : ~ \E g : VarintUpTo(g, i)}
<1>1. CASE bad = {}
  BY <1>1
<1>2. CASE bad # {}
  <2>1. Min(bad) \in bad /\ \A x \in bad : Min(bad) <= x
    <3>1. bad \subseteq Nat
      OBVIOUS
    <3> HIDE DEF bad
    <3> QED BY <1>2, <3>1, SmallestOf
  <2>2. PICK i \in bad : \A x \in bad : i <= x
    BY <2>1
  <2>3. i \in Nat /\ ~ \E g : VarintUpTo(g, i)
    BY <2>2
  <2>4. CASE i = 0
    <3> DEFINE g == [k \in 0..0 |-> <<k>>]
    <3>1. VarintUpTo(g, 0)
      BY DEF VarintUpTo
    <3> QED BY <2>3, <2>4, <3>1
  <2>5. CASE i # 0
    <3>1. i - 1 \in Nat /\ i - 1 \notin bad
      BY <2>2, <2>3, <2>5
    <3>2. PICK g : VarintUpTo(g, i - 1)
      BY <3>1
    <3> DEFINE h == [k \in 0..i |-> IF k < i THEN g[k]
                                    ELSE IF k < 128 THEN <<k>> ELSE <<128 + (k % 128)>> \o g[k \div 128]]
    <3>3. ASSUME NEW k \in 0..i
          PROVE  h[k] = IF k < 128 THEN <<k>> ELSE <<128 + (k % 128)>> \o h[k \div 128]
      <4>0. k \in Nat
        OBVIOUS
      <4>1. CASE k < 128
        <5>1. k < i => k \in 0..i - 1
          BY <2>3
        <5>2. k < i => g[k] = <<k>>
          BY <3>2, <4>1, <5>1 DEF VarintUpTo
        <5> QED BY <4>1, <5>2
      <4>2. CASE ~ (k < 128)
        <5> DEFINE q == k \div 128
        <5>1. q \in 0..k - 1
          BY <4>0, <4>2, Quotient
        <5>2. k < i => k \in 0..i - 1
          BY <2>3
        <5>3. k < i => g[k] = <<128 + (k % 128)>> \o g[q]
          BY <3>2, <4>2, <5>2 DEF VarintUpTo
        <5>4. h[k] = <<128 + (k % 128)>> \o g[q]
          BY <4>2, <5>3
        <5>5. q \in 0..i /\ q < i
          <6> HIDE DEF q
          <6> QED BY <2>3, <4>0, <5>1
        <5> HIDE DEF q
        <5>6. h[q] = g[q]
          BY <5>5
        <5> QED BY <4>2, <5>4, <5>6 DEF q
      <4> QED BY <4>1, <4>2
    <3> HIDE DEF h
    <3>4. DOMAIN h = 0..i
      BY DEF h
    <3>5. VarintUpTo(h, i)
      BY <3>3, <3>4 DEF VarintUpTo
    <3> QED BY <2>3, <3>5
  <2> QED BY <2>4, <2>5
<1> QED BY <1>1, <1>2

\* So there is a function as the definition of Varint says.
LEMMA VarintRule ==
  /\ DOMAIN Varint = Nat
  /\ \A n \in Nat : Varint[n] = IF n < 128 THEN <<n>> ELSE <<128 + (n % 128)>> \o Varint[n \div 128]
<1> DEFINE upto(n) == CHOOSE g : VarintUpTo(g, n)
           f == [n \in Nat |-> upto(n)[n]]
<1>1. \A n \in Nat : VarintUpTo(upto(n), n)
  BY VarintUpToExists
<1> HIDE DEF upto
<1>2. ASSUME NEW n \in Nat
      PROVE  f[n] = IF n < 128 THEN <<n>> ELSE <<128 + (n % 128)>> \o f[n \div 128]
  <2>1. VarintUpTo(upto(n), n) /\ n \in 0..n /\ f[n] = upto(n)[n]
    BY <1>1
  <2>2. CASE n < 128
    BY <2>1, <2>2 DEF VarintUpTo
  <2>3. CASE ~ (n < 128)
    <3> DEFINE q == n \div 128
    <3>1. q \in 0..n - 1 /\ q \in Nat
      BY <2>3, Quotient
    <3>2. upto(n)[n] = <<128 + (n % 128)>> \o upto(n)[q]
      BY <2>1, <2>3 DEF VarintUpTo
    <3> HIDE DEF q
    <3>3. VarintUpTo(upto(q), q) /\ f[q] = upto(q)[q] /\ q <= n /\ q <= q
      BY <1>1, <3>1
    <3>4. upto(n)[q] = upto(q)[q]
      BY <2>1, <3>1, <3>3, VarintUpToUnique
    <3>5. f[n] = <<128 + (n % 128)>> \o f[q]
      BY <2>1, <3>2, <3>3, <3>4
    <3> QED BY <2>3, <3>5 DEF q
  <2> QED BY <2>2, <2>3
<1> HIDE DEF f
<1>3. DOMAIN f = Nat /\ f = [n \in Nat |-> f[n]]
  BY DEF f
<1>4. f = [n \in Nat |-> IF n < 128 THEN <<n>> ELSE <<128 + (n % 128)>> \o f[n \div 128]]
  BY <1>2, <1>3
<1>5. Varint = [n \in Nat |-> IF n < 128 THEN <<n>> ELSE <<128 + (n % 128)>> \o Varint[n \div 128]]
  BY <1>4 DEF Varint
<1> QED BY <1>5

LEMMA VarintOfOne == ASSUME NEW n \in Nat, n < 128 PROVE Varint[n] = <<n>>
<1>1. Varint[n] = IF n < 128 THEN <<n>> ELSE <<128 + (n % 128)>> \o Varint[n \div 128]
  BY VarintRule, Zenon
<1> QED BY <1>1, Zenon

LEMMA VarintOfMore ==
  ASSUME NEW n \in Nat, ~ (n < 128) PROVE Varint[n] = <<128 + (n % 128)>> \o Varint[n \div 128]
<1>1. Varint[n] = IF n < 128 THEN <<n>> ELSE <<128 + (n % 128)>> \o Varint[n \div 128]
  BY VarintRule, Zenon
<1> QED BY <1>1, Zenon

\* A length is written in bytes, the last of them without the continuation bit.
LEMMA VarintEnds ==
  ASSUME NEW n \in Nat
  PROVE  Varint[n] \in Seq(0..255) /\ HasPrefix(Varint[n])
<1> DEFINE bad == {i \in Nat : ~ (Varint[i] \in Seq(0..255) /\ HasPrefix(Varint[i]))}
<1>1. CASE bad = {}
  BY <1>1
<1>2. CASE bad # {}
  <2>1. Min(bad) \in bad /\ \A x \in bad : Min(bad) <= x
    <3>1. bad \subseteq Nat
      OBVIOUS
    <3> HIDE DEF bad
    <3> QED BY <1>2, <3>1, SmallestOf
  <2>2. PICK i \in bad : \A x \in bad : i <= x
    BY <2>1
  <2>3. i \in Nat /\ ~ (Varint[i] \in Seq(0..255) /\ HasPrefix(Varint[i]))
    BY <2>2
  <2>4. CASE i < 128
    <3>1. Varint[i] = <<i>> /\ i \in 0..255
      <4>1. Varint[i] = <<i>>
        BY <2>3, <2>4, VarintOfOne, Zenon
      <4>2. i \in 0..255
        BY <2>3, <2>4
      <4> QED BY <4>1, <4>2
    <3>2. <<i>> \in Seq(0..255) /\ DOMAIN <<i>> = {1} /\ <<i>>[1] = i
      BY <3>1
    <3>3. HasPrefix(<<i>>)
      BY <2>4, <3>2 DEF HasPrefix
    <3> QED BY <2>3, <3>1, <3>2, <3>3
  <2>5. CASE ~ (i < 128)
    <3> DEFINE q == i \div 128
               d == <<128 + (i % 128)>>
    <3>1. q \in 0..i - 1 /\ q \in Nat
      BY <2>3, <2>5, Quotient
    <3>2. Varint[i] = d \o Varint[q]
      BY <2>3, <2>5, VarintOfMore
    <3>3. d \in Seq(0..255) /\ Len(d) = 1
      <4>1. 128 + (i % 128) \in 0..255
        BY <2>3
      <4> QED BY <4>1
    <3> HIDE DEF q, d
    <3>4. q \notin bad
      BY <2>2, <2>3, <3>1
    <3>5. Varint[q] \in Seq(0..255) /\ HasPrefix(Varint[q])
      BY <3>1, <3>4
    <3> DEFINE v == Varint[q]
    <3>6. v \in Seq(0..255) /\ HasPrefix(v)
      BY <3>5
    <3> HIDE DEF v
    <3>7. PICK k \in DOMAIN v : v[k] < 128
      BY <3>6 DEF HasPrefix
    <3>8. /\ d \o v \in Seq(0..255) /\ Len(d \o v) = 1 + Len(v)
          /\ \A j \in 1..1 + Len(v) : (d \o v)[j] = IF j <= 1 THEN d[j] ELSE v[j - 1]
      <4>1. /\ d \o v \in Seq(0..255) /\ Len(d \o v) = Len(d) + Len(v)
            /\ \A j \in 1..Len(d) + Len(v) : (d \o v)[j] = IF j <= Len(d) THEN d[j] ELSE v[j - Len(d)]
        BY <3>3, <3>6, ConcatProperties
      <4> QED BY <3>3, <4>1
    <3>9. k \in 1..Len(v) /\ Len(v) \in Nat
      BY <3>6, LenProperties
    <3>10. k + 1 \in DOMAIN (d \o v) /\ (d \o v)[k + 1] = v[k]
      <4>1. k + 1 \in 1..1 + Len(v) /\ ~ (k + 1 <= 1) /\ (k + 1) - 1 = k
        BY <3>9
      <4>2. DOMAIN (d \o v) = 1..Len(d \o v)
        BY <3>8, LenProperties
      <4> QED BY <3>8, <4>1, <4>2
    <3>11. HasPrefix(d \o v)
      BY <3>7, <3>10 DEF HasPrefix
    <3> QED BY <2>3, <3>2, <3>8, <3>11 DEF v
  <2> QED BY <2>4, <2>5
<1> QED BY <1>1, <1>2

LEMMA TwoJoined == ASSUME NEW x \in Nat, NEW y \in Nat PROVE <<x>> \o <<y>> = <<x, y>>
<1> DEFINE c == <<x>> \o <<y>>
           d == <<x, y>>
<1>1. /\ <<x>> \in Seq(Nat) /\ <<y>> \in Seq(Nat) /\ Len(<<x>>) = 1 /\ Len(<<y>>) = 1
      /\ <<x>>[1] = x /\ <<y>>[1] = y
  OBVIOUS
<1>2. /\ c \in Seq(Nat) /\ Len(c) = 2 /\ c[1] = x /\ c[2] = y
  BY <1>1, ConcatProperties
<1>3. d \in Seq(Nat) /\ Len(d) = 2 /\ d[1] = x /\ d[2] = y
  OBVIOUS
<1> HIDE DEF c, d
<1>4. \A i \in 1..Len(c) : c[i] = d[i]
  BY <1>2, <1>3
<1>5. c = d
  BY <1>2, <1>3, <1>4, SeqEqual
<1> QED BY <1>5 DEF c, d

\* Below 128 the length is one byte ...
LEMMA ShortLength ==
  ASSUME NEW n \in 0..127
  PROVE  ~ Panics(Varint[n]) /\ NumBytes(Varint[n]) = n
<1> DEFINE b == <<n>>
<1>1. Varint[n] = b
  <2>1. n \in Nat /\ n < 128
    OBVIOUS
  <2> QED BY <2>1, VarintOfOne
<1>2. DOMAIN b = 1..1 /\ b[1] = n
  OBVIOUS
<1> HIDE DEF b
<1>3. Len(Prefix(b)) = 1 /\ NumBytes(b) = n
  <2>1. 1 \in Nat \ {0}
    OBVIOUS
  <2> QED BY <1>2, <2>1, LengthOfOne
<1> QED BY <1>1, <1>3 DEF Panics

\* ... below 16384 it is two, and of the second only the lowest bit is kept ...
LEMMA BitsTogether ==
  ASSUME NEW r \in 0..127, NEW h \in {0, 128}
  PROVE  BitsOf(r) \cup BitsOf(h) = BitsOf(r + h)
<1>1. ASSUME NEW k \in 1..7
      PROVE  /\ ~ ((h \div Weight[k]) % 2 = 1)
             /\ ((r + h) \div Weight[k]) % 2 = (r \div Weight[k]) % 2
  <2>1. k \in {1, 2, 3, 4, 5, 6, 7}
    OBVIOUS
  <2>2. Weight[1] = 1 /\ Weight[2] = 2 /\ Weight[3] = 4 /\ Weight[4] = 8 /\ Weight[5] = 16
        /\ Weight[6] = 32 /\ Weight[7] = 64
    BY DEF Weight
  <2>3. CASE h = 0
    BY <2>1, <2>2, <2>3
  <2>4. CASE h = 128
    <3>1. (128 \div 1) % 2 = 0 /\ ((r + 128) \div 1) % 2 = (r \div 1) % 2
      OBVIOUS
    <3>2. (128 \div 2) % 2 = 0 /\ ((r + 128) \div 2) % 2 = (r \div 2) % 2
      OBVIOUS
    <3>3. (128 \div 4) % 2 = 0 /\ ((r + 128) \div 4) % 2 = (r \div 4) % 2
      OBVIOUS
    <3>4. (128 \div 8) % 2 = 0 /\ ((r + 128) \div 8) % 2 = (r \div 8) % 2
      OBVIOUS
    <3>5. (128 \div 16) % 2 = 0 /\ ((r + 128) \div 16) % 2 = (r \div 16) % 2
      OBVIOUS
    <3>6. (128 \div 32) % 2 = 0 /\ ((r + 128) \div 32) % 2 = (r \div 32) % 2
      OBVIOUS
    <3>7. (128 \div 64) % 2 = 0 /\ ((r + 128) \div 64) % 2 = (r \div 64) % 2
      OBVIOUS
    <3> QED BY <2>1, <2>2, <2>4, <3>1, <3>2, <3>3, <3>4, <3>5, <3>6, <3>7, SMTT(30)
  <2> QED BY <2>3, <2>4
<1>2. /\ ~ ((r \div Weight[8]) % 2 = 1)
      /\ (((r + h) \div Weight[8]) % 2 = 1 <=> (h \div Weight[8]) % 2 = 1)
  BY DEF Weight
<1>3. \A k \in 1..8 : k \in 1..7 \/ k = 8
  OBVIOUS
<1> QED BY <1>1, <1>2, <1>3 DEF BitsOf

LEMMA LengthOfTwo ==
  ASSUME NEW len \in Nat, 2 \in 1..len, NEW b, DOMAIN b = 1..len,
         NEW v \in Nat, v >= 128, v < 256, b[1] = v, NEW q \in Nat, q > 0, q < 128, b[2] = q
  PROVE  HasPrefix(b) /\ Len(Prefix(b)) = 2 /\ NumBytes(b) = (v - 128) + 128 * (q % 2)
<1>1. HasPrefix(b) /\ Len(Prefix(b)) = 2 /\ DOMAIN Prefix(b) = {1, 2}
  <2>1. HasPrefix(b)
    <3>1. 2 \in DOMAIN b /\ q < 128
      OBVIOUS
    <3> QED BY <3>1 DEF HasPrefix
  <2>2. PICK k \in 1..len : /\ b[k] < 128
                            /\ \A i \in 1..k - 1 : ~ (b[i] < 128)
                            /\ Len(Prefix(b)) = k /\ DOMAIN Prefix(b) = 1..k
    BY <2>1, PrefixFacts
  <2>3. k # 1 /\ ~ (2 \in 1..k - 1)
    BY <2>2
  <2>4. k = 2
    BY <2>3
  <2> QED BY <2>1, <2>2, <2>4
<1> DEFINE r == v - 128
           h == 128 * (q % 2)
<1>2. r \in 0..127 /\ h \in {0, 128} /\ r + h \in 0..255
  OBVIOUS
<1>3. Shifted(v, 1) = r
  <2>1. (7 * (1 - 1)) % 8 = 0 /\ v % 128 = r /\ (r * 1) % 256 = r /\ Weight[1] = 1
    BY DEF Weight
  <2> QED BY <2>1 DEF Shifted
<1>4. Shifted(q, 2) = h
  <2>1. (7 * (2 - 1)) % 8 = 7 /\ q % 128 = q /\ (q * 128) % 256 = h /\ Weight[8] = 128
    BY DEF Weight
  <2> QED BY <2>1 DEF Shifted
<1> HIDE DEF r, h
<1>5. UNION {BitsOf(Shifted(b[i], i)) : i \in DOMAIN Prefix(b)} = BitsOf(r) \cup BitsOf(h)
  BY <1>1, <1>3, <1>4
<1>6. BitsOf(r) \cup BitsOf(h) = BitsOf(r + h)
  BY <1>2, BitsTogether
<1>7. NumBytes(b) = ByteOf(BitsOf(r + h))
  BY <1>5, <1>6 DEF NumBytes
<1>8. NumBytes(b) = r + h
  <2>1. r + h \in 0..255
    BY <1>2
  <2>2. ByteOf(BitsOf(r + h)) = r + h
    BY <2>1, ByteOfBits, Zenon
  <2> QED BY <1>7, <2>2, Zenon
<1> QED BY <1>1, <1>8 DEF r, h

LEMMA TwoByteLength ==
  ASSUME NEW m \in Nat, ~ (m < 128), m < 16384
  PROVE  /\ ~ Panics(Varint[m])
         /\ NumBytes(Varint[m]) = (m % 128) + 128 * ((m \div 128) % 2)
<1>1. PICK w \in Nat : w = m \div 128 /\ w < 128 /\ w > 0
  <2>1. m \div 128 \in Nat /\ m \div 128 < 128 /\ m \div 128 > 0
    OBVIOUS
  <2> QED BY <2>1
<1>2. PICK v \in Nat : v = 128 + (m % 128) /\ v < 256 /\ v >= 128
  <2>1. 128 + (m % 128) \in 128..255
    OBVIOUS
  <2> QED BY <2>1
<1>3. Varint[m] = <<v>> \o Varint[w]
  <2>1. Varint[m] = <<128 + (m % 128)>> \o Varint[m \div 128]
    BY VarintOfMore, SMTT(30)
  <2> DEFINE x == 128 + (m % 128)
             y == m \div 128
  <2>2. y = w /\ x = v
    BY <1>1, <1>2
  <2>3. Varint[m] = <<x>> \o Varint[y]
    BY <2>1
  <2> HIDE DEF x, y
  <2> QED BY <2>2, <2>3
<1>4. Varint[m] = <<v, w>>
  <2>1. w < 128
    BY <1>1
  <2>2. Varint[w] = <<w>>
    BY <2>1, VarintOfOne
  <2>3. <<v>> \o <<w>> = <<v, w>>
    BY TwoJoined
  <2> QED BY <1>3, <2>2, <2>3
<1> DEFINE two == <<v, w>>
<1>5. DOMAIN two = 1..2 /\ two[1] = v /\ two[2] = w
  OBVIOUS
<1> HIDE DEF two
<1>6. Len(Prefix(two)) = 2 /\ NumBytes(two) = (v - 128) + 128 * (w % 2)
  <2>1. v >= 128 /\ v < 256 /\ w > 0 /\ w < 128
    BY <1>1, <1>2
  <2>2. PICK len \in Nat : 2 \in 1..len /\ DOMAIN two = 1..len
    BY <1>5
  <2> QED BY <1>5, <2>1, <2>2, LengthOfTwo
<1>7. v - 128 = m % 128
  BY <1>2
<1>8. ~ Panics(two)
  BY <1>6 DEF Panics
<1>9. NumBytes(two) = (m % 128) + 128 * ((m \div 128) % 2)
  BY <1>1, <1>6, <1>7
<1> QED BY <1>4, <1>8, <1>9 DEF two

\* ... and from then on it is three or more.
LEMMA LongLength == ASSUME NEW m \in Nat, ~ (m < 16384) PROVE Panics(Varint[m])
<1> DEFINE q == m \div 128
           v == 128 + (m % 128)
           p == q \div 128
           u == 128 + (q % 128)
<1>1. /\ q \in Nat /\ ~ (q < 128) /\ ~ (m < 128) /\ v \in Nat /\ v \in 128..255
      /\ p \in Nat /\ u \in Nat /\ u \in 128..255
  <2>1. q \in Nat /\ ~ (q < 128) /\ ~ (m < 128) /\ v \in Nat /\ v \in 128..255
    OBVIOUS
  <2> HIDE DEF q
  <2>2. p \in Nat /\ u \in Nat /\ u \in 128..255
    BY <2>1
  <2> QED BY <2>1, <2>2
<1>2. Varint[m] = <<v>> \o Varint[q]
  <2>1. ~ (m < 128)
    BY <1>1
  <2> QED BY <2>1, VarintOfMore
<1> HIDE DEF q, v
<1>3. Varint[q] = <<u>> \o Varint[p]
  BY <1>1, VarintOfMore, SMTT(30)
<1> HIDE DEF p, u
<1> DEFINE tail == Varint[p]
           most == Varint[q]
           all == Varint[m]
<1>4. /\ tail \in Seq(0..255) /\ HasPrefix(tail)
      /\ most \in Seq(0..255) /\ HasPrefix(most)
      /\ all \in Seq(0..255) /\ HasPrefix(all)
  BY <1>1, VarintEnds
<1>5. most = <<u>> \o tail /\ all = <<v>> \o most
  BY <1>2, <1>3
<1> HIDE DEF tail, most, all
<1>6. Len(tail) \in Nat /\ Len(most) = 1 + Len(tail) /\ most[1] = u
  <2>1. <<u>> \in Seq(0..255) /\ Len(<<u>>) = 1 /\ <<u>>[1] = u
    BY <1>1
  <2>2. Len(tail) \in Nat
    BY <1>4, LenProperties
  <2>3. /\ Len(<<u>> \o tail) = Len(<<u>>) + Len(tail)
        /\ \A i \in 1..Len(<<u>>) + Len(tail) :
             (<<u>> \o tail)[i] = IF i <= Len(<<u>>) THEN <<u>>[i] ELSE tail[i - Len(<<u>>)]
    BY <1>4, <2>1, ConcatProperties
  <2>4. Len(most) = 1 + Len(tail)
    BY <1>5, <2>1, <2>3
  <2>5. 1 \in 1..Len(<<u>>) + Len(tail) /\ 1 <= Len(<<u>>)
    BY <2>1, <2>2
  <2>6. (<<u>> \o tail)[1] = <<u>>[1]
    BY <2>3, <2>5
  <2> QED BY <1>5, <2>1, <2>2, <2>4, <2>6
<1>7. all[1] = v /\ all[2] = u /\ Len(all) \in Nat /\ DOMAIN all = 1..Len(all)
  <2>1. <<v>> \in Seq(0..255) /\ Len(<<v>>) = 1 /\ <<v>>[1] = v
    BY <1>1
  <2>2. /\ Len(<<v>> \o most) = Len(<<v>>) + Len(most)
        /\ \A i \in 1..Len(<<v>>) + Len(most) :
             (<<v>> \o most)[i] = IF i <= Len(<<v>>) THEN <<v>>[i] ELSE most[i - Len(<<v>>)]
    BY <1>4, <2>1, ConcatProperties
  <2>3. 1 \in 1..Len(<<v>>) + Len(most) /\ 1 <= Len(<<v>>)
    BY <1>6, <2>1
  <2>4. 2 \in 1..Len(<<v>>) + Len(most) /\ ~ (2 <= Len(<<v>>)) /\ 2 - Len(<<v>>) = 1
    BY <1>6, <2>1
  <2>5. (<<v>> \o most)[1] = <<v>>[1]
    BY <2>2, <2>3
  <2>6. (<<v>> \o most)[2] = most[1]
    BY <2>2, <2>4
  <2>7. Len(all) \in Nat /\ DOMAIN all = 1..Len(all)
    BY <1>4, LenProperties
  <2> QED BY <1>5, <1>6, <2>1, <2>5, <2>6, <2>7
<1>8. PICK k \in 1..Len(all) : all[k] < 128 /\ Len(Prefix(all)) = k
  <2>1. \E k \in 1..Len(all) : /\ all[k] < 128
                               /\ \A i \in 1..k - 1 : ~ (all[i] < 128)
                               /\ Len(Prefix(all)) = k /\ DOMAIN Prefix(all) = 1..k
    BY <1>4, <1>7, PrefixFacts
  <2> QED BY <2>1
<1>9. k # 1 /\ k # 2
  <2>1. ~ (v < 128) /\ ~ (u < 128)
    BY <1>1
  <2> QED BY <1>7, <1>8, <2>1
<1>10. k > 2
  BY <1>7, <1>9
<1>11. Len(Prefix(all)) > 2
  BY <1>8, <1>10
<1> QED BY <1>11 DEF Panics, all

\* read_varint_from_stream returns the length that was written if it is less than 256,
\* and only then.
THEOREM ReadsLengthsBelow256 ==
  ASSUME NEW m \in Nat
  PROVE  ~ Panics(Varint[m]) /\ NumBytes(Varint[m]) = m <=> m < 256
<1>1. CASE m < 128
  <2>1. m \in 0..127
    BY <1>1
  <2>2. ~ Panics(Varint[m]) /\ NumBytes(Varint[m]) = m
    BY <2>1, ShortLength
  <2> QED BY <1>1, <2>2
<1>2. CASE ~ (m < 128) /\ m < 16384
  <2>1. /\ ~ Panics(Varint[m])
        /\ NumBytes(Varint[m]) = (m % 128) + 128 * ((m \div 128) % 2)
    BY <1>2, TwoByteLength
  <2>2. (m % 128) + 128 * ((m \div 128) % 2) = m <=> m < 256
    <3> DEFINE q == m \div 128
               r == m % 128
    <3>1. m = r + 128 * q /\ q \in Nat /\ q > 0 /\ q < 128 /\ r \in 0..127
      BY <1>2
    <3> HIDE DEF q, r
    <3>2. m < 256 <=> q = 1
      BY <3>1
    <3>3. q % 2 = q <=> q = 1
      BY <3>1
    <3>4. q % 2 \in 0..1
      BY <3>1
    <3>5. r + 128 * (q % 2) = m <=> q % 2 = q
      BY <3>1, <3>4
    <3> QED BY <3>2, <3>3, <3>5 DEF q, r
  <2> DEFINE x == (m % 128) + 128 * ((m \div 128) % 2)
  <2>3. NumBytes(Varint[m]) = x /\ (x = m <=> m < 256)
    BY <2>1, <2>2
  <2> HIDE DEF x
  <2> QED BY <2>1, <2>3
<1>3. CASE ~ (m < 16384)
  <2>1. ~ (m < 256)
    BY <1>3
  <2> QED BY <1>3, <2>1, LongLength
<1> QED BY <1>1, <1>2, <1>3

-----------------------------------------------------------------------------
(* What the answers look like, as they are sent. *)

\* FlattenSeq puts one sequence after the other.
FlatUpTo(g, seqs, n) ==
  /\ DOMAIN g = 1..n
  /\ \A i \in 1..n : g[i] = IF i = 1 THEN seqs[i] ELSE g[i - 1] \o seqs[i]

LEMMA FlatExists == ASSUME NEW seqs, NEW n \in Nat PROVE \E g : FlatUpTo(g, seqs, n)
<1> DEFINE bad == {i \in Nat : ~ \E g : FlatUpTo(g, seqs, i)}
<1>1. CASE bad = {}
  BY <1>1
<1>2. CASE bad # {}
  <2>1. Min(bad) \in bad /\ \A x \in bad : Min(bad) <= x
    <3>1. bad \subseteq Nat
      OBVIOUS
    <3> HIDE DEF bad
    <3> QED BY <1>2, <3>1, SmallestOf
  <2>2. PICK i \in bad : \A x \in bad : i <= x
    BY <2>1
  <2>3. i \in Nat /\ ~ \E g : FlatUpTo(g, seqs, i)
    BY <2>2
  <2>4. CASE i = 0
    <3> DEFINE g == [k \in 1..0 |-> <<>>]
    <3>1. FlatUpTo(g, seqs, 0)
      BY DEF FlatUpTo
    <3> QED BY <2>3, <2>4, <3>1
  <2>5. CASE i # 0
    <3>1. i - 1 \in Nat /\ i - 1 \notin bad
      BY <2>2, <2>3, <2>5
    <3>2. PICK g : FlatUpTo(g, seqs, i - 1)
      BY <3>1
    <3> DEFINE h == [k \in 1..i |-> IF k < i THEN g[k] ELSE IF k = 1 THEN seqs[k] ELSE g[k - 1] \o seqs[k]]
    <3>3. ASSUME NEW k \in 1..i
          PROVE  h[k] = IF k = 1 THEN seqs[k] ELSE h[k - 1] \o seqs[k]
      <4>1. k \in Nat /\ k >= 1 /\ k <= i
        BY <2>3
      <4>2. h[k] = IF k = 1 THEN seqs[k] ELSE g[k - 1] \o seqs[k]
        <5>1. CASE k < i
          <6>1. k \in 1..i - 1
            BY <2>3, <4>1, <5>1
          <6>2. g[k] = IF k = 1 THEN seqs[k] ELSE g[k - 1] \o seqs[k]
            BY <3>2, <6>1 DEF FlatUpTo
          <6> QED BY <5>1, <6>2
        <5>2. CASE ~ (k < i)
          BY <5>2
        <5> QED BY <5>1, <5>2
      <4>3. k # 1 => h[k - 1] = g[k - 1]
        <5>1. k # 1 => k - 1 \in 1..i /\ k - 1 < i
          BY <2>3, <4>1
        <5> QED BY <5>1
      <4> HIDE DEF h
      <4> QED BY <4>2, <4>3
    <3>4. DOMAIN h = 1..i
      OBVIOUS
    <3> HIDE DEF h
    <3>5. FlatUpTo(h, seqs, i)
      BY <3>3, <3>4 DEF FlatUpTo
    <3> QED BY <2>3, <3>5
  <2> QED BY <2>4, <2>5
<1> QED BY <1>1, <1>2

LEMMA FlattenRule ==
  ASSUME NEW seqs, NEW n \in Nat \ {0}, Len(seqs) = n
  PROVE  \E g : FlatUpTo(g, seqs, n) /\ FlattenSeq(seqs) = g[n]
<1> DEFINE D == 1..Len(seqs)
           F == CHOOSE f : f = [i \in D |-> IF i = 1 THEN seqs[i] ELSE f[i - 1] \o seqs[i]]
<1>1. PICK g : FlatUpTo(g, seqs, n)
  BY FlatExists
<1> DEFINE h == [i \in D |-> g[i]]
<1>2. h = [i \in D |-> IF i = 1 THEN seqs[i] ELSE h[i - 1] \o seqs[i]]
  <2>1. ASSUME NEW i \in D PROVE g[i] = IF i = 1 THEN seqs[i] ELSE h[i - 1] \o seqs[i]
    <3>1. i \in 1..n
      OBVIOUS
    <3>2. i # 1 => i - 1 \in D
      BY <3>1
    <3>3. i # 1 => h[i - 1] = g[i - 1]
      BY <3>2
    <3>4. g[i] = IF i = 1 THEN seqs[i] ELSE g[i - 1] \o seqs[i]
      BY <1>1, <3>1 DEF FlatUpTo
    <3> HIDE DEF h, D
    <3> QED BY <3>3, <3>4
  <2> HIDE DEF D
  <2> QED BY <2>1
<1>3. F = [i \in D |-> IF i = 1 THEN seqs[i] ELSE F[i - 1] \o seqs[i]]
  <2> HIDE DEF h, D
  <2> QED BY <1>2
<1>4. FlattenSeq(seqs) = F[n]
  BY DEF FlattenSeq
<1> HIDE DEF F
<1>5. FlatUpTo(F, seqs, n)
  BY <1>3 DEF FlatUpTo
<1> QED BY <1>4, <1>5

\* All but the first are empty ...
LEMMA FlattenOne ==
  ASSUME NEW seqs, NEW n \in Nat \ {0}, Len(seqs) = n, NEW S, seqs[1] \in Seq(S),
         \A i \in 2..n : seqs[i] = <<>>
  PROVE  FlattenSeq(seqs) = seqs[1]
<1>1. PICK g : FlatUpTo(g, seqs, n) /\ FlattenSeq(seqs) = g[n]
  BY FlattenRule
<1> DEFINE bad == {i \in Nat : i \in 1..n /\ g[i] # seqs[1]}
<1>2. CASE bad = {}
  <2>1. n \in 1..n /\ n \in Nat
    OBVIOUS
  <2> QED BY <1>1, <1>2, <2>1
<1>3. CASE bad # {}
  <2>1. Min(bad) \in bad /\ \A x \in bad : Min(bad) <= x
    <3>1. bad \subseteq Nat
      OBVIOUS
    <3> HIDE DEF bad
    <3> QED BY <1>3, <3>1, SmallestOf
  <2>2. PICK i \in bad : \A x \in bad : i <= x
    BY <2>1
  <2>3. i \in 1..n /\ i \in Nat /\ g[i] # seqs[1]
    BY <2>2
  <2>4. i # 1
    <3>1. 1 \in 1..n /\ g[1] = seqs[1]
      BY <1>1 DEF FlatUpTo
    <3> QED BY <2>3, <3>1
  <2>5. i - 1 \in Nat /\ i - 1 \in 1..n /\ i - 1 < i /\ i \in 2..n
    BY <2>3, <2>4
  <2>6. g[i - 1] = seqs[1]
    BY <2>2, <2>5
  <2>7. g[i] = g[i - 1] \o seqs[i] /\ seqs[i] = <<>>
    BY <1>1, <2>3, <2>4, <2>5 DEF FlatUpTo
  <2>8. seqs[1] \o <<>> = seqs[1]
    BY ConcatEmptySeq
  <2> QED BY <2>3, <2>6, <2>7, <2>8
<1> QED BY <1>2, <1>3

\* ... or all but the first and one other.
LEMMA FlattenTwo ==
  ASSUME NEW seqs, NEW n \in Nat \ {0}, Len(seqs) = n, NEW S,
         NEW a \in Seq(S), seqs[1] = a, NEW p \in 2..n, NEW b \in Seq(S), seqs[p] = b,
         \A i \in 2..n : i # p => seqs[i] = <<>>
  PROVE  FlattenSeq(seqs) = a \o b
<1>1. PICK g : FlatUpTo(g, seqs, n) /\ FlattenSeq(seqs) = g[n]
  BY FlattenRule
<1> DEFINE so(i) == IF i < p THEN a ELSE a \o b
           bad == {i \in Nat : i \in 1..n /\ g[i] # so(i)}
<1>2. CASE bad = {}
  <2>1. n \in 1..n /\ n \in Nat /\ ~ (n < p)
    OBVIOUS
  <2> QED BY <1>1, <1>2, <2>1
<1>3. CASE bad # {}
  <2>1. Min(bad) \in bad /\ \A x \in bad : Min(bad) <= x
    <3>1. bad \subseteq Nat
      OBVIOUS
    <3> HIDE DEF bad
    <3> QED BY <1>3, <3>1, SmallestOf
  <2>2. PICK i \in bad : \A x \in bad : i <= x
    BY <2>1
  <2>3. i \in 1..n /\ i \in Nat /\ g[i] # so(i)
    BY <2>2
  <2>4. i # 1
    <3>1. 1 \in 1..n /\ g[1] = a /\ 1 < p
      BY <1>1 DEF FlatUpTo
    <3> QED BY <2>3, <3>1
  <2>5. i - 1 \in Nat /\ i - 1 \in 1..n /\ i - 1 < i /\ i \in 2..n
    BY <2>3, <2>4
  <2>6. g[i - 1] = so(i - 1)
    <3>1. i - 1 \notin bad
      BY <2>2, <2>5
    <3> HIDE DEF so
    <3> QED BY <2>5, <3>1
  <2>7. g[i] = g[i - 1] \o seqs[i]
    BY <1>1, <2>3, <2>4, <2>5 DEF FlatUpTo
  <2>8. a \o <<>> = a /\ (a \o b) \o <<>> = a \o b
    <3>1. a \o b \in Seq(S)
      BY ConcatProperties
    <3> QED BY <3>1, ConcatEmptySeq
  <2>9. CASE i < p
    <3>1. i - 1 < p /\ seqs[i] = <<>>
      BY <2>5, <2>9
    <3> QED BY <2>3, <2>6, <2>7, <2>8, <2>9, <3>1
  <2>10. CASE i = p
    <3>1. i - 1 < p /\ ~ (i < p) /\ seqs[i] = b
      BY <2>5, <2>10
    <3> QED BY <2>3, <2>6, <2>7, <3>1
  <2>11. CASE i > p
    <3>1. ~ (i - 1 < p) /\ ~ (i < p) /\ seqs[i] = <<>>
      BY <2>5, <2>11
    <3> QED BY <2>3, <2>6, <2>7, <2>8, <3>1
  <2> QED BY <2>3, <2>9, <2>10, <2>11
<1> QED BY <1>2, <1>3

LEMMA FlattenPair ==
  ASSUME NEW seqs, NEW n \in Nat \ {0}, Len(seqs) = n, NEW S, seqs[1] \in Seq(S),
         NEW p, p \in 2..n, seqs[p] \in Seq(S), \A i \in 2..n : i # p => seqs[i] = <<>>
  PROVE  FlattenSeq(seqs) = seqs[1] \o seqs[p]
BY FlattenTwo

\* SumFunction adds, here up to two numbers.
First(t) == CHOOSE x \in t : TRUE
SumTable(f) ==
  CHOOSE s : s = [t \in SUBSET DOMAIN f |->
                    IF t = {} THEN 0 ELSE f[First(t)] + s[t \ {First(t)}]]

LEMMA SumOfTwo ==
  ASSUME NEW f, DOMAIN f = {1, 2}, NEW x \in Nat, f[1] = x, NEW y \in Nat, f[2] = y
  PROVE  SumFunction(f) = x + y
<1> DEFINE s == [t \in SUBSET {1, 2} |-> (IF 1 \in t THEN x ELSE 0) + (IF 2 \in t THEN y ELSE 0)]
<1>1. \A t \in SUBSET {1, 2} : t # {} => First(t) \in t /\ First(t) \in {1, 2}
  BY DEF First
<1>2. s = [t \in SUBSET {1, 2} |-> IF t = {} THEN 0 ELSE f[First(t)] + s[t \ {First(t)}]]
  <2>1. ASSUME NEW t \in SUBSET {1, 2}
        PROVE  s[t] = IF t = {} THEN 0 ELSE f[First(t)] + s[t \ {First(t)}]
    <3>1. CASE t = {}
      BY <3>1
    <3>2. CASE t # {}
      <4>1. First(t) \in t /\ (First(t) = 1 \/ First(t) = 2) /\ t \ {First(t)} \in SUBSET {1, 2}
        BY <1>1, <3>2
      <4>2. CASE First(t) = 1
        <5>1. s[t] = x + (IF 2 \in t THEN y ELSE 0) /\ s[t \ {1}] = (IF 2 \in t THEN y ELSE 0)
          BY <4>1, <4>2
        <5> HIDE DEF s
        <5> QED BY <3>2, <4>2, <5>1
      <4>3. CASE First(t) = 2
        <5>1. s[t] = (IF 1 \in t THEN x ELSE 0) + y /\ s[t \ {2}] = (IF 1 \in t THEN x ELSE 0)
          BY <4>1, <4>3
        <5> HIDE DEF s
        <5> QED BY <3>2, <4>3, <5>1
      <4> QED BY <4>1, <4>2, <4>3
    <3> QED BY <3>1, <3>2
  <2> HIDE DEF s
  <2>2. s = [t \in SUBSET {1, 2} |-> s[t]]
    BY DEF s
  <2> QED BY <2>1, <2>2
<1> HIDE DEF s
<1>3. SumTable(f) = [t \in SUBSET DOMAIN f |->
                       IF t = {} THEN 0 ELSE f[First(t)] + SumTable(f)[t \ {First(t)}]]
  BY <1>2 DEF SumTable
<1> DEFINE u == SumTable(f)
<1>4. \A t \in SUBSET {1, 2} : u[t] = IF t = {} THEN 0 ELSE f[First(t)] + u[t \ {First(t)}]
  BY <1>3
<1>5. SumFunction(f) = u[DOMAIN f]
  BY DEF SumFunction, SumFunctionOnSet, FoldFunctionOnSet, MapThenFoldSet, SumTable, First
<1> HIDE DEF u
<1>6. u[{}] = 0 /\ u[{1}] = x /\ u[{2}] = y
  <2>1. u[{}] = 0
    BY <1>4
  <2>2. /\ First({1}) = 1 /\ First({2}) = 2 /\ {1} \ {1} = {} /\ {2} \ {2} = {}
        /\ {1} # {} /\ {2} # {}
    BY <1>1
  <2>3. u[{1}] = x + 0
    BY <1>4, <2>1, <2>2
  <2>4. u[{2}] = y + 0
    BY <1>4, <2>1, <2>2
  <2> QED BY <2>1, <2>3, <2>4
<1>7. u[{1, 2}] = x + y
  <2>1. u[{1, 2}] = f[First({1, 2})] + u[{1, 2} \ {First({1, 2})}]
    BY <1>4
  <2>2. First({1, 2}) = 1 \/ First({1, 2}) = 2
    BY <1>1
  <2>3. {1, 2} \ {1} = {2} /\ {1, 2} \ {2} = {1}
    OBVIOUS
  <2> QED BY <1>6, <2>1, <2>2, <2>3
<1> QED BY <1>5, <1>7

LEMMA SumOfOne ==
  ASSUME NEW f, DOMAIN f = {1}, NEW x \in Nat, f[1] = x
  PROVE  SumFunction(f) = x
<1> DEFINE s == [t \in SUBSET {1} |-> IF 1 \in t THEN x ELSE 0]
<1>1. \A t \in SUBSET {1} : t # {} => First(t) = 1 /\ 1 \in t /\ t \ {1} = {}
  BY DEF First
<1>2. s = [t \in SUBSET {1} |-> IF t = {} THEN 0 ELSE f[First(t)] + s[t \ {First(t)}]]
  <2>1. ASSUME NEW t \in SUBSET {1}
        PROVE  s[t] = IF t = {} THEN 0 ELSE f[First(t)] + s[t \ {First(t)}]
    <3>1. s[{}] = 0
      OBVIOUS
    <3>2. CASE t = {}
      BY <3>2
    <3>3. CASE t # {}
      <4>1. s[t] = x /\ x + 0 = x
        BY <1>1, <3>3
      <4> HIDE DEF s
      <4> QED BY <1>1, <3>1, <3>3, <4>1
    <3> QED BY <3>2, <3>3
  <2> HIDE DEF s
  <2>2. s = [t \in SUBSET {1} |-> s[t]]
    BY DEF s
  <2> QED BY <2>1, <2>2
<1> HIDE DEF s
<1>3. SumTable(f) = [t \in SUBSET DOMAIN f |->
                       IF t = {} THEN 0 ELSE f[First(t)] + SumTable(f)[t \ {First(t)}]]
  BY <1>2 DEF SumTable
<1> DEFINE u == SumTable(f)
<1>4. \A t \in SUBSET {1} : u[t] = IF t = {} THEN 0 ELSE f[First(t)] + u[t \ {First(t)}]
  BY <1>3
<1>5. SumFunction(f) = u[DOMAIN f]
  BY DEF SumFunction, SumFunctionOnSet, FoldFunctionOnSet, MapThenFoldSet, SumTable, First
<1> HIDE DEF u
<1>6. u[{}] = 0
  BY <1>4
<1>7. u[{1}] = x + 0
  <2>1. First({1}) = 1 /\ {1} \ {1} = {} /\ {1} # {}
    BY <1>1
  <2>2. u[{1}] = f[First({1})] + u[{1} \ {First({1})}]
    BY <1>4, <2>1
  <2> QED BY <1>6, <2>1, <2>2
<1> QED BY <1>5, <1>7

\* The fields of a ServerRequest, in order.
LEMMA RequestFields ==
  /\ DOMAIN ServerRequest =
       {"msgType", "gameEnd", "gameState", "authResponse", "bidResponse", "bidReject", "bidResult",
        "authReject", "gameStart", "roundStart", "version_major", "version_minor"}
  /\ ServerRequest["msgType"].num = 1 /\ ServerRequest["gameEnd"].num = 2
  /\ ServerRequest["gameState"].num = 3 /\ ServerRequest["authResponse"].num = 4
  /\ ServerRequest["bidResponse"].num = 5 /\ ServerRequest["bidReject"].num = 6
  /\ ServerRequest["bidResult"].num = 7 /\ ServerRequest["authReject"].num = 8
  /\ ServerRequest["gameStart"].num = 9 /\ ServerRequest["roundStart"].num = 10
  /\ ServerRequest["version_major"].num = 11 /\ ServerRequest["version_minor"].num = 12
BY DEF ServerRequest, Required, Optional

LEMMA RequestOrder ==
  /\ DOMAIN InOrder(ServerRequest) = 1..12
  /\ \A i \in 1..12 : InOrder(ServerRequest)[i] \in DOMAIN ServerRequest
                      /\ ServerRequest[InOrder(ServerRequest)[i]].num = i
  /\ InOrder(ServerRequest)[1] = "msgType"
  /\ InOrder(ServerRequest)[4] = "authResponse"
  /\ InOrder(ServerRequest)[5] = "bidResponse"
<1> DEFINE num(n) == ServerRequest[n].num
           D == DOMAIN ServerRequest
<1>1. {num(n) : n \in D} = 1..12
  BY RequestFields
<1>2. \A i \in 1..12 : \E n \in D : num(n) = i
  BY <1>1
<1>3. \A n \in D : /\ num(n) = 1 => n = "msgType"
                   /\ num(n) = 4 => n = "authResponse"
                   /\ num(n) = 5 => n = "bidResponse"
  BY RequestFields
<1> DEFINE o == InOrder(ServerRequest)
<1>4. DOMAIN o = 1..12 /\ \A i \in 1..12 : o[i] = CHOOSE n \in D : num(n) = i
  BY <1>1 DEF InOrder
<1> HIDE DEF o, D, num
<1>5. \A i \in 1..12 : o[i] \in D /\ num(o[i]) = i
  BY <1>2, <1>4
<1>6. o[1] = "msgType" /\ o[4] = "authResponse" /\ o[5] = "bidResponse"
  BY <1>3, <1>5
<1> QED BY <1>4, <1>5, <1>6 DEF o, D, num

\* A value of a field is an item, and no value none.
LEMMA OneItem ==
  ASSUME NEW fld, NEW v
  PROVE  [j \in DOMAIN <<v>> |-> [field |-> fld, value |-> <<v>>[j]]] = <<[field |-> fld, value |-> v]>>
<1> DEFINE it == [field |-> fld, value |-> v]
           c == [j \in DOMAIN <<v>> |-> [field |-> fld, value |-> <<v>>[j]]]
<1>1. DOMAIN <<v>> = 1..1 /\ <<v>>[1] = v
  OBVIOUS
<1>2. c = [j \in 1..1 |-> it]
  BY <1>1
<1>3. DOMAIN <<it>> = 1..1 /\ <<it>>[1] = it
  OBVIOUS
<1>4. <<it>> = [j \in 1..1 |-> it]
  <2> HIDE DEF it
  <2>1. <<it>> \in Seq({it}) /\ Len(<<it>>) = 1
    OBVIOUS
  <2>2. [j \in 1..1 |-> it] \in Seq({it}) /\ Len([j \in 1..1 |-> it]) = 1
    OBVIOUS
  <2>3. \A i \in 1..1 : <<it>>[i] = [j \in 1..1 |-> it][i]
    OBVIOUS
  <2> QED BY <2>1, <2>2, <2>3, SeqEqual
<1> QED BY <1>2, <1>4

LEMMA NoItem ==
  ASSUME NEW fld
  PROVE  [j \in DOMAIN <<>> |-> [field |-> fld, value |-> <<>>[j]]] = <<>>
<1> DEFINE c == [j \in DOMAIN <<>> |-> [field |-> fld, value |-> <<>>[j]]]
<1>1. DOMAIN <<>> = 1..0
  OBVIOUS
<1>2. DOMAIN c = 1..0
  BY <1>1
<1>3. c \in Seq({}) /\ Len(c) = 0
  BY <1>1, <1>2
<1> HIDE DEF c
<1>4. c = <<>>
  BY <1>3
<1> QED BY <1>4 DEF c

LEMMA BareItems ==
  ASSUME NEW t
  PROVE  Items(ServerRequest, With(ServerRequest, [msgType |-> t]))
           = <<[field |-> ServerRequest["msgType"], value |-> t]>>
<1> DEFINE m == With(ServerRequest, [msgType |-> t])
           o == InOrder(ServerRequest)
           part(n) == [j \in DOMAIN m[n] |-> [field |-> ServerRequest[n], value |-> m[n][j]]]
           parts == [i \in DOMAIN o |-> part(o[i])]
           it == [field |-> ServerRequest["msgType"], value |-> t]
<1>1. \A n \in DOMAIN ServerRequest : m[n] = IF n = "msgType" THEN <<t>> ELSE <<>>
  BY DEF With
<1>2. "msgType" \in DOMAIN ServerRequest
  BY RequestFields
<1>3. Items(ServerRequest, m) = FlattenSeq(parts)
  BY DEF Items
<1> HIDE DEF m
<1>4. part("msgType") = <<it>>
  BY <1>1, <1>2, OneItem
<1>5. \A n \in DOMAIN ServerRequest : n # "msgType" => part(n) = <<>>
  BY <1>1, NoItem
<1> HIDE DEF part, it
<1>6. DOMAIN parts = 1..12 /\ parts[1] = <<it>> /\ \A i \in 1..12 : parts[i] = part(o[i])
  BY <1>4, RequestOrder
<1>7. \A i \in 2..12 : parts[i] = <<>>
  <2>1. \A i \in 2..12 : i \in 1..12 /\ o[i] \in DOMAIN ServerRequest /\ o[i] # "msgType"
    BY RequestOrder, RequestFields
  <2> HIDE DEF parts, o
  <2> QED BY <1>5, <1>6, <2>1
<1>8. Len(parts) = 12
  <2>1. parts \in [1..12 -> {<<>>, <<it>>}]
    <3>1. \A i \in 1..12 : i = 1 \/ i \in 2..12
      OBVIOUS
    <3>2. \A i \in 1..12 : part(o[i]) \in {<<>>, <<it>>}
      BY <1>6, <1>7, <3>1
    <3>3. DOMAIN o = 1..12
      BY RequestOrder
    <3> HIDE DEF o
    <3> QED BY <3>2, <3>3
  <2> HIDE DEF parts
  <2> QED BY <2>1
<1> HIDE DEF parts
<1>9. <<it>> \in Seq({it}) /\ 12 \in Nat \ {0}
  OBVIOUS
<1>10. FlattenSeq(parts) = parts[1]
  BY <1>6, <1>7, <1>8, <1>9, FlattenOne
<1> QED BY <1>3, <1>6, <1>10 DEF m, it

\* A field that is a message is an item as well ...
LEMMA TwoItems ==
  ASSUME NEW p \in {4, 5}, NEW fld, fld = InOrder(ServerRequest)[p], NEW t, NEW v, NEW m,
         \A n \in DOMAIN ServerRequest :
           m[n] = IF n = "msgType" THEN <<t>> ELSE IF n = fld THEN <<v>> ELSE <<>>
  PROVE  Items(ServerRequest, m)
           = <<[field |-> ServerRequest["msgType"], value |-> t]>>
               \o <<[field |-> ServerRequest[fld], value |-> v]>>
<1> DEFINE o == InOrder(ServerRequest)
           part(n) == [j \in DOMAIN m[n] |-> [field |-> ServerRequest[n], value |-> m[n][j]]]
           parts == [i \in DOMAIN o |-> part(o[i])]
           it == [field |-> ServerRequest["msgType"], value |-> t]
           nx == [field |-> ServerRequest[fld], value |-> v]
<1>1. /\ "msgType" \in DOMAIN ServerRequest /\ fld \in DOMAIN ServerRequest /\ fld # "msgType"
      /\ ServerRequest[fld].num = p /\ p \in 2..12 /\ p \in 1..12
  BY RequestFields, RequestOrder
<1>2. Items(ServerRequest, m) = FlattenSeq(parts)
  BY DEF Items
<1>3. part("msgType") = <<it>>
  BY <1>1, OneItem
<1>4. part(fld) = <<nx>>
  BY <1>1, OneItem
<1>5. \A n \in DOMAIN ServerRequest : n \notin {"msgType", fld} => part(n) = <<>>
  BY <1>1, NoItem
<1> HIDE DEF part, it, nx
<1>6. /\ DOMAIN parts = 1..12 /\ parts[1] = <<it>> /\ parts[p] = <<nx>>
      /\ \A i \in 1..12 : parts[i] = part(o[i])
  BY <1>1, <1>3, <1>4, RequestOrder
<1>7. \A i \in 2..12 : i # p => parts[i] = <<>>
  <2>1. \A i \in 2..12 : i \in 1..12 /\ o[i] \in DOMAIN ServerRequest /\ o[i] # "msgType"
    BY RequestOrder, RequestFields
  <2>2. \A i \in 2..12 : i # p => o[i] # fld
    BY <1>1, <2>1, RequestOrder
  <2> HIDE DEF parts, o
  <2> QED BY <1>5, <1>6, <2>1, <2>2
<1>8. Len(parts) = 12
  <2>1. \A i \in 1..12 : i = 1 \/ i = p \/ (i \in 2..12 /\ i # p)
    OBVIOUS
  <2>2. \A i \in 1..12 : parts[i] \in {<<>>, <<it>>, <<nx>>}
    <3> HIDE DEF parts
    <3> QED BY <1>6, <1>7, <2>1
  <2>3. parts \in [1..12 -> {<<>>, <<it>>, <<nx>>}]
    <3>1. DOMAIN o = 1..12
      BY RequestOrder
    <3> HIDE DEF o
    <3> QED BY <2>2, <3>1
  <2> HIDE DEF parts
  <2> QED BY <2>3
<1> HIDE DEF parts
<1>9. <<it>> \in Seq({it, nx}) /\ <<nx>> \in Seq({it, nx}) /\ 12 \in Nat \ {0}
  OBVIOUS
<1>10. FlattenSeq(parts) = <<it>> \o <<nx>>
  <2>1. parts[1] \in Seq({it, nx}) /\ parts[p] \in Seq({it, nx}) /\ p \in 2..12
    BY <1>1, <1>6, <1>9
  <2>2. 12 \in Nat \ {0}
    OBVIOUS
  <2>3. FlattenSeq(parts) = parts[1] \o parts[p]
    BY <1>7, <1>8, <2>1, <2>2, FlattenPair
  <2> QED BY <1>6, <2>3
<1> QED BY <1>2, <1>10 DEF it, nx

\* ... and the one field of such a message is its one item.
LEMMA NestedItems ==
  ASSUME NEW schema, NEW fld, DOMAIN schema = {fld}, schema[fld].num = 1,
         NEW v, NEW m, m[fld] = <<v>>
  PROVE  Items(schema, m) = <<[field |-> schema[fld], value |-> v]>>
<1> DEFINE o == InOrder(schema)
           part(n) == [j \in DOMAIN m[n] |-> [field |-> schema[n], value |-> m[n][j]]]
           parts == [i \in DOMAIN o |-> part(o[i])]
           it == [field |-> schema[fld], value |-> v]
<1>1. DOMAIN o = {1} /\ o[1] = fld
  <2>1. {schema[n].num : n \in DOMAIN schema} = {1}
    OBVIOUS
  <2>2. (CHOOSE n \in DOMAIN schema : schema[n].num = 1) = fld
    OBVIOUS
  <2> QED BY <2>1, <2>2 DEF InOrder
<1>2. Items(schema, m) = FlattenSeq(parts)
  BY DEF Items
<1>3. part(fld) = <<it>>
  BY OneItem
<1> HIDE DEF o, part, it
<1>4. parts = [i \in {1} |-> <<it>>]
  BY <1>1, <1>3
<1>5. Len(parts) = 1 /\ parts[1] = <<it>>
  <2>1. parts \in [1..1 -> {<<it>>}]
    BY <1>4
  <2> HIDE DEF parts
  <2> QED BY <2>1
<1> HIDE DEF parts
<1>6. <<it>> \in Seq({it}) /\ 1 \in Nat \ {0} /\ \A i \in 2..1 : parts[i] = <<>>
  OBVIOUS
<1>7. FlattenSeq(parts) = parts[1]
  BY <1>5, <1>6, FlattenOne
<1> QED BY <1>2, <1>5, <1>7 DEF it

-----------------------------------------------------------------------------
(* The frames of the answers. *)

LEMMA VarintShort ==
  ASSUME NEW k \in Nat, k < 16384 PROVE Len(Varint[k]) \in {1, 2}
<1>1. CASE k < 128
  <2>1. Varint[k] = <<k>>
    BY <1>1, VarintOfOne
  <2> QED BY <2>1
<1>2. CASE ~ (k < 128)
  <2>1. PICK w \in Nat : w = k \div 128 /\ w < 128
    <3>1. k \div 128 \in Nat /\ k \div 128 < 128
      OBVIOUS
    <3> QED BY <3>1
  <2>2. PICK v \in Nat : v = 128 + (k % 128)
    <3>1. 128 + (k % 128) \in Nat
      OBVIOUS
    <3> QED BY <3>1
  <2>3. Varint[k] = <<v>> \o <<w>>
    <3>1. Varint[k] = <<128 + (k % 128)>> \o Varint[k \div 128]
      BY <1>2, VarintOfMore, SMTT(30)
    <3>2. Varint[w] = <<w>>
      BY <2>1, VarintOfOne
    <3> DEFINE x == 128 + (k % 128)
               y == k \div 128
    <3>3. x = v /\ y = w
      BY <2>1, <2>2
    <3>4. Varint[k] = <<x>> \o Varint[y]
      BY <3>1
    <3> HIDE DEF x, y
    <3> QED BY <3>2, <3>3, <3>4
  <2>4. Varint[k] = <<v, w>>
    BY <2>3, TwoJoined
  <2> QED BY <2>4
<1> QED BY <1>1, <1>2

\* A frame whose length is below 256 says how long it is.
LEMMA FrameLength ==
  ASSUME NEW k \in Nat, k < 256, NEW e \in Seq(0..255)
  PROVE  /\ NumBytes(Varint[k] \o e) = k
         /\ Len(Prefix(Varint[k] \o e)) = Len(Varint[k])
         /\ Varint[k] \o e \in Seq(0..255)
         /\ Len(Varint[k] \o e) = Len(Varint[k]) + Len(e)
<1> DEFINE c == Varint[k]
           f == c \o e
<1>1. c \in Seq(0..255)
  BY VarintEnds
<1> HIDE DEF c
<1>2. /\ f \in Seq(0..255) /\ Len(f) = Len(c) + Len(e)
      /\ \A i \in 1..Len(c) : f[i] = c[i]
  BY <1>1, ConcatProperties
<1> HIDE DEF f
<1>3. PICK size \in Nat : size = Len(f) /\ DOMAIN f = 1..size
  BY <1>2
<1>4. CASE k < 128
  <2>1. c = <<k>>
    BY <1>4, VarintOfOne DEF c
  <2>2. Len(c) = 1 /\ f[1] = k
    BY <1>2, <2>1
  <2>3. size \in Nat \ {0}
    BY <1>1, <1>2, <1>3, <2>2
  <2>4. k \in 0..127
    BY <1>4
  <2>5. Len(Prefix(f)) = 1 /\ NumBytes(f) = k
    BY <1>3, <2>2, <2>3, <2>4, LengthOfOne
  <2> QED BY <1>2, <2>2, <2>5 DEF f, c
<1>5. CASE ~ (k < 128)
  <2>1. 128 + (k % 128) = k /\ k \div 128 = 1
    BY <1>5
  <2>2. c = <<k, 1>>
    <3>1. c = <<128 + (k % 128)>> \o Varint[k \div 128]
      <4>1. Varint[k] = <<128 + (k % 128)>> \o Varint[k \div 128]
        BY <1>5, VarintOfMore, SMTT(30)
      <4> QED BY <4>1, Zenon DEF c
    <3>2. c = <<k>> \o Varint[1]
      BY <2>1, <3>1
    <3>3. Varint[1] = <<1>>
      BY VarintOfOne
    <3>4. <<k>> \o <<1>> = <<k, 1>>
      BY TwoJoined
    <3> QED BY <3>2, <3>3, <3>4
  <2>3. Len(c) = 2 /\ f[1] = k /\ f[2] = 1
    BY <1>2, <2>2
  <2>4. 2 \in 1..size
    BY <1>2, <1>3, <2>3
  <2>5. PICK q \in Nat : q = 1 /\ q > 0 /\ q < 128 /\ f[2] = q
    BY <2>3
  <2>6. k >= 128
    BY <1>5
  <2>7. Len(Prefix(f)) = 2 /\ NumBytes(f) = (k - 128) + 128 * (q % 2)
    BY <1>3, <2>3, <2>4, <2>5, <2>6, LengthOfTwo
  <2>8. (k - 128) + 128 * (1 % 2) = k
    BY <2>6
  <2>9. NumBytes(f) = k
    BY <2>5, <2>7, <2>8
  <2> QED BY <1>2, <2>3, <2>7, <2>9 DEF f, c
<1> QED BY <1>4, <1>5

\* How the type is written ...
LEMMA TypeField ==
  ASSUME NEW t \in 0..14
  PROVE  LET item == [field |-> ServerRequest["msgType"], value |-> t] IN
           FieldSize(item) = 2 /\ WriteField(item) = <<8, t>>
<1> DEFINE item == [field |-> ServerRequest["msgType"], value |-> t]
<1>1. item.field.num = 1 /\ item.field.kind = "enum" /\ item.value = t
  BY DEF ServerRequest, Required, Optional
<1>2. "enum" \notin DOMAIN Nested /\ "enum" # "string"
  BY DEF Nested
<1> HIDE DEF item
<1>3. Varint[t] = <<t>> /\ Varint[8] = <<8>>
  <2>1. t \in Nat /\ t < 128
    OBVIOUS
  <2>2. 8 \in Nat /\ 8 < 128
    OBVIOUS
  <2> QED BY <2>1, <2>2, VarintOfOne
<1>4. FieldSize(item) = 1 + Len(Varint[t])
  BY <1>1, <1>2 DEF FieldSize, ScalarSize
<1>5. Tag(item.field) = 8
  BY <1>1 DEF Tag
<1>6. WriteField(item) = Varint[8] \o Varint[t]
  BY <1>1, <1>2, <1>5 DEF WriteField, WriteScalar
<1>7. <<8>> \o <<t>> = <<8, t>>
  <2>1. 8 \in Nat /\ t \in Nat
    OBVIOUS
  <2> QED BY <2>1, TwoJoined
<1>8. FieldSize(item) = 2
  <2>1. Len(<<t>>) = 1
    OBVIOUS
  <2> QED BY <1>3, <1>4, <2>1
<1> QED BY <1>3, <1>6, <1>7, <1>8 DEF item

\* ... a name or an amount ...
LEMMA ScalarField ==
  ASSUME NEW item, item.field.num = 1, NEW bytes \in Seq(0..255),
         \/ /\ item.field.kind = "string" /\ item.value \in Seq(0..255)
            /\ bytes = Varint[Len(item.value)] \o item.value
         \/ item.field.kind = "u32" /\ item.value \in Nat /\ bytes = Varint[item.value]
  PROVE  /\ ScalarSize(item) \in Nat /\ ScalarSize(item) = 1 + Len(bytes)
         /\ WriteScalar(item) \in Seq(0..255)
         /\ Len(WriteScalar(item)) = ScalarSize(item)
<1>1. Len(bytes) \in Nat
  OBVIOUS
<1>2. ScalarSize(item) = 1 + Len(bytes)
  <2>1. CASE item.field.kind = "u32"
    <3>1. "u32" # "string"
      OBVIOUS
    <3> QED BY <2>1, <3>1 DEF ScalarSize
  <2>2. CASE item.field.kind = "string"
    <3>1. "u32" # "string"
      OBVIOUS
    <3> DEFINE v == item.value
               a == Varint[Len(v)]
    <3>2. a \in Seq(0..255) /\ v \in Seq(0..255) /\ bytes = a \o v
      <4>1. v \in Seq(0..255) /\ bytes = a \o v
        BY <2>2, <3>1
      <4>2. Len(v) \in Nat
        BY <4>1
      <4>3. a \in Seq(0..255)
        BY <4>2, VarintEnds
      <4> QED BY <4>1, <4>3
    <3>3. ScalarSize(item) = 1 + Len(a) + Len(v)
      BY <2>2 DEF ScalarSize
    <3> HIDE DEF a, v
    <3>4. Len(bytes) = Len(a) + Len(v) /\ Len(a) \in Nat /\ Len(v) \in Nat
      BY <3>2, ConcatProperties
    <3> QED BY <3>3, <3>4
  <2> QED BY <2>1, <2>2
<1>3. PICK tag \in 0..127 : WriteScalar(item) = Varint[tag] \o bytes
  <2>1. CASE item.field.kind = "u32"
    <3>1. "u32" # "string" /\ Tag(item.field) = 8
      BY <2>1 DEF Tag
    <3>2. WriteScalar(item) = Varint[8] \o bytes
      BY <2>1, <3>1 DEF WriteScalar
    <3>3. 8 \in 0..127
      OBVIOUS
    <3> QED BY <3>2, <3>3
  <2>2. CASE item.field.kind = "string"
    <3>1. "u32" # "string" /\ "string" \notin {"u32", "enum"} /\ Tag(item.field) = 10
      BY <2>2 DEF Tag
    <3>2. WriteScalar(item) = Varint[10] \o bytes
      BY <2>2, <3>1 DEF WriteScalar, Delimited
    <3>3. 10 \in 0..127
      OBVIOUS
    <3> QED BY <3>2, <3>3
  <2> QED BY <2>1, <2>2
<1>4. Varint[tag] = <<tag>>
  <2>1. tag \in Nat /\ tag < 128
    OBVIOUS
  <2> QED BY <2>1, VarintOfOne
<1>5. <<tag>> \in Seq(0..255) /\ Len(<<tag>>) = 1
  OBVIOUS
<1>6. WriteScalar(item) \in Seq(0..255) /\ Len(WriteScalar(item)) = 1 + Len(bytes)
  BY <1>3, <1>4, <1>5, ConcatProperties
<1> QED BY <1>1, <1>2, <1>6

LEMMA BytesJoined ==
  ASSUME NEW a \in Seq(0..255), NEW d \in Seq(0..255)
  PROVE  a \o d \in Seq(0..255) /\ Len(a \o d) = Len(a) + Len(d)
BY ConcatProperties

\* ... the message around it ...
LEMMA NestedField ==
  ASSUME NEW item, NEW inner, NEW k \in Nat, NEW w,
         item.field.num = 4 \/ item.field.num = 5, item.field.kind \in DOMAIN Nested,
         item.field.kind \notin {"u32", "enum"},
         Items(Nested[item.field.kind], item.value) = <<inner>>,
         ScalarSize(inner) = k, WriteScalar(inner) = w, w \in Seq(0..255), Len(w) = k,
         NEW out, out = Varint[Tag(item.field)] \o (Varint[k] \o w)
  PROVE  /\ FieldSize(item) = 1 + Len(Varint[k]) + k
         /\ WriteField(item) = out
<1> DEFINE items == Items(Nested[item.field.kind], item.value)
           sizes == [i \in DOMAIN items |-> ScalarSize(items[i])]
           written == [i \in DOMAIN items |-> WriteScalar(items[i])]
<1>1. DOMAIN items = {1} /\ items[1] = inner
  <2>1. DOMAIN <<inner>> = 1..1 /\ <<inner>>[1] = inner
    OBVIOUS
  <2> QED BY <2>1
<1>2. FieldSize(item) = 1 + Len(Varint[SumFunction(sizes)]) + SumFunction(sizes)
  BY DEF FieldSize
<1>3. WriteField(item)
        = Varint[Tag(item.field)] \o (Varint[Len(FlattenSeq(written))] \o FlattenSeq(written))
  BY DEF WriteField, Delimited
<1> HIDE DEF items
<1>4. SumFunction(sizes) = k
  <2>1. DOMAIN sizes = {1} /\ sizes[1] = k
    BY <1>1
  <2> HIDE DEF sizes
  <2> QED BY <2>1, SumOfOne
<1>5. FlattenSeq(written) = w
  <2>1. written = [i \in {1} |-> w]
    BY <1>1
  <2>2. Len(written) = 1 /\ written[1] = w
    <3>1. written \in [1..1 -> {w}]
      BY <2>1
    <3> HIDE DEF written
    <3> QED BY <2>1, <3>1
  <2> HIDE DEF written
  <2>3. 1 \in Nat \ {0} /\ \A i \in 2..1 : written[i] = <<>>
    OBVIOUS
  <2>4. written[1] \in Seq(0..255)
    BY <2>2
  <2>5. FlattenSeq(written) = written[1]
    BY <2>2, <2>3, <2>4, FlattenOne
  <2> QED BY <2>2, <2>5
<1> HIDE DEF sizes, written
<1>6. WriteField(item) = out
  BY <1>3, <1>5
<1> QED BY <1>2, <1>4, <1>6

LEMMA NestedLength ==
  ASSUME NEW k \in Nat, NEW w \in Seq(0..255), Len(w) = k, NEW tag \in 0..127
  PROVE  /\ Varint[tag] \o (Varint[k] \o w) \in Seq(0..255)
         /\ Len(Varint[tag] \o (Varint[k] \o w)) = 1 + Len(Varint[k]) + k
<1>1. Varint[tag] = <<tag>>
  <2>1. tag \in Nat /\ tag < 128
    OBVIOUS
  <2> QED BY <2>1, VarintOfOne
<1>2. <<tag>> \in Seq(0..255) /\ Len(<<tag>>) = 1
  OBVIOUS
<1> DEFINE c == Varint[k]
           rest == c \o w
<1>3. c \in Seq(0..255)
  BY VarintEnds
<1> HIDE DEF c
<1>4. rest \in Seq(0..255) /\ Len(rest) = Len(c) + Len(w)
  BY <1>3, BytesJoined
<1> HIDE DEF rest
<1>5. <<tag>> \o rest \in Seq(0..255) /\ Len(<<tag>> \o rest) = Len(<<tag>>) + Len(rest)
  BY <1>2, <1>4, BytesJoined
<1>6. Len(c) \in Nat
  BY <1>3
<1>7. Len(<<tag>> \o rest) = 1 + Len(c) + k
  BY <1>2, <1>4, <1>5, <1>6
<1> QED BY <1>1, <1>5, <1>7 DEF rest, c

\* ... and the whole answer, which is as long as it says.
LEMMA AnswerFrame ==
  ASSUME NEW req, NEW t \in 0..14, NEW item,
         Items(ServerRequest, req)
           = <<[field |-> ServerRequest["msgType"], value |-> t]>> \o <<item>>,
         NEW size \in Nat, FieldSize(item) = size,
         WriteField(item) \in Seq(0..255), Len(WriteField(item)) = size
  PROVE  /\ Frame(req) = Varint[2 + size] \o Encode(req)
         /\ Encode(req) = <<8, t>> \o WriteField(item)
         /\ Encode(req) \in Seq(0..255) /\ Len(Encode(req)) = 2 + size
<1> DEFINE it == [field |-> ServerRequest["msgType"], value |-> t]
           items == Items(ServerRequest, req)
           sizes == [i \in DOMAIN items |-> FieldSize(items[i])]
           written == [i \in DOMAIN items |-> WriteField(items[i])]
           w == WriteField(item)
<1>1. FieldSize(it) = 2 /\ WriteField(it) = <<8, t>>
  BY TypeField
<1>2. items = <<it>> \o <<item>>
  OBVIOUS
<1> HIDE DEF it, items
<1>3. DOMAIN items = {1, 2} /\ items[1] = it /\ items[2] = item
  <2>1. /\ <<it>> \in Seq({it, item}) /\ <<item>> \in Seq({it, item})
        /\ Len(<<it>>) = 1 /\ Len(<<item>>) = 1 /\ <<it>>[1] = it /\ <<item>>[1] = item
    OBVIOUS
  <2>2. items \in Seq({it, item}) /\ Len(items) = 2 /\ items[1] = it /\ items[2] = item
    BY <1>2, <2>1, ConcatProperties
  <2> QED BY <2>2
<1>4. ComputeSize(req) = SumFunction(sizes)
  BY DEF ComputeSize, items
<1>5. Encode(req) = FlattenSeq(written)
  BY DEF Encode, items
<1>6. SumFunction(sizes) = 2 + size
  <2>1. DOMAIN sizes = {1, 2} /\ sizes[1] = 2 /\ sizes[2] = size
    BY <1>1, <1>3
  <2> HIDE DEF sizes
  <2>2. 2 \in Nat
    OBVIOUS
  <2> QED BY <2>1, <2>2, SumOfTwo
<1> DEFINE type == <<8, t>>
<1>7. type \in Seq(0..255) /\ Len(type) = 2
  OBVIOUS
<1> HIDE DEF type
<1>8. FlattenSeq(written) = type \o w
  <2>1. DOMAIN written = {1, 2} /\ written[1] = type /\ written[2] = w
    BY <1>1, <1>3 DEF type
  <2>2. Len(written) = 2
    <3> HIDE DEF w
    <3>1. written \in [1..2 -> {type, w}]
      <4>1. \A i \in DOMAIN items : i = 1 \/ i = 2
        BY <1>3
      <4>2. \A i \in DOMAIN items : WriteField(items[i]) \in {type, w}
        BY <1>1, <1>3, <4>1 DEF type, w
      <4>3. DOMAIN items = 1..2
        BY <1>3
      <4> QED BY <4>2, <4>3
    <3> HIDE DEF written
    <3> QED BY <3>1
  <2> HIDE DEF written
  <2>3. PICK p : p = 2 /\ p \in 2..2 /\ written[p] = w
    BY <2>1
  <2>4. \A i \in 2..2 : i = p
    BY <2>3
  <2>5. written[1] \in Seq(0..255) /\ written[p] \in Seq(0..255)
    BY <1>7, <2>1, <2>3
  <2>6. 2 \in Nat \ {0}
    OBVIOUS
  <2>7. FlattenSeq(written) = written[1] \o written[p]
    <3> HIDE DEF w
    <3> QED BY <2>2, <2>3, <2>4, <2>5, <2>6, FlattenPair
  <2> QED BY <2>1, <2>3, <2>7
<1> HIDE DEF written, w, sizes
<1>9. w \in Seq(0..255) /\ Len(w) = size
  BY DEF w
<1>10. type \o w \in Seq(0..255) /\ Len(type \o w) = 2 + size
  <2>1. type \o w \in Seq(0..255) /\ Len(type \o w) = Len(type) + Len(w)
    BY <1>7, <1>9, BytesJoined
  <2> QED BY <1>7, <1>9, <2>1
<1>11. Encode(req) = type \o w
  BY <1>5, <1>8
<1>12. Frame(req) = Varint[2 + size] \o Encode(req)
  BY <1>4, <1>6 DEF Frame
<1> QED BY <1>10, <1>11, <1>12 DEF type, w

-----------------------------------------------------------------------------
(* One record after the other. *)

\* A message that came in whole is read field by field: MergeAll takes in one record
\* after the other.
MergedUpTo(g, base, recs, n) ==
  /\ DOMAIN g = SUBSET (1..n)
  /\ \A s \in SUBSET (1..n) :
       g[s] = IF s = {} THEN base ELSE MergeFrom(g[s \ {Max(s)}], recs[Max(s)])

LEMMA LargestOf ==
  ASSUME NEW n \in Nat, NEW s \in SUBSET (1..n), s # {}
  PROVE  Max(s) \in s /\ \A x \in s : Max(s) >= x
<1> DEFINE up == {k \in Nat : \A x \in s : k >= x}
<1>1. n \in up /\ up \subseteq Nat
  OBVIOUS
<1>2. Min(up) \in up /\ \A x \in up : Min(up) <= x
  <2> HIDE DEF up
  <2> QED BY <1>1, SmallestOf
<1>3. PICK k \in Nat : (\A x \in s : k >= x) /\ \A y \in up : k <= y
  BY <1>2
<1>4. k \in s
  <2>1. CASE k \notin s
    <3>1. \A x \in s : x \in Nat /\ k - 1 >= x
      BY <1>3, <2>1
    <3>2. PICK y \in s : TRUE
      OBVIOUS
    <3>3. y \in Nat /\ y >= 1 /\ k - 1 >= y
      BY <3>1
    <3>4. k - 1 \in Nat
      BY <1>3, <3>3
    <3>5. k - 1 \in up
      BY <3>1, <3>4
    <3> QED BY <1>3, <3>5
  <2> QED BY <2>1
<1>5. \E x \in s : \A y \in s : x >= y
  BY <1>3, <1>4
<1>6. Max(s) \in s /\ \A y \in s : Max(s) >= y
  BY <1>5 DEF Max
<1> QED BY <1>6

LEMMA MergedExists ==
  ASSUME NEW base, NEW recs, NEW n \in Nat
  PROVE  \E g : MergedUpTo(g, base, recs, n)
<1> DEFINE bad == {i \in Nat : ~ \E g : MergedUpTo(g, base, recs, i)}
<1>1. CASE bad = {}
  BY <1>1
<1>2. CASE bad # {}
  <2>1. Min(bad) \in bad /\ \A x \in bad : Min(bad) <= x
    <3>1. bad \subseteq Nat
      OBVIOUS
    <3> HIDE DEF bad
    <3> QED BY <1>2, <3>1, SmallestOf
  <2>2. PICK i \in bad : \A x \in bad : i <= x
    BY <2>1
  <2>3. i \in Nat /\ ~ \E g : MergedUpTo(g, base, recs, i)
    BY <2>2
  <2>4. CASE i = 0
    <3> DEFINE g == [s \in SUBSET (1..0) |-> base]
    <3>1. MergedUpTo(g, base, recs, 0)
      BY DEF MergedUpTo
    <3> QED BY <2>3, <2>4, <3>1
  <2>5. CASE i # 0
    <3>1. i - 1 \in Nat /\ i - 1 \notin bad
      BY <2>2, <2>3, <2>5
    <3>2. PICK g : MergedUpTo(g, base, recs, i - 1)
      BY <3>1
    <3> DEFINE h == [s \in SUBSET (1..i) |-> IF i \in s THEN MergeFrom(g[s \ {i}], recs[i]) ELSE g[s]]
    <3>3. ASSUME NEW s \in SUBSET (1..i)
          PROVE  h[s] = IF s = {} THEN base ELSE MergeFrom(h[s \ {Max(s)}], recs[Max(s)])
      <4>1. CASE i \in s
        <5>1. Max(s) = i
          <6>1. PICK k \in 1..i : k = Max(s) /\ \A x \in s : k >= x
            BY <2>3, <4>1, LargestOf
          <6> QED BY <2>3, <4>1, <6>1
        <5>2. s \ {i} \in SUBSET (1..i) /\ i \notin s \ {i}
          OBVIOUS
        <5>3. h[s \ {i}] = g[s \ {i}]
          BY <5>2
        <5>4. h[s] = MergeFrom(g[s \ {i}], recs[i])
          BY <4>1
        <5> HIDE DEF h
        <5> QED BY <4>1, <5>1, <5>3, <5>4
      <4>2. CASE i \notin s
        <5>1. s \in SUBSET (1..i - 1)
          BY <2>3, <4>2
        <5>2. h[s] = g[s] /\ h[s \ {Max(s)}] = g[s \ {Max(s)}]
          BY <4>2
        <5>3. g[s] = IF s = {} THEN base ELSE MergeFrom(g[s \ {Max(s)}], recs[Max(s)])
          BY <3>2, <5>1 DEF MergedUpTo
        <5> HIDE DEF h
        <5> QED BY <5>2, <5>3
      <4> QED BY <4>1, <4>2
    <3>4. DOMAIN h = SUBSET (1..i)
      OBVIOUS
    <3> HIDE DEF h
    <3>5. MergedUpTo(h, base, recs, i)
      BY <3>3, <3>4 DEF MergedUpTo
    <3> QED BY <2>3, <3>5
  <2> QED BY <2>4, <2>5
<1> QED BY <1>1, <1>2

LEMMA MergeRule ==
  ASSUME NEW base, NEW recs, NEW n \in Nat, DOMAIN recs = 1..n
  PROVE  \E g : MergedUpTo(g, base, recs, n) /\ FoldLeft(MergeFrom, base, recs) = g[1..n]
<1> DEFINE F == CHOOSE f : f = [s \in SUBSET (DOMAIN recs) |->
                                  IF s = {} THEN base ELSE MergeFrom(f[s \ {Max(s)}], recs[Max(s)])]
<1>1. PICK g : MergedUpTo(g, base, recs, n)
  BY MergedExists
<1> DEFINE h == [s \in SUBSET (DOMAIN recs) |-> g[s]]
<1>2. h = [s \in SUBSET (DOMAIN recs) |->
             IF s = {} THEN base ELSE MergeFrom(h[s \ {Max(s)}], recs[Max(s)])]
  <2>1. ASSUME NEW s \in SUBSET (DOMAIN recs)
        PROVE  g[s] = IF s = {} THEN base ELSE MergeFrom(h[s \ {Max(s)}], recs[Max(s)])
    <3>1. h[s \ {Max(s)}] = g[s \ {Max(s)}]
      OBVIOUS
    <3> HIDE DEF h
    <3> QED BY <1>1, <3>1 DEF MergedUpTo
  <2>2. h = [s \in SUBSET (DOMAIN recs) |-> g[s]]
    OBVIOUS
  <2> HIDE DEF h
  <2> QED BY <2>1, <2>2
<1>3. F = [s \in SUBSET (DOMAIN recs) |->
             IF s = {} THEN base ELSE MergeFrom(F[s \ {Max(s)}], recs[Max(s)])]
  <2> HIDE DEF h
  <2> QED BY <1>2
<1>4. FoldLeft(MergeFrom, base, recs) = F[DOMAIN recs]
  BY DEF FoldLeft, MapThenFoldSet
<1> HIDE DEF F
<1>5. MergedUpTo(F, base, recs, n)
  BY <1>3 DEF MergedUpTo
<1> QED BY <1>4, <1>5

-----------------------------------------------------------------------------
(* Bytes below 128. *)

\* The bytes of what is sent after the AUTH_RESPONSE are below 128, so a varint in them
\* is one byte.
Plain(b, n) == b \in [1..n -> 0..127]

LEMMA PlainLength == ASSUME NEW n \in Nat, NEW b, Plain(b, n) PROVE Len(b) = n
BY DEF Plain

LEMMA PlainByte ==
  ASSUME NEW n \in Nat, NEW b, Plain(b, n), NEW i \in 1..n
  PROVE  b[i] \in 0..127 /\ b[i] < 128 /\ b[i] \in Nat
<1>1. b[i] \in 0..127
  BY Zenon DEF Plain
<1> QED BY <1>1

LEMMA OneDigit ==
  ASSUME NEW c, DOMAIN c = {1}, NEW v \in 0..127, c[1] = v
  PROVE  FoldRight(LAMBDA d, x : (x * 128) + (d % 128), c, 0) = v
<1> DEFINE F == CHOOSE f : f = [s \in SUBSET (DOMAIN c) |->
                                  IF s = {} THEN 0 ELSE (f[s \ {Min(s)}] * 128) + (c[Min(s)] % 128)]
           h == [s \in SUBSET (DOMAIN c) |-> IF s = {} THEN 0 ELSE v]
<1>1. \A s \in SUBSET (DOMAIN c) : s = {} \/ s = {1}
  OBVIOUS
<1>2. Min({1}) = 1 /\ {1} \ {1} = {} /\ (0 * 128) + (v % 128) = v
  <2>1. {1} \subseteq Nat /\ {1} # {}
    OBVIOUS
  <2>2. Min({1}) \in {1}
    BY <2>1, SmallestOf
  <2> QED BY <2>2
<1>3. h = [s \in SUBSET (DOMAIN c) |->
             IF s = {} THEN 0 ELSE (h[s \ {Min(s)}] * 128) + (c[Min(s)] % 128)]
  <2>1. ASSUME NEW s \in SUBSET (DOMAIN c)
        PROVE  h[s] = IF s = {} THEN 0 ELSE (h[s \ {Min(s)}] * 128) + (c[Min(s)] % 128)
    <3>1. h[{}] = 0 /\ h[s] = IF s = {} THEN 0 ELSE v
      OBVIOUS
    <3> HIDE DEF h
    <3>2. CASE s = {}
      BY <3>1, <3>2
    <3>3. CASE s = {1}
      <4>1. Min(s) = 1 /\ s \ {Min(s)} = {} /\ s # {}
        BY <1>2, <3>3
      <4> QED BY <1>2, <3>1, <4>1
    <3> QED BY <1>1, <3>2, <3>3
  <2>2. h = [s \in SUBSET (DOMAIN c) |-> h[s]]
    OBVIOUS
  <2> HIDE DEF h
  <2> QED BY <2>1, <2>2
<1>4. F = [s \in SUBSET (DOMAIN c) |->
             IF s = {} THEN 0 ELSE (F[s \ {Min(s)}] * 128) + (c[Min(s)] % 128)]
  <2> HIDE DEF h
  <2> QED BY <1>3
<1>5. FoldRight(LAMBDA d, x : (x * 128) + (d % 128), c, 0) = F[DOMAIN c]
  BY DEF FoldRight, MapThenFoldSet
<1> HIDE DEF F
<1>6. F[{}] = 0
  BY <1>4
<1>7. F[{1}] = (F[{1} \ {Min({1})}] * 128) + (c[Min({1})] % 128)
  BY <1>4
<1>8. F[{1}] = (0 * 128) + (c[1] % 128)
  BY <1>2, <1>6, <1>7, ZenonT(30)
<1> QED BY <1>2, <1>5, <1>8

LEMMA PlainVarint ==
  ASSUME NEW n \in Nat, NEW b, Plain(b, n), NEW i \in 1..n + 1
  PROVE  VarintAt(b, i) = IF i > n THEN <<>> ELSE <<[value |-> b[i], next |-> i + 1]>>
<1> DEFINE ends == {j \in i..Len(b) : b[j] < 128}
<1>1. Len(b) = n
  BY PlainLength
<1>2. VarintAt(b, i) = VarintTo(b, i, ends)
  BY DEF VarintAt
<1>3. CASE i > n
  <2>1. ends = {}
    BY <1>1, <1>3
  <2> HIDE DEF ends
  <2> QED BY <1>2, <1>3, <2>1 DEF VarintTo
<1>4. CASE ~ (i > n)
  <2>1. i \in 1..n /\ i \in ends /\ ends \subseteq Nat /\ \A j \in ends : i <= j
    <3>1. i \in 1..n /\ i \in i..n
      BY <1>4
    <3>2. b[i] < 128
      BY <3>1, PlainByte
    <3>3. \A j \in i..n : j \in Nat /\ i <= j
      OBVIOUS
    <3> QED BY <1>1, <3>1, <3>2, <3>3
  <2> HIDE DEF ends
  <2>2. Min(ends) = i
    <3>1. PICK k \in Nat : k = Min(ends) /\ k \in ends /\ \A j \in ends : k <= j
      BY <2>1, SmallestOf
    <3> QED BY <2>1, <3>1
  <2>3. PICK v \in 0..127 : v = b[i]
    BY <2>1, PlainByte
  <2> DEFINE c == SubSeq(b, i, i)
  <2>4. DOMAIN c = {1} /\ c[1] = v
    BY <2>1, <2>3
  <2>5. VarintTo(b, i, ends) =
          <<[value |-> FoldRight(LAMBDA d, x : (x * 128) + (d % 128), c, 0), next |-> i + 1]>>
    BY <2>1, <2>2 DEF VarintTo
  <2> HIDE DEF c
  <2>6. FoldRight(LAMBDA d, x : (x * 128) + (d % 128), c, 0) = v
    BY <2>4, OneDigit
  <2> QED BY <1>2, <1>4, <2>3, <2>5, <2>6
<1> QED BY <1>3, <1>4

\* The record at a position.
Step(b, i) == Record(b, VarintAt(b, i))

LEMMA StepTag ==
  ASSUME NEW n \in Nat, NEW b, Plain(b, n), NEW i \in 1..n
  PROVE  /\ b[i] < 8 => Step(b, i) = <<>>
         /\ ~ (b[i] < 8) => Step(b, i) = Tagged(b[i], Payload(b[i] % 8, b, i + 1))
<1> DEFINE tag == <<[value |-> b[i], next |-> i + 1]>>
<1>1. VarintAt(b, i) = tag
  <2>1. i \in 1..n + 1 /\ ~ (i > n)
    OBVIOUS
  <2> QED BY <2>1, PlainVarint
<1>2. tag # <<>> /\ tag[1].value = b[i] /\ tag[1].next = i + 1
  OBVIOUS
<1> HIDE DEF tag
<1> QED BY <1>1, <1>2 DEF Step, Record

\* A number after the tag.
LEMMA StepNumber ==
  ASSUME NEW n \in Nat, NEW b, Plain(b, n), NEW i \in 1..n, ~ (b[i] < 8), b[i] % 8 = 0
  PROVE  /\ i = n => Step(b, i) = <<>>
         /\ i < n => Step(b, i) = <<[tag |-> b[i], value |-> b[i + 1], next |-> i + 2]>>
<1>1. Step(b, i) = Tagged(b[i], Payload(0, b, i + 1))
  BY StepTag
<1>2. Payload(0, b, i + 1) = VarintAt(b, i + 1)
  BY DEF Payload
<1>3. PICK k \in 1..n + 1 : k = i + 1
  OBVIOUS
<1>4. VarintAt(b, k) = IF k > n THEN <<>> ELSE <<[value |-> b[k], next |-> k + 1]>>
  BY PlainVarint
<1>5. i = n => VarintAt(b, k) = <<>>
  BY <1>3, <1>4
<1>6. i < n => VarintAt(b, k) = <<[value |-> b[k], next |-> k + 1]>>
  BY <1>3, <1>4
<1>7. i < n => Step(b, i) = <<[tag |-> b[i], value |-> b[k], next |-> k + 1]>>
  BY <1>1, <1>2, <1>3, <1>6 DEF Tagged
<1> QED BY <1>1, <1>2, <1>3, <1>5, <1>7 DEF Tagged

\* Bytes of a length after the tag, or that many bytes.
LEMMA StepSlice ==
  ASSUME NEW n \in Nat, NEW b, Plain(b, n), NEW p \in 1..n, ~ (b[p] < 8),
         NEW from \in Nat, NEW count \in Nat, Payload(b[p] % 8, b, p + 1) = Slice(b, from, count)
  PROVE  /\ from + count > n + 1 => Step(b, p) = <<>>
         /\ from + count <= n + 1 =>
              Step(b, p) = <<[tag |-> b[p], value |-> SubSeq(b, from, from + count - 1), next |-> from + count]>>
<1>1. Step(b, p) = Tagged(b[p], Slice(b, from, count))
  BY StepTag
<1>2. Len(b) = n
  BY PlainLength
<1>3. CASE from + count > n + 1
  BY <1>1, <1>2, <1>3 DEF Slice, Tagged
<1>4. CASE ~ (from + count > n + 1)
  <2> DEFINE piece == SubSeq(b, from, from + count - 1)
             end == from + count
  <2>1. Slice(b, from, count) = <<[value |-> piece, next |-> end]>>
    BY <1>2, <1>4 DEF Slice
  <2> HIDE DEF piece, end
  <2>2. Step(b, p) = <<[tag |-> b[p], value |-> piece, next |-> end]>>
    BY <1>1, <2>1 DEF Tagged
  <2>3. ~ (from + count > n + 1) /\ from + count \in Nat
    BY <1>4
  <2> QED BY <2>2, <2>3 DEF piece, end
<1> QED BY <1>3, <1>4

LEMMA StepBytes ==
  ASSUME NEW n \in Nat, NEW b, Plain(b, n), NEW i \in 1..n, ~ (b[i] < 8), b[i] % 8 = 2
  PROVE  /\ i = n => Step(b, i) = <<>>
         /\ i < n /\ i + 2 + b[i + 1] > n + 1 => Step(b, i) = <<>>
         /\ i < n /\ i + 2 + b[i + 1] <= n + 1 =>
              Step(b, i) = <<[tag |-> b[i], value |-> SubSeq(b, i + 2, i + 1 + b[i + 1]),
                              next |-> i + 2 + b[i + 1]]>>
<1>1. Payload(b[i] % 8, b, i + 1) = Measured(b, VarintAt(b, i + 1))
  BY DEF Payload
<1>2. PICK k \in 1..n + 1 : k = i + 1
  OBVIOUS
<1>3. VarintAt(b, k) = IF k > n THEN <<>> ELSE <<[value |-> b[k], next |-> k + 1]>>
  BY PlainVarint
<1>4. CASE i = n
  <2>1. VarintAt(b, k) = <<>>
    BY <1>2, <1>3, <1>4
  <2>2. Step(b, i) = Tagged(b[i], <<>>)
    BY <1>1, <1>2, <2>1, StepTag DEF Measured
  <2> QED BY <1>4, <2>2 DEF Tagged
<1>5. CASE i < n
  <2>1. PICK len \in Nat : len = b[k]
    <3>1. k \in 1..n
      BY <1>2, <1>5
    <3> QED BY <3>1, PlainByte
  <2>2. PICK j \in Nat : j = k + 1
    OBVIOUS
  <2>3. VarintAt(b, k) = <<[value |-> len, next |-> j]>>
    BY <1>2, <1>3, <1>5, <2>1, <2>2
  <2>4. Payload(b[i] % 8, b, i + 1) = Slice(b, j, len)
    <3> DEFINE v == <<[value |-> len, next |-> j]>>
    <3>1. v # <<>> /\ v[1].next = j /\ v[1].value = len
      OBVIOUS
    <3>2. VarintAt(b, i + 1) = v
      BY <1>2, <2>3
    <3> HIDE DEF v
    <3> QED BY <1>1, <3>1, <3>2 DEF Measured
  <2>5. /\ j + len > n + 1 => Step(b, i) = <<>>
        /\ j + len <= n + 1 =>
              Step(b, i) = <<[tag |-> b[i], value |-> SubSeq(b, j, j + len - 1), next |-> j + len]>>
    <3> DEFINE P == Payload(b[i] % 8, b, i + 1) = Slice(b, j, len)
               Q == /\ j + len > n + 1 => Step(b, i) = <<>>
                    /\ j + len <= n + 1 => Step(b, i) = <<[tag |-> b[i], value |-> SubSeq(b, j, j + len - 1), next |-> j + len]>>
    <3>1. P => Q
      BY StepSlice
    <3> QED BY <2>4, <3>1
  <2>6. /\ j = i + 2 /\ b[i + 1] = len
        /\ j + len = i + 2 + len /\ j + len - 1 = i + 1 + len
    BY <1>2, <2>1, <2>2
  <2> QED BY <1>5, <2>5, <2>6
<1> QED BY <1>4, <1>5

LEMMA StepFixed ==
  ASSUME NEW n \in Nat, NEW b, Plain(b, n), NEW i \in 1..n, ~ (b[i] < 8),
         NEW len \in {4, 8}, b[i] % 8 = IF len = 4 THEN 5 ELSE 1
  PROVE  /\ i + len > n => Step(b, i) = <<>>
         /\ i + len <= n => Step(b, i) = <<[tag |-> b[i], value |-> SubSeq(b, i + 1, i + len),
                                            next |-> i + 1 + len]>>
<1>1. Payload(b[i] % 8, b, i + 1) = Slice(b, i + 1, len)
  BY DEF Payload
<1>2. PICK j \in Nat : j = i + 1
  OBVIOUS
<1>3. /\ j + len > n + 1 => Step(b, i) = <<>>
      /\ j + len <= n + 1 =>
           Step(b, i) = <<[tag |-> b[i], value |-> SubSeq(b, j, j + len - 1), next |-> j + len]>>
  BY <1>1, <1>2, StepSlice
<1>4. j + len - 1 = i + len /\ (j + len > n + 1 <=> i + len > n) /\ (j + len <= n + 1 <=> i + len <= n)
  BY <1>2
<1> QED BY <1>2, <1>3, <1>4

\* Groups, and what is no wire type.
LEMMA StepOther ==
  ASSUME NEW n \in Nat, NEW b, Plain(b, n), NEW i \in 1..n, ~ (b[i] < 8),
         b[i] % 8 \notin {0, 1, 2, 5}
  PROVE  Step(b, i) = <<>>
<1>1. Payload(b[i] % 8, b, i + 1) = <<>>
  BY DEF Payload
<1> QED BY <1>1, StepTag DEF Tagged

\* So the next record, if there is one, is further on, and not after the end.
LEMMA StepGoesOn ==
  ASSUME NEW n \in Nat, NEW b, Plain(b, n), NEW i \in 1..n
  PROVE  Step(b, i) = <<>> \/ Step(b, i)[1].next \in i + 1..n + 1
<1>1. PICK t \in 0..127 : t = b[i]
  BY PlainByte
<1>2. CASE t < 8
  BY <1>1, <1>2, StepTag
<1>3. CASE ~ (t < 8) /\ t % 8 = 0
  <2>1. i < n => Step(b, i)[1].next = i + 2
    BY <1>1, <1>3, StepNumber
  <2>2. i = n => Step(b, i) = <<>>
    BY <1>1, <1>3, StepNumber
  <2> QED BY <2>1, <2>2
<1>4. CASE ~ (t < 8) /\ t % 8 = 2
  <2>1. i = n => Step(b, i) = <<>>
    BY <1>1, <1>4, StepBytes
  <2>2. CASE i < n
    <3>1. PICK len \in Nat : len = b[i + 1]
      <4>1. i + 1 \in 1..n
        BY <2>2
      <4> QED BY <4>1, PlainByte
    <3>2. i + 2 + len > n + 1 => Step(b, i) = <<>>
      BY <1>1, <1>4, <2>2, <3>1, StepBytes
    <3>3. i + 2 + len <= n + 1 => Step(b, i)[1].next = i + 2 + len
      BY <1>1, <1>4, <2>2, <3>1, StepBytes
    <3> QED BY <3>2, <3>3
  <2> QED BY <2>1, <2>2
<1>5. CASE ~ (t < 8) /\ t % 8 \in {1, 5}
  <2>1. PICK len \in {4, 8} : t % 8 = IF len = 4 THEN 5 ELSE 1
    BY <1>5
  <2>2. i + len > n => Step(b, i) = <<>>
    BY <1>1, <1>5, <2>1, StepFixed
  <2>3. i + len <= n => Step(b, i)[1].next = i + 1 + len
    BY <1>1, <1>5, <2>1, StepFixed
  <2> QED BY <2>2, <2>3
<1>6. CASE ~ (t < 8) /\ t % 8 \notin {0, 1, 2, 5}
  BY <1>1, <1>6, StepOther
<1> QED BY <1>2, <1>3, <1>4, <1>5, <1>6

-----------------------------------------------------------------------------
(* The records of a message. *)

\* g holds the records from every position after the first k on.
ReadDownTo(g, b, n, k) ==
  /\ DOMAIN g = k..n + 1
  /\ \A i \in k..n + 1 :
       g[i] = IF i > n THEN <<<<>>>>
              ELSE IF Step(b, i) = <<>> THEN <<>> ELSE Before(Step(b, i)[1], g[Step(b, i)[1].next])

LEMMA ReadExists ==
  ASSUME NEW n \in Nat, NEW b, Plain(b, n)
  PROVE  \E g : ReadDownTo(g, b, n, 1)
<1> DEFINE bad == {d \in Nat : d <= n /\ ~ \E g : ReadDownTo(g, b, n, n + 1 - d)}
<1>1. CASE bad = {}
  <2>1. n \notin bad /\ n \in Nat /\ n + 1 - n = 1
    BY <1>1
  <2> QED BY <2>1
<1>2. CASE bad # {}
  <2>1. Min(bad) \in bad /\ \A x \in bad : Min(bad) <= x
    <3>1. bad \subseteq Nat
      OBVIOUS
    <3> HIDE DEF bad
    <3> QED BY <1>2, <3>1, SmallestOf
  <2>2. PICK d \in bad : \A x \in bad : d <= x
    BY <2>1
  <2>3. PICK k \in Nat : k = n + 1 - d /\ k \in 1..n + 1
    BY <2>2
  <2>4. d \in Nat /\ ~ \E g : ReadDownTo(g, b, n, k)
    BY <2>2, <2>3
  <2>5. CASE d = 0
    <3> DEFINE g == [i \in n + 1..n + 1 |-> <<<<>>>>]
    <3>1. \A i \in n + 1..n + 1 : i > n /\ g[i] = <<<<>>>>
      OBVIOUS
    <3>2. ReadDownTo(g, b, n, n + 1)
      BY <3>1 DEF ReadDownTo
    <3>3. k = n + 1
      BY <2>3, <2>5
    <3> QED BY <2>4, <3>2, <3>3
  <2>6. CASE d # 0
    <3>1. d - 1 \notin bad /\ d - 1 \in Nat /\ d - 1 <= n /\ n + 1 - (d - 1) = k + 1 /\ k <= n
      BY <2>2, <2>3, <2>4, <2>6
    <3>2. PICK g : ReadDownTo(g, b, n, k + 1)
      BY <3>1
    <3> DEFINE r == Step(b, k)
               h == [i \in k..n + 1 |->
                       IF i > k THEN g[i] ELSE IF r = <<>> THEN <<>> ELSE Before(r[1], g[r[1].next])]
    <3>3. ASSUME NEW i \in k..n + 1
          PROVE  h[i] = IF i > n THEN <<<<>>>>
                        ELSE IF Step(b, i) = <<>> THEN <<>>
                        ELSE Before(Step(b, i)[1], h[Step(b, i)[1].next])
      <4>1. i \in Nat /\ i >= 1 /\ i >= k /\ i <= n + 1
        BY <2>3
      <4>2. CASE i > n
        <5>1. i \in k + 1..n + 1 /\ h[i] = g[i]
          BY <2>3, <3>1, <4>1, <4>2
        <5>2. g[i] = <<<<>>>>
          BY <3>2, <4>2, <5>1 DEF ReadDownTo
        <5> HIDE DEF h
        <5> QED BY <4>2, <5>1, <5>2
      <4>3. CASE ~ (i > n)
        <5>1. i \in 1..n
          BY <4>1, <4>3
        <5>2. Step(b, i) = <<>> \/ Step(b, i)[1].next \in i + 1..n + 1
          BY <5>1, StepGoesOn
        <5>3. CASE Step(b, i) = <<>>
          <6>1. CASE i = k
            BY <4>3, <5>3, <6>1
          <6>2. CASE i # k
            <7>1. i \in k + 1..n + 1 /\ h[i] = g[i]
              BY <2>3, <4>1, <6>2
            <7>2. g[i] = <<>>
              BY <3>2, <4>3, <5>3, <7>1 DEF ReadDownTo
            <7> HIDE DEF h
            <7> QED BY <4>3, <5>3, <7>1, <7>2
          <6> QED BY <6>1, <6>2
        <5>4. CASE Step(b, i) # <<>>
          <6> DEFINE next == Step(b, i)[1].next
          <6>1. next \in i + 1..n + 1
            BY <5>2, <5>4
          <6> HIDE DEF next
          <6>2. next \in k..n + 1 /\ next > k
            BY <2>3, <4>1, <6>1
          <6>3. h[next] = g[next]
            BY <6>2
          <6>4. h[i] = Before(Step(b, i)[1], g[next])
            <7>1. CASE i = k
              BY <5>4, <7>1 DEF next
            <7>2. CASE i # k
              <8>1. i \in k + 1..n + 1 /\ h[i] = g[i]
                BY <2>3, <4>1, <7>2
              <8>2. g[i] = Before(Step(b, i)[1], g[next])
                BY <3>2, <4>3, <5>4, <8>1 DEF ReadDownTo, next
              <8> QED BY <8>1, <8>2
            <7> QED BY <7>1, <7>2
          <6> HIDE DEF h
          <6>5. h[i] = Before(Step(b, i)[1], h[next])
            BY <6>3, <6>4
          <6> QED BY <4>3, <5>4, <6>5 DEF next
        <5> QED BY <5>3, <5>4
      <4> QED BY <4>2, <4>3
    <3>4. DOMAIN h = k..n + 1
      OBVIOUS
    <3> HIDE DEF h
    <3>5. ReadDownTo(h, b, n, k)
      BY <3>3, <3>4 DEF ReadDownTo
    <3> QED BY <2>4, <3>5
  <2> QED BY <2>5, <2>6
<1> QED BY <1>1, <1>2

LEMMA ReadRule ==
  ASSUME NEW n \in Nat, NEW b, Plain(b, n)
  PROVE  \E g : ReadDownTo(g, b, n, 1) /\ Records(b) = g[1]
<1> DEFINE D == 1..Len(b) + 1
           F == CHOOSE f : f = [i \in D |->
                  IF i > Len(b) THEN <<<<>>>>
                  ELSE IF Step(b, i) = <<>> THEN <<>> ELSE Before(Step(b, i)[1], f[Step(b, i)[1].next])]
<1>1. Len(b) = n
  BY PlainLength
<1>2. PICK g : ReadDownTo(g, b, n, 1)
  BY ReadExists
<1> DEFINE h == [i \in D |-> g[i]]
<1>3. h = [i \in D |->
             IF i > Len(b) THEN <<<<>>>>
             ELSE IF Step(b, i) = <<>> THEN <<>> ELSE Before(Step(b, i)[1], h[Step(b, i)[1].next])]
  <2>1. ASSUME NEW i \in D
        PROVE  g[i] = IF i > Len(b) THEN <<<<>>>>
                      ELSE IF Step(b, i) = <<>> THEN <<>>
                      ELSE Before(Step(b, i)[1], h[Step(b, i)[1].next])
    <3>1. i \in 1..n + 1
      BY <1>1
    <3>2. g[i] = IF i > n THEN <<<<>>>>
                 ELSE IF Step(b, i) = <<>> THEN <<>> ELSE Before(Step(b, i)[1], g[Step(b, i)[1].next])
      BY <1>2, <3>1 DEF ReadDownTo
    <3>3. ~ (i > n) /\ Step(b, i) # <<>> => h[Step(b, i)[1].next] = g[Step(b, i)[1].next]
      <4> SUFFICES ASSUME ~ (i > n), Step(b, i) # <<>>
                   PROVE  h[Step(b, i)[1].next] = g[Step(b, i)[1].next]
        OBVIOUS
      <4> DEFINE next == Step(b, i)[1].next
      <4>1. i \in 1..n
        BY <3>1
      <4>2. next \in i + 1..n + 1
        BY <4>1, StepGoesOn
      <4> HIDE DEF next
      <4>3. next \in D
        BY <1>1, <4>1, <4>2
      <4>4. h[next] = g[next]
        BY <4>3
      <4> QED BY <4>4 DEF next
    <3> HIDE DEF h, D
    <3> QED BY <1>1, <3>2, <3>3
  <2>2. h = [i \in D |-> g[i]]
    OBVIOUS
  <2> HIDE DEF h, D
  <2> QED BY <2>1, <2>2
<1>4. F = [i \in D |->
             IF i > Len(b) THEN <<<<>>>>
             ELSE IF Step(b, i) = <<>> THEN <<>> ELSE Before(Step(b, i)[1], F[Step(b, i)[1].next])]
  <2> HIDE DEF h, D
  <2> QED BY <1>3
<1>5. Records(b) = F[1]
  BY DEF Records, Step
<1> HIDE DEF F
<1>6. ReadDownTo(F, b, n, 1)
  BY <1>1, <1>4 DEF ReadDownTo
<1> QED BY <1>5, <1>6

-----------------------------------------------------------------------------
(* A message of these records. *)

LEMMA RequestTags ==
  /\ \A n \in DOMAIN ServerRequest : ServerRequest[n].label # "repeated"
  /\ \A n \in DOMAIN ServerRequest : Tag(ServerRequest[n]) \in Nat
  /\ \A n \in DOMAIN ServerRequest : ServerRequest[n].kind \in DOMAIN Nested => Tag(ServerRequest[n]) % 8 = 2
  /\ \A n \in DOMAIN ServerRequest : Tag(ServerRequest[n]) = 42 <=> n = "bidResponse"
  /\ \A n \in DOMAIN ServerRequest : Tag(ServerRequest[n]) = 8 <=> n = "msgType"
<1>1. /\ "u32" \notin DOMAIN Nested /\ "enum" \notin DOMAIN Nested
      /\ \A k \in DOMAIN Nested : k \notin {"u32", "enum"}
  BY DEF Nested
<1>2. \A n \in DOMAIN ServerRequest :
        \/ n = "msgType" /\ ServerRequest[n] = Required(1, "enum")
        \/ n = "gameEnd" /\ ServerRequest[n] = Optional(2, "GameEnd")
        \/ n = "gameState" /\ ServerRequest[n] = Optional(3, "GameState")
        \/ n = "authResponse" /\ ServerRequest[n] = Optional(4, "AuthResponse")
        \/ n = "bidResponse" /\ ServerRequest[n] = Optional(5, "BidResponse")
        \/ n = "bidReject" /\ ServerRequest[n] = Optional(6, "BidReject")
        \/ n = "bidResult" /\ ServerRequest[n] = Optional(7, "BidResult")
        \/ n = "authReject" /\ ServerRequest[n] = Optional(8, "AuthReject")
        \/ n = "gameStart" /\ ServerRequest[n] = Optional(9, "GameStart")
        \/ n = "roundStart" /\ ServerRequest[n] = Optional(10, "RoundStart")
        \/ n = "version_major" /\ ServerRequest[n] = Optional(11, "u32")
        \/ n = "version_minor" /\ ServerRequest[n] = Optional(12, "u32")
  BY DEF ServerRequest
<1>3. ASSUME NEW n \in DOMAIN ServerRequest
      PROVE  /\ ServerRequest[n].label # "repeated"
             /\ Tag(ServerRequest[n]) \in Nat
             /\ ServerRequest[n].kind \in DOMAIN Nested => Tag(ServerRequest[n]) % 8 = 2
             /\ Tag(ServerRequest[n]) = 42 <=> n = "bidResponse"
             /\ Tag(ServerRequest[n]) = 8 <=> n = "msgType"
  <2>1. PICK f : f = ServerRequest[n]
    OBVIOUS
  <2>2. \/ n = "msgType" /\ f.num = 1 /\ f.kind = "enum" /\ f.label = "required"
        \/ f.kind = "u32" /\ f.label = "optional" /\ n \notin {"msgType", "bidResponse"} /\ f.num \in 11..12
        \/ n = "bidResponse" /\ f.num = 5 /\ f.kind \notin {"u32", "enum"} /\ f.label = "optional"
        \/ /\ n \notin {"msgType", "bidResponse"} /\ f.kind \notin {"u32", "enum"} /\ f.label = "optional"
           /\ f.num \in 2..10 /\ f.num # 5
    BY <1>2, <2>1 DEF Optional, Required
  <2>3. Tag(f) = f.num * 8 + (IF f.kind \in {"u32", "enum"} THEN 0 ELSE 2)
    BY DEF Tag
  <2>4. /\ f.label # "repeated" /\ Tag(f) \in Nat
        /\ f.kind \in DOMAIN Nested => Tag(f) % 8 = 2
        /\ Tag(f) = 42 <=> n = "bidResponse"
        /\ Tag(f) = 8 <=> n = "msgType"
    <3>1. CASE n = "msgType" /\ f.num = 1 /\ f.kind = "enum" /\ f.label = "required"
      <4>1. Tag(f) = 8
        BY <2>3, <3>1
      <4> QED BY <1>1, <3>1, <4>1
    <3>2. CASE f.kind = "u32" /\ f.label = "optional" /\ n \notin {"msgType", "bidResponse"} /\ f.num \in 11..12
      <4>1. Tag(f) \in 88..96
        BY <2>3, <3>2
      <4> QED BY <1>1, <3>2, <4>1
    <3>3. CASE n = "bidResponse" /\ f.num = 5 /\ f.kind \notin {"u32", "enum"} /\ f.label = "optional"
      <4>1. Tag(f) = 42
        BY <2>3, <3>3
      <4> QED BY <3>3, <4>1
    <3>4. CASE /\ n \notin {"msgType", "bidResponse"} /\ f.kind \notin {"u32", "enum"} /\ f.label = "optional"
               /\ f.num \in 2..10 /\ f.num # 5
      <4>1. PICK k \in 2..10 : f.num = k /\ k # 5
        BY <3>4
      <4>2. Tag(f) = k * 8 + 2
        BY <2>3, <3>4, <4>1
      <4>3. Tag(f) \in Nat /\ Tag(f) % 8 = 2 /\ Tag(f) # 42 /\ Tag(f) # 8
        BY <4>1, <4>2
      <4> QED BY <3>4, <4>3
    <3> QED BY <2>2, <3>1, <3>2, <3>3, <3>4
  <2> QED BY <2>1, <2>4
<1> QED BY <1>3

\* What one record changes.
HasFields(q) == DOMAIN q = DOMAIN ServerRequest

LEMMA ScalarMerged ==
  ASSUME NEW q, NEW r, r.tag \in Nat
  PROVE  MergeScalar(ServerRequest, <<q>>, r)
           = <<[n \in DOMAIN ServerRequest |-> IF Tag(ServerRequest[n]) = r.tag THEN <<r.value>> ELSE q[n]]>>
<1> DEFINE field == {n \in DOMAIN ServerRequest : Tag(ServerRequest[n]) = r.tag}
           packed == {n \in DOMAIN ServerRequest :
                        ServerRequest[n].label = "repeated" /\ ServerRequest[n].num * 8 + 2 = r.tag}
<1>1. packed = {} /\ \A n \in DOMAIN ServerRequest : ServerRequest[n].label # "repeated"
  BY RequestTags
<1>2. \A n \in DOMAIN ServerRequest : n \in field <=> Tag(ServerRequest[n]) = r.tag
  OBVIOUS
<1>3. <<q>> # <<>> /\ <<q>>[1] = q
  OBVIOUS
<1>4. MergeScalar(ServerRequest, <<q>>, r) =
        IF <<q>> = <<>> \/ (packed # {} /\ Unpack(r.value) = <<>>) THEN <<>>
        ELSE <<[n \in DOMAIN ServerRequest |->
                  IF n \in packed THEN <<q>>[1][n] \o Unpack(r.value)[1]
                  ELSE IF n \notin field THEN <<q>>[1][n]
                  ELSE IF ServerRequest[n].label = "repeated" THEN Append(<<q>>[1][n], r.value)
                  ELSE <<r.value>>]>>
  BY DEF MergeScalar
<1> HIDE DEF field, packed
<1>5. MergeScalar(ServerRequest, <<q>>, r) =
        <<[n \in DOMAIN ServerRequest |-> IF n \notin field THEN q[n] ELSE <<r.value>>]>>
  BY <1>1, <1>3, <1>4
<1> QED BY <1>2, <1>5

\* A number: nothing but a field of its tag changes, and no field's tag is that of bidResponse.
LEMMA NumberMerged ==
  ASSUME NEW q, NEW r, r.tag \in Nat, r.tag % 8 = 0
  PROVE  \E p : /\ MergeFrom(<<q>>, r) = <<p>> /\ p.bidResponse = q.bidResponse
                /\ HasFields(p)
                /\ r.tag = 8 => p.msgType = <<r.value>>
<1> DEFINE p == [n \in DOMAIN ServerRequest |-> IF Tag(ServerRequest[n]) = r.tag THEN <<r.value>> ELSE q[n]]
<1>1. {n \in DOMAIN ServerRequest : ServerRequest[n].kind \in DOMAIN Nested /\ Tag(ServerRequest[n]) = r.tag} = {}
  BY RequestTags
<1>2. MergeFrom(<<q>>, r) = MergeScalar(ServerRequest, <<q>>, r)
  BY <1>1 DEF MergeFrom
<1>3. MergeFrom(<<q>>, r) = <<p>>
  BY <1>2, ScalarMerged
<1>4. "bidResponse" \in DOMAIN ServerRequest /\ "msgType" \in DOMAIN ServerRequest
  BY DEF ServerRequest
<1>5. Tag(ServerRequest["bidResponse"]) = 42 /\ Tag(ServerRequest["msgType"]) = 8
  BY <1>4, RequestTags
<1>6. p["bidResponse"] = q["bidResponse"] /\ (r.tag = 8 => p["msgType"] = <<r.value>>)
  <2>1. r.tag # 42
    OBVIOUS
  <2> QED BY <1>4, <1>5, <2>1
<1>7. HasFields(p)
  BY DEF HasFields
<1> HIDE DEF p
<1> QED BY <1>3, <1>6, <1>7

\* Bytes: msgType stays as it is.
LEMMA BytesMerged ==
  ASSUME NEW q, NEW r, r.tag \in Nat, r.tag % 8 = 2
  PROVE  MergeFrom(<<q>>, r) = <<>> \/ \E p : MergeFrom(<<q>>, r) = <<p>> /\ p.msgType = q.msgType
<1> DEFINE nested == {n \in DOMAIN ServerRequest :
                        ServerRequest[n].kind \in DOMAIN Nested /\ Tag(ServerRequest[n]) = r.tag}
<1>0. "msgType" \in DOMAIN ServerRequest /\ <<q>> # <<>> /\ <<q>>[1] = q
  BY DEF ServerRequest
<1>1. Tag(ServerRequest["msgType"]) = 8 /\ r.tag # 8
  BY <1>0, RequestTags
<1>2. CASE nested = {}
  <2> DEFINE p == [n \in DOMAIN ServerRequest |-> IF Tag(ServerRequest[n]) = r.tag THEN <<r.value>> ELSE q[n]]
  <2>1. MergeFrom(<<q>>, r) = MergeScalar(ServerRequest, <<q>>, r)
    BY <1>2 DEF MergeFrom
  <2>2. MergeFrom(<<q>>, r) = <<p>>
    BY <2>1, ScalarMerged
  <2>3. p["msgType"] = q["msgType"]
    BY <1>0, <1>1
  <2> HIDE DEF p
  <2> QED BY <2>2, <2>3
<1>3. CASE nested # {}
  <2>1. PICK n \in nested : n = CHOOSE x \in nested : TRUE
    BY <1>3
  <2>2. n # "msgType"
    BY <1>1, <2>1
  <2>3. MergeFrom(<<q>>, r) = MergeNested(q, n, r.value)
    BY <1>0, <1>3, <2>1 DEF MergeFrom
  <2> HIDE DEF nested
  <2>4. PICK merged : MergeNested(q, n, r.value) = Replace(q, n, merged)
    BY DEF MergeNested
  <2>5. Replace(q, n, merged) = <<>> \/ Replace(q, n, merged) = <<[q EXCEPT ![n] = merged]>>
    BY DEF Replace
  <2>6. CASE Replace(q, n, merged) = <<[q EXCEPT ![n] = merged]>>
    <3> DEFINE p == [q EXCEPT ![n] = merged]
    <3>1. p["msgType"] = q["msgType"]
      BY <2>2
    <3> HIDE DEF p
    <3> QED BY <2>3, <2>4, <2>6, <3>1 DEF p
  <2> QED BY <2>3, <2>4, <2>5, <2>6
<1> QED BY <1>2, <1>3

\* Where the message ends, and where a record is; an error anywhere is one of the whole.
LEMMA ReadEnd ==
  ASSUME NEW n \in Nat, NEW b, NEW g, ReadDownTo(g, b, n, 1)
  PROVE  g[n + 1] = <<<<>>>>
<1>1. n + 1 \in 1..n + 1 /\ n + 1 > n
  OBVIOUS
<1> QED BY <1>1 DEF ReadDownTo

LEMMA ReadStuck ==
  ASSUME NEW n \in Nat, NEW b, NEW g, ReadDownTo(g, b, n, 1), NEW i \in 1..n, Step(b, i) = <<>>
  PROVE  g[i] = <<>>
<1>1. i \in 1..n + 1 /\ ~ (i > n)
  OBVIOUS
<1> QED BY <1>1 DEF ReadDownTo

LEMMA ReadTogether ==
  ASSUME NEW n \in Nat, NEW b, NEW g, ReadDownTo(g, b, n, 1), NEW i \in 1..n,
         NEW r, Step(b, i) = <<r>>, NEW j, r.next = j
  PROVE  g[i] = Before(r, g[j])
<1>1. i \in 1..n + 1 /\ ~ (i > n) /\ <<r>> # <<>> /\ <<r>>[1] = r
  OBVIOUS
<1> QED BY <1>1 DEF ReadDownTo

LEMMA ReadLost ==
  ASSUME NEW n \in Nat, NEW b, NEW g, ReadDownTo(g, b, n, 1), NEW i \in 1..n,
         NEW r, Step(b, i) = <<r>>, NEW j, r.next = j, g[j] = <<>>
  PROVE  g[i] = <<>>
<1>1. g[i] = Before(r, g[j])
  BY ReadTogether
<1> QED BY <1>1 DEF Before

LEMMA ReadOn ==
  ASSUME NEW n \in Nat, NEW b, NEW g, ReadDownTo(g, b, n, 1), NEW i \in 1..n,
         NEW r, Step(b, i) = <<r>>, NEW j, r.next = j, NEW rest, g[j] = <<rest>>
  PROVE  g[i] = <<<<r>> \o rest>>
<1>1. <<rest>> # <<>> /\ <<rest>>[1] = rest
  OBVIOUS
<1>2. g[i] = Before(r, g[j])
  BY ReadTogether
<1> QED BY <1>1, <1>2 DEF Before

\* The bytes of a BID_RESPONSE's money.
MoneyBytes(m) == <<8, m>>

LEMMA MoneyRecords ==
  ASSUME NEW m \in 0..127
  PROVE  \E r : Records(MoneyBytes(m)) = <<<<r>>>> /\ r.tag = 8 /\ r.value = m
<1> DEFINE b == <<8, m>>
<1>1. b[1] = 8 /\ b[2] = m
  OBVIOUS
<1>2. PICK n \in Nat : n = 2
  OBVIOUS
<1>3. Plain(b, n)
  <2>1. b \in [1..2 -> 0..127]
    OBVIOUS
  <2> HIDE DEF b
  <2> QED BY <1>2, <2>1 DEF Plain
<1>4. MoneyBytes(m) = b
  BY DEF MoneyBytes
<1> HIDE DEF b
<1>5. PICK g : ReadDownTo(g, b, n, 1) /\ Records(b) = g[1]
  BY <1>3, ReadRule
<1>6. PICK i \in 1..n : i = 1
  BY <1>2
<1> DEFINE r == [tag |-> b[i], value |-> b[i + 1], next |-> i + 2]
<1>7. Step(b, i) = <<r>>
  <2>1. ~ (b[i] < 8) /\ b[i] % 8 = 0 /\ i < n
    BY <1>1, <1>2, <1>6
  <2> QED BY <1>3, <2>1, StepNumber
<1>8. r.next = n + 1 /\ r.tag = 8 /\ r.value = m
  BY <1>1, <1>2, <1>6
<1> HIDE DEF r
<1>9. g[n + 1] = <<<<>>>>
  BY <1>5, ReadEnd
<1>10. g[i] = <<<<r>> \o <<>>>>
  <2>1. PICK j : j = n + 1
    OBVIOUS
  <2>2. r.next = j /\ g[j] = <<<<>>>>
    BY <1>8, <1>9, <2>1
  <2> QED BY <1>5, <1>7, <2>2, ReadOn
<1>11. <<r>> \o <<>> = <<r>>
  OBVIOUS
<1> QED BY <1>4, <1>5, <1>6, <1>8, <1>10, <1>11

\* MergeScalars for one record.
LEMMA OneMerged ==
  ASSUME NEW schema, NEW old, NEW r
  PROVE  MergeScalars(schema, old, <<<<r>>>>) = MergeScalar(schema, <<old>>, r)
<1> DEFINE recs == <<r>>
           F == CHOOSE f : f = [s \in SUBSET (DOMAIN recs) |->
                                  IF s = {} THEN <<old>>
                                  ELSE MergeScalar(schema, f[s \ {Max(s)}], recs[Max(s)])]
           h == [s \in SUBSET (DOMAIN recs) |-> IF s = {} THEN <<old>> ELSE MergeScalar(schema, <<old>>, r)]
<1>1. DOMAIN recs = {1} /\ recs[1] = r /\ <<recs>> # <<>> /\ <<recs>>[1] = recs
  OBVIOUS
<1>2. MergeScalars(schema, old, <<<<r>>>>) = MergeScalars(schema, old, <<recs>>)
  OBVIOUS
<1> HIDE DEF recs
<1>3. Max({1}) = 1 /\ {1} \ {1} = {}
  <2>1. PICK n \in Nat : n = 1
    OBVIOUS
  <2>2. {1} \in SUBSET (1..n) /\ {1} # {}
    BY <2>1
  <2>3. Max({1}) \in {1}
    BY <2>2, LargestOf
  <2> QED BY <2>3
<1>4. \A s \in SUBSET (DOMAIN recs) : s = {} \/ s = {1}
  BY <1>1
<1>5. h = [s \in SUBSET (DOMAIN recs) |->
             IF s = {} THEN <<old>> ELSE MergeScalar(schema, h[s \ {Max(s)}], recs[Max(s)])]
  <2>1. ASSUME NEW s \in SUBSET (DOMAIN recs)
        PROVE  h[s] = IF s = {} THEN <<old>> ELSE MergeScalar(schema, h[s \ {Max(s)}], recs[Max(s)])
    <3>1. h[{}] = <<old>> /\ h[s] = IF s = {} THEN <<old>> ELSE MergeScalar(schema, <<old>>, r)
      BY <1>4
    <3> HIDE DEF h
    <3>2. CASE s = {}
      BY <3>1, <3>2
    <3>3. CASE s = {1}
      <4>1. Max(s) = 1 /\ s \ {Max(s)} = {} /\ s # {}
        BY <1>3, <3>3
      <4> QED BY <1>1, <3>1, <4>1
    <3> QED BY <1>4, <3>2, <3>3
  <2>2. h = [s \in SUBSET (DOMAIN recs) |-> h[s]]
    OBVIOUS
  <2> HIDE DEF h
  <2> QED BY <2>1, <2>2
<1>6. F = [s \in SUBSET (DOMAIN recs) |->
             IF s = {} THEN <<old>> ELSE MergeScalar(schema, F[s \ {Max(s)}], recs[Max(s)])]
  <2> HIDE DEF h
  <2> QED BY <1>5
<1>7. MergeScalars(schema, old, <<recs>>) = F[DOMAIN recs]
  BY <1>1 DEF MergeScalars, FoldLeft, MapThenFoldSet
<1> HIDE DEF F
<1>8. F[{}] = <<old>> /\ F[{1}] = MergeScalar(schema, F[{1} \ {Max({1})}], recs[Max({1})])
  BY <1>1, <1>6
<1> QED BY <1>1, <1>2, <1>3, <1>7, <1>8

\* A message with no bid read yet, and one that is the bid of m.
Unbid(q) == HasFields(q) /\ q.bidResponse = <<>>
IsBidOf(q, m) == BidAmount(q) = <<m>>
Money(r, m) == r.tag = 42 /\ r.value = MoneyBytes(m)

\* The field of a bid.
LEMMA BidMerged ==
  ASSUME NEW q, Unbid(q), NEW r, NEW m \in 0..127, Money(r, m)
  PROVE  \E p : MergeFrom(<<q>>, r) = <<p>> /\ IsBidOf(p, m)
<1>0. HasFields(q) /\ q.bidResponse = <<>> /\ r.tag = 42 /\ r.value = MoneyBytes(m)
  BY DEF Unbid, Money
<1> DEFINE nested == {n \in DOMAIN ServerRequest :
                        ServerRequest[n].kind \in DOMAIN Nested /\ Tag(ServerRequest[n]) = r.tag}
<1>1. /\ "bidResponse" \in DOMAIN ServerRequest /\ <<q>> # <<>> /\ <<q>>[1] = q
      /\ ServerRequest["bidResponse"].kind = "BidResponse" /\ "BidResponse" \in DOMAIN Nested
      /\ Nested["BidResponse"] = BidResponse
  BY DEF ServerRequest, Optional, Nested
<1>2. nested = {"bidResponse"}
  BY <1>0, <1>1, RequestTags
<1>3. MergeFrom(<<q>>, r) = MergeNested(q, "bidResponse", r.value)
  <2>1. nested # {} /\ (CHOOSE n \in nested : TRUE) = "bidResponse"
    BY <1>2
  <2> HIDE DEF nested
  <2>2. MergeFrom(<<q>>, r) = MergeNested(<<q>>[1], CHOOSE n \in nested : TRUE, r.value)
    BY <1>1, <2>1 DEF MergeFrom, nested
  <2> QED BY <1>1, <2>1, <2>2
<1>4. PICK rec : Records(MoneyBytes(m)) = <<<<rec>>>> /\ rec.tag = 8 /\ rec.value = m
  BY MoneyRecords
<1> DEFINE new == New(BidResponse)
           bid == [n \in DOMAIN BidResponse |-> <<m>>]
<1>5. MergeNested(q, "bidResponse", r.value)
        = Replace(q, "bidResponse", MergeScalars(BidResponse, new, <<<<rec>>>>))
  <2>1. q["bidResponse"] = <<>>
    BY <1>0
  <2> QED BY <1>0, <1>1, <1>4, <2>1 DEF MergeNested
<1>6. MergeScalars(BidResponse, new, <<<<rec>>>>) = MergeScalar(BidResponse, <<new>>, rec)
  BY OneMerged
<1>7. MergeScalar(BidResponse, <<new>>, rec) = <<bid>>
  <2> DEFINE field == {n \in DOMAIN BidResponse : Tag(BidResponse[n]) = rec.tag}
             packed == {n \in DOMAIN BidResponse :
                          BidResponse[n].label = "repeated" /\ BidResponse[n].num * 8 + 2 = rec.tag}
  <2>1. /\ DOMAIN BidResponse = {"money"} /\ BidResponse["money"].num = 1
        /\ BidResponse["money"].kind = "u32" /\ BidResponse["money"].label = "required"
    BY DEF BidResponse, Required
  <2>2. Tag(BidResponse["money"]) = 8
    BY <2>1 DEF Tag
  <2>3. field = {"money"} /\ packed = {}
    BY <1>4, <2>1, <2>2
  <2>4. <<new>> # <<>>
    OBVIOUS
  <2>5. MergeScalar(BidResponse, <<new>>, rec) =
          IF <<new>> = <<>> \/ (packed # {} /\ Unpack(rec.value) = <<>>) THEN <<>>
          ELSE <<[n \in DOMAIN BidResponse |->
                    IF n \in packed THEN <<new>>[1][n] \o Unpack(rec.value)[1]
                    ELSE IF n \notin field THEN <<new>>[1][n]
                    ELSE IF BidResponse[n].label = "repeated" THEN Append(<<new>>[1][n], rec.value)
                    ELSE <<rec.value>>]>>
    BY DEF MergeScalar
  <2> HIDE DEF field, packed, new
  <2>6. MergeScalar(BidResponse, <<new>>, rec) = <<[n \in DOMAIN BidResponse |-> <<rec.value>>]>>
    <3>1. \A n \in DOMAIN BidResponse : n \in field /\ n \notin packed /\ BidResponse[n].label # "repeated"
      BY <2>1, <2>3
    <3> QED BY <2>3, <2>4, <2>5, <3>1
  <2> QED BY <1>4, <2>6
<1>8. bid["money"] = <<m>>
  BY DEF BidResponse
<1> HIDE DEF new, bid
<1> DEFINE p == [q EXCEPT !["bidResponse"] = <<bid>>]
<1>9. MergeFrom(<<q>>, r) = <<p>>
  <2>1. <<bid>> # <<>>
    OBVIOUS
  <2> QED BY <1>3, <1>5, <1>6, <1>7, <2>1 DEF Replace
<1>10. p["bidResponse"] = <<bid>>
  BY <1>0, <1>1 DEF HasFields
<1> HIDE DEF p
<1>11. BidAmount(p) = <<m>>
  <2>1. <<bid>> # <<>> /\ <<bid>>[1] = bid
    OBVIOUS
  <2> QED BY <1>8, <1>10, <2>1 DEF BidAmount
<1> QED BY <1>9, <1>11 DEF IsBidOf

-----------------------------------------------------------------------------
(* What a message parses as. *)

\* What a message parses as, by the number of its records.
LEMMA ParseNothing ==
  ASSUME NEW b, Records(b) = <<>>
  PROVE  Parse(b) = <<>>
BY DEF Parse, MergeAll, Complete

LEMMA ParseMerged ==
  ASSUME NEW b, NEW n \in Nat, NEW recs, DOMAIN recs = 1..n, Records(b) = <<recs>>
  PROVE  \E g : /\ MergedUpTo(g, <<New(ServerRequest)>>, recs, n)
                /\ Parse(b) = Complete(g[1..n])
<1>1. PICK g : /\ MergedUpTo(g, <<New(ServerRequest)>>, recs, n)
               /\ FoldLeft(MergeFrom, <<New(ServerRequest)>>, recs) = g[1..n]
  BY MergeRule
<1>2. <<recs>> # <<>> /\ <<recs>>[1] = recs
  OBVIOUS
<1>3. MergeAll(<<recs>>) = FoldLeft(MergeFrom, <<New(ServerRequest)>>, recs)
  BY <1>2 DEF MergeAll
<1> QED BY <1>1, <1>3 DEF Parse

LEMMA MergedOne ==
  ASSUME NEW base, NEW recs, NEW n \in Nat, NEW g, MergedUpTo(g, base, recs, n), NEW k \in 1..n
  PROVE  g[1..k] = MergeFrom(g[1..k - 1], recs[k]) /\ g[1..0] = base
<1>1. 1..k \in SUBSET (1..n) /\ 1..k # {} /\ (1..k) \ {k} = 1..k - 1
  OBVIOUS
<1>2. Max(1..k) = k
  <2>1. Max(1..k) \in 1..k /\ \A x \in 1..k : Max(1..k) >= x
    BY <1>1, LargestOf
  <2>2. PICK x \in 1..k : x = Max(1..k)
    BY <2>1
  <2>3. k \in 1..k /\ x >= k
    BY <2>1, <2>2
  <2> QED BY <2>2, <2>3
<1>3. g[1..k] = MergeFrom(g[1..k - 1], recs[k])
  BY <1>1, <1>2 DEF MergedUpTo
<1>4. 1..0 = {} /\ {} \in SUBSET (1..n)
  OBVIOUS
<1> QED BY <1>3, <1>4 DEF MergedUpTo

\* Without a msgType nothing counts ...
LEMMA ParseUntyped ==
  ASSUME NEW b, NEW recs, NEW n \in {1}, DOMAIN recs = 1..n, Records(b) = <<recs>>,
         recs[1].tag \in Nat, recs[1].tag % 8 = 2
  PROVE  Parse(b) = <<>>
<1> DEFINE empty == New(ServerRequest)
<1>1. PICK r : r = recs[1]
  OBVIOUS
<1>2. n \in Nat /\ n = 1
  OBVIOUS
<1>3. DOMAIN recs = 1..n
  OBVIOUS
<1>4. r.tag \in Nat /\ r.tag % 8 = 2
  BY <1>1
<1>5. "msgType" \in DOMAIN ServerRequest /\ ServerRequest["msgType"].label = "required"
  BY DEF ServerRequest, Required
<1>6. empty["msgType"] = <<>>
  BY <1>5 DEF New
<1> HIDE DEF empty
<1>7. PICK g : MergedUpTo(g, <<empty>>, recs, n) /\ Parse(b) = Complete(g[1..n])
  BY <1>2, <1>3, ParseMerged DEF empty
<1>8. g[1..n] = MergeFrom(<<empty>>, r)
  <2>1. \A k \in 1..n : g[1..k] = MergeFrom(g[1..k - 1], recs[k]) /\ g[1..0] = <<empty>>
    <3>1. n \in Nat
      OBVIOUS
    <3> QED BY <1>7, <3>1, MergedOne
  <2>2. 1 \in 1..n /\ 1 - 1 = 0
    BY <1>2
  <2> QED BY <1>1, <1>2, <2>1, <2>2
<1>9. CASE MergeFrom(<<empty>>, r) = <<>>
  BY <1>7, <1>8, <1>9 DEF Complete
<1>10. CASE MergeFrom(<<empty>>, r) # <<>>
  <2>1. PICK p : MergeFrom(<<empty>>, r) = <<p>> /\ p.msgType = empty.msgType
    BY <1>4, <1>10, BytesMerged
  <2>2. ~ IsInitialized(p)
    BY <1>5, <1>6, <2>1 DEF IsInitialized, Missing
  <2>3. <<p>> # <<>> /\ <<p>>[1] = p
    OBVIOUS
  <2> QED BY <1>7, <1>8, <2>1, <2>2, <2>3 DEF Complete
<1> QED BY <1>9, <1>10

\* ... a number alone is no bid ...
LEMMA ParseNumber ==
  ASSUME NEW b, NEW recs, NEW n \in {1}, DOMAIN recs = 1..n, Records(b) = <<recs>>,
         recs[1].tag \in Nat, recs[1].tag % 8 = 0
  PROVE  Parse(b) = <<>> \/ BidAmount(Parse(b)[1]) = <<>>
<1> DEFINE empty == New(ServerRequest)
<1>1. PICK r : r = recs[1]
  OBVIOUS
<1>2. n \in Nat /\ n = 1
  OBVIOUS
<1>3. DOMAIN recs = 1..n
  OBVIOUS
<1>4. r.tag \in Nat /\ r.tag % 8 = 0
  BY <1>1
<1>5. empty["bidResponse"] = <<>>
  BY DEF New, ServerRequest
<1> HIDE DEF empty
<1>6. PICK g : MergedUpTo(g, <<empty>>, recs, n) /\ Parse(b) = Complete(g[1..n])
  BY <1>2, <1>3, ParseMerged DEF empty
<1>7. g[1..n] = MergeFrom(<<empty>>, r)
  <2>1. \A k \in 1..n : g[1..k] = MergeFrom(g[1..k - 1], recs[k]) /\ g[1..0] = <<empty>>
    <3>1. n \in Nat
      OBVIOUS
    <3> QED BY <1>6, <3>1, MergedOne
  <2>2. 1 \in 1..n /\ 1 - 1 = 0
    BY <1>2
  <2> QED BY <1>1, <1>2, <2>1, <2>2
<1>8. PICK p : MergeFrom(<<empty>>, r) = <<p>> /\ p.bidResponse = empty.bidResponse
  BY <1>4, NumberMerged
<1>9. <<p>> # <<>> /\ <<p>>[1] = p
  OBVIOUS
<1>10. Parse(b) = <<>> \/ Parse(b) = <<p>>
  BY <1>6, <1>7, <1>8, <1>9 DEF Complete
<1> QED BY <1>5, <1>8, <1>9, <1>10 DEF BidAmount

\* ... and a bid is the money in it, whatever numbers are in front of it.
LEMMA ParseBid ==
  ASSUME NEW b, NEW m \in 0..127, NEW n \in {2, 3}, NEW recs, DOMAIN recs = 1..n, Records(b) = <<recs>>,
         \A i \in 1..n - 1 : recs[i].tag \in Nat /\ recs[i].tag % 8 = 0,
         Money(recs[n], m)
  PROVE  Parse(b) = <<>> \/ IsBidOf(Parse(b)[1], m)
<1> DEFINE empty == New(ServerRequest)
<1>1. Unbid(empty)
  <2>1. empty["bidResponse"] = <<>> /\ HasFields(empty)
    BY DEF New, ServerRequest, HasFields
  <2> QED BY <2>1 DEF Unbid
<1> HIDE DEF empty
<1>2. n \in Nat
  OBVIOUS
<1>3. PICK g : MergedUpTo(g, <<empty>>, recs, n) /\ Parse(b) = Complete(g[1..n])
  BY <1>2, ParseMerged DEF empty
<1>4. \A k \in 1..n : g[1..k] = MergeFrom(g[1..k - 1], recs[k]) /\ g[1..0] = <<empty>>
  BY <1>2, <1>3, MergedOne
<1> DEFINE NoBidYet(s) == \E p : s = <<p>> /\ Unbid(p)
<1>5. NoBidYet(g[1..0])
  <2>1. 1 \in 1..n
    OBVIOUS
  <2> QED BY <1>1, <1>4, <2>1
<1>6. ASSUME NEW k \in 1..n - 1, NoBidYet(g[1..k - 1]) PROVE NoBidYet(g[1..k])
  <2>1. PICK p : g[1..k - 1] = <<p>> /\ Unbid(p)
    BY <1>6
  <2>2. recs[k].tag \in Nat /\ recs[k].tag % 8 = 0 /\ k \in 1..n
    OBVIOUS
  <2>3. g[1..k] = MergeFrom(<<p>>, recs[k])
    BY <1>4, <2>1, <2>2
  <2> DEFINE rec == recs[k]
  <2>4. rec.tag \in Nat /\ rec.tag % 8 = 0
    BY <2>2
  <2> HIDE DEF rec
  <2>5. \E x : /\ MergeFrom(<<p>>, rec) = <<x>> /\ x.bidResponse = p.bidResponse
               /\ HasFields(x)
    <3> HIDE DEF NoBidYet, empty
    <3>1. \A old : \E x : /\ MergeFrom(<<old>>, rec) = <<x>> /\ x.bidResponse = old.bidResponse
                          /\ HasFields(x)
      BY <2>4, NumberMerged
    <3> QED BY <3>1
  <2>6. PICK x : MergeFrom(<<p>>, rec) = <<x>> /\ x.bidResponse = p.bidResponse /\ HasFields(x)
    BY <2>5
  <2>7. Unbid(x)
    BY <2>1, <2>6 DEF Unbid
  <2> QED BY <2>3, <2>6, <2>7 DEF rec
<1>7. NoBidYet(g[1..n - 1])
  <2> HIDE DEF NoBidYet
  <2>1. 1 \in 1..n - 1 /\ 1 - 1 = 0
    OBVIOUS
  <2>2. NoBidYet(g[1..1])
    BY <1>5, <1>6, <2>1
  <2>3. n = 2 => n - 1 = 1
    OBVIOUS
  <2>4. n = 3 => n - 1 = 2 /\ 2 \in 1..n - 1 /\ 2 - 1 = 1
    OBVIOUS
  <2>5. n = 3 => NoBidYet(g[1..2])
    BY <1>6, <2>2, <2>4
  <2> QED BY <2>2, <2>3, <2>4, <2>5
<1>8. PICK p : g[1..n - 1] = <<p>> /\ Unbid(p)
  BY <1>7
<1>9. g[1..n] = MergeFrom(<<p>>, recs[n])
  <2>1. n \in 1..n
    OBVIOUS
  <2> QED BY <1>4, <1>8, <2>1
<1>10. PICK x : MergeFrom(<<p>>, recs[n]) = <<x>> /\ IsBidOf(x, m)
  <2> DEFINE rec == recs[n]
  <2>1. Money(rec, m)
    OBVIOUS
  <2> HIDE DEF rec, NoBidYet, empty
  <2>2. \A old : Unbid(old) => \E x : MergeFrom(<<old>>, rec) = <<x>> /\ IsBidOf(x, m)
    BY <2>1, BidMerged
  <2> QED BY <1>8, <2>2 DEF rec
<1>11. <<x>> # <<>> /\ <<x>>[1] = x
  OBVIOUS
<1>12. Parse(b) = <<>> \/ Parse(b) = <<x>>
  BY <1>3, <1>9, <1>10, <1>11 DEF Complete
<1> QED BY <1>10, <1>11, <1>12

\* What there is at a position: a record, up to the next position, or nothing that can be read.
Rec(t, v, j) == [tag |-> t, value |-> v, next |-> j]
Reads(b, i, t, v, j) == Step(b, i) = <<Rec(t, v, j)>>
Stuck(b, i) == Step(b, i) = <<>>

NoBidIn(b) == Parse(b) = <<>> \/ BidAmount(Parse(b)[1]) = <<>>
BidIn(b, m) == Parse(b) = <<>> \/ IsBidOf(Parse(b)[1], m)

\* The records from a position on.
Gives(g, i, recs) == g[i] = <<recs>>
Then(r, rest) == <<r>> \o rest

Follows(x, rest, n) ==
  /\ Len(Then(x, rest)) = n + 1
  /\ Then(x, rest)[1] = x
  /\ \A i \in 1..n : Then(x, rest)[i + 1] = rest[i]

LEMMA ThenOne ==
  ASSUME NEW S, NEW r \in S, NEW rest \in Seq(S), NEW n \in Nat, Len(rest) = n
  PROVE  Then(r, rest) \in Seq(S) /\ Follows(r, rest, n)
<1> DEFINE one == <<r>>
<1>1. one \in Seq(S) /\ Len(one) = 1 /\ one[1] = r
  OBVIOUS
<1> HIDE DEF one
<1> DEFINE all == one \o rest
<1>2. /\ all \in Seq(S) /\ Len(all) = Len(one) + Len(rest)
      /\ \A i \in 1..Len(one) + Len(rest) : all[i] = IF i <= Len(one) THEN one[i] ELSE rest[i - Len(one)]
  BY <1>1, ConcatProperties
<1> HIDE DEF all
<1>3. \A i \in 1..1 + n : all[i] = IF i <= 1 THEN one[i] ELSE rest[i - 1]
  BY <1>1, <1>2
<1>4. all[1] = r
  BY <1>1, <1>3
<1>5. ASSUME NEW i \in 1..n PROVE all[i + 1] = rest[i]
  <2>1. i + 1 \in 1..1 + n /\ ~ (i + 1 <= 1) /\ (i + 1) - 1 = i
    OBVIOUS
  <2> QED BY <1>3, <2>1
<1>6. Then(r, rest) = all
  BY DEF Then, one, all
<1> QED BY <1>1, <1>2, <1>4, <1>5, <1>6 DEF Follows

LEMMA ThenTwo ==
  ASSUME NEW r, NEW s
  PROVE  DOMAIN Then(r, Then(s, <<>>)) = 1..2 /\ Then(r, Then(s, <<>>))[1] = r /\ Then(r, Then(s, <<>>))[2] = s
<1> DEFINE last == Then(s, <<>>)
           all == Then(r, last)
<1>1. PICK S : r \in S /\ s \in S
  <2> DEFINE both == {r, s}
  <2>1. r \in both /\ s \in both
    OBVIOUS
  <2> HIDE DEF both
  <2> QED BY <2>1
<1>2. last \in Seq(S) /\ Len(last) = 1 /\ last[1] = s
  <2> DEFINE one == <<s>>
  <2>1. one \in Seq(S) /\ Len(one) = 1 /\ one[1] = s
    BY <1>1
  <2>2. last = one
    BY DEF Then
  <2> HIDE DEF one, last
  <2> QED BY <2>1, <2>2
<1> HIDE DEF last
<1>3. 1 \in Nat /\ 1 \in 1..1 /\ 1 + 1 = 2
  OBVIOUS
<1>4. \A rest \in Seq(S), n \in Nat : Len(rest) = n =>
        Then(r, rest) \in Seq(S) /\ Follows(r, rest, n)
  BY <1>1, ThenOne
<1>5. all \in Seq(S) /\ Len(all) = 1 + 1 /\ all[1] = r /\ \A i \in 1..1 : all[i + 1] = last[i]
  <2>1. all \in Seq(S) /\ Follows(r, last, 1)
    BY <1>2, <1>3, <1>4
  <2> QED BY <2>1 DEF Follows
<1> HIDE DEF all
<1>6. DOMAIN all = 1..2 /\ all[1] = r /\ all[2] = s
  BY <1>2, <1>3, <1>5
<1> QED BY <1>6 DEF all, last

LEMMA ThenThree ==
  ASSUME NEW q, NEW r, NEW s
  PROVE  /\ DOMAIN Then(q, Then(r, Then(s, <<>>))) = 1..3
         /\ Then(q, Then(r, Then(s, <<>>)))[1] = q
         /\ Then(q, Then(r, Then(s, <<>>)))[2] = r
         /\ Then(q, Then(r, Then(s, <<>>)))[3] = s
<1> DEFINE last == Then(s, <<>>)
           two == Then(r, last)
           all == Then(q, two)
<1>1. PICK S : q \in S /\ r \in S /\ s \in S
  <2> DEFINE every == {q, r, s}
  <2>1. q \in every /\ r \in every /\ s \in every
    OBVIOUS
  <2> HIDE DEF every
  <2> QED BY <2>1
<1>2. last \in Seq(S) /\ Len(last) = 1 /\ last[1] = s
  <2> DEFINE one == <<s>>
  <2>1. one \in Seq(S) /\ Len(one) = 1 /\ one[1] = s
    BY <1>1
  <2>2. last = one
    BY DEF Then
  <2> HIDE DEF one, last
  <2> QED BY <2>1, <2>2
<1> HIDE DEF last
<1>3. 1 \in Nat /\ 1 \in 1..1 /\ 1 + 1 = 2 /\ 2 \in Nat /\ 1 \in 1..2 /\ 2 \in 1..2 /\ 2 + 1 = 3
  OBVIOUS
<1>4. \A x \in S : \A rest \in Seq(S), n \in Nat : Len(rest) = n =>
        Then(x, rest) \in Seq(S) /\ Follows(x, rest, n)
  BY ThenOne
<1>5. two \in Seq(S) /\ Len(two) = 1 + 1 /\ two[1] = r /\ \A i \in 1..1 : two[i + 1] = last[i]
  <2>1. two \in Seq(S) /\ Follows(r, last, 1)
    BY <1>1, <1>2, <1>3, <1>4
  <2> QED BY <2>1 DEF Follows
<1> HIDE DEF two
<1>6. two \in Seq(S) /\ Len(two) = 2 /\ two[1] = r /\ two[2] = s
  BY <1>2, <1>3, <1>5
<1>7. all \in Seq(S) /\ Len(all) = 2 + 1 /\ all[1] = q /\ \A i \in 1..2 : all[i + 1] = two[i]
  <2>1. all \in Seq(S) /\ Follows(q, two, 2)
    BY <1>1, <1>3, <1>4, <1>6
  <2> QED BY <2>1 DEF Follows
<1> HIDE DEF all
<1>8. all[2] = r /\ all[3] = s
  BY <1>3, <1>6, <1>7
<1>9. DOMAIN all = 1..3
  BY <1>7
<1> QED BY <1>7, <1>8, <1>9 DEF all, two, last

\* One step of reading.
LEMMA GoesOn ==
  ASSUME NEW n \in Nat, NEW b, NEW g, ReadDownTo(g, b, n, 1), NEW i \in 1..n,
         NEW t, NEW v, NEW j, Reads(b, i, t, v, j), NEW rest, Gives(g, j, rest)
  PROVE  Gives(g, i, Then(Rec(t, v, j), rest))
<1> DEFINE r == Rec(t, v, j)
<1>1. Step(b, i) = <<r>> /\ r.next = j /\ g[j] = <<rest>>
  BY DEF Reads, Rec, Gives
<1> HIDE DEF r
<1>2. g[i] = <<<<r>> \o rest>>
  BY <1>1, ReadOn
<1> QED BY <1>2 DEF r, Gives, Then

LEMMA GoesWrong ==
  ASSUME NEW n \in Nat, NEW b, NEW g, ReadDownTo(g, b, n, 1), NEW i \in 1..n,
         NEW t, NEW v, NEW j, Reads(b, i, t, v, j), g[j] = <<>>
  PROVE  g[i] = <<>>
<1> DEFINE r == Rec(t, v, j)
<1>1. Step(b, i) = <<r>> /\ r.next = j
  BY DEF Reads, Rec
<1> HIDE DEF r
<1> QED BY <1>1, ReadLost

\* A body of which a part cannot be read is no message.
LEMMA StuckAtOnce ==
  ASSUME NEW n \in Nat \ {0}, NEW b, Plain(b, n), NEW i, i = 1, Stuck(b, i)
  PROVE  NoBidIn(b)
<1>1. n \in Nat /\ i \in 1..n
  OBVIOUS
<1>2. PICK g : ReadDownTo(g, b, n, 1) /\ Records(b) = g[1]
  BY <1>1, ReadRule
<1>3. g[i] = <<>>
  BY <1>1, <1>2, ReadStuck DEF Stuck
<1> QED BY <1>2, <1>3, ParseNothing DEF NoBidIn

LEMMA StuckSecond ==
  ASSUME NEW n \in Nat \ {0}, NEW b, Plain(b, n), NEW i, i = 1,
         NEW t, NEW v, NEW j \in 1..n, Reads(b, i, t, v, j), Stuck(b, j)
  PROVE  NoBidIn(b)
<1>1. n \in Nat /\ i \in 1..n
  OBVIOUS
<1>2. PICK g : ReadDownTo(g, b, n, 1) /\ Records(b) = g[1]
  BY <1>1, ReadRule
<1>3. g[j] = <<>>
  BY <1>1, <1>2, ReadStuck DEF Stuck
<1>4. g[i] = <<>>
  BY <1>1, <1>2, <1>3, GoesWrong
<1> QED BY <1>2, <1>4, ParseNothing DEF NoBidIn

LEMMA StuckThird ==
  ASSUME NEW n \in Nat \ {0}, NEW b, Plain(b, n), NEW i, i = 1,
         NEW t, NEW v, NEW j \in 1..n, Reads(b, i, t, v, j),
         NEW u, NEW w, NEW k \in 1..n, Reads(b, j, u, w, k), Stuck(b, k)
  PROVE  NoBidIn(b)
<1>1. n \in Nat /\ i \in 1..n
  OBVIOUS
<1>2. PICK g : ReadDownTo(g, b, n, 1) /\ Records(b) = g[1]
  BY <1>1, ReadRule
<1>3. g[k] = <<>>
  BY <1>1, <1>2, ReadStuck DEF Stuck
<1>4. g[j] = <<>>
  BY <1>1, <1>2, <1>3, GoesWrong
<1>5. g[i] = <<>>
  BY <1>1, <1>2, <1>4, GoesWrong
<1> QED BY <1>2, <1>5, ParseNothing DEF NoBidIn

\* A body that is one record is no bid.
LEMMA OneRecord ==
  ASSUME NEW n \in Nat \ {0}, NEW b, Plain(b, n), NEW i, i = 1,
         NEW t \in Nat, t % 8 \in {0, 2}, NEW v, NEW j, j = n + 1, Reads(b, i, t, v, j)
  PROVE  NoBidIn(b)
<1> DEFINE r == Rec(t, v, j)
           recs == Then(r, <<>>)
<1>1. n \in Nat /\ i \in 1..n
  OBVIOUS
<1>2. PICK g : ReadDownTo(g, b, n, 1) /\ Records(b) = g[1]
  BY <1>1, ReadRule
<1>3. Gives(g, j, <<>>)
  BY <1>1, <1>2, ReadEnd DEF Gives
<1>4. Gives(g, i, Then(r, <<>>))
  BY <1>1, <1>2, <1>3, GoesOn
<1>5. Records(b) = <<recs>>
  BY <1>2, <1>4 DEF Gives
<1>6. PICK count \in {1} : count = 1
  OBVIOUS
<1>7. DOMAIN recs = 1..count /\ recs[1].tag = t
  BY <1>6 DEF Rec, Then
<1> HIDE DEF recs
<1>8. CASE t % 8 = 2
  BY <1>5, <1>7, <1>8, ParseUntyped DEF NoBidIn
<1>9. CASE t % 8 = 0
  BY <1>5, <1>7, <1>9, ParseNumber DEF NoBidIn
<1> QED BY <1>8, <1>9

\* One that ends with money after numbers is the bid of it.
LEMMA NumberAndMoney ==
  ASSUME NEW n \in Nat \ {0}, NEW b, Plain(b, n), NEW m \in 0..127, NEW i, i = 1,
         NEW t \in Nat, t % 8 = 0, NEW v, NEW j \in 1..n, Reads(b, i, t, v, j),
         NEW k, k = n + 1, Reads(b, j, 42, MoneyBytes(m), k)
  PROVE  BidIn(b, m)
<1> DEFINE r == Rec(t, v, j)
           s == Rec(42, MoneyBytes(m), k)
           recs == Then(r, Then(s, <<>>))
<1>1. n \in Nat /\ i \in 1..n
  OBVIOUS
<1>2. PICK g : ReadDownTo(g, b, n, 1) /\ Records(b) = g[1]
  BY <1>1, ReadRule
<1>3. Gives(g, k, <<>>)
  BY <1>1, <1>2, ReadEnd DEF Gives
<1>4. Gives(g, j, Then(s, <<>>))
  BY <1>1, <1>2, <1>3, GoesOn
<1>5. Gives(g, i, Then(r, Then(s, <<>>)))
  BY <1>1, <1>2, <1>4, GoesOn
<1>6. Records(b) = <<recs>>
  BY <1>2, <1>5 DEF Gives
<1>7. PICK count \in {2, 3} : count = 2
  OBVIOUS
<1>8. Money(s, m) /\ r.tag = t
  BY DEF Money, Rec
<1>9. DOMAIN recs = 1..count /\ recs[1] = r /\ recs[2] = s
  <2> HIDE DEF r, s
  <2> QED BY <1>7, ThenTwo
<1> HIDE DEF recs, r, s
<1>10. \A x \in 1..count - 1 : recs[x].tag \in Nat /\ recs[x].tag % 8 = 0
  BY <1>7, <1>8, <1>9
<1>11. Money(recs[count], m)
  BY <1>7, <1>8, <1>9
<1> QED BY <1>6, <1>9, <1>10, <1>11, ParseBid DEF BidIn

LEMMA NumbersAndMoney ==
  ASSUME NEW n \in Nat \ {0}, NEW b, Plain(b, n), NEW m \in 0..127, NEW i, i = 1,
         NEW t \in Nat, t % 8 = 0, NEW v, NEW j \in 1..n, Reads(b, i, t, v, j),
         NEW u \in Nat, u % 8 = 0, NEW w, NEW k \in 1..n, Reads(b, j, u, w, k),
         NEW l, l = n + 1, Reads(b, k, 42, MoneyBytes(m), l)
  PROVE  BidIn(b, m)
<1> DEFINE q == Rec(t, v, j)
           r == Rec(u, w, k)
           s == Rec(42, MoneyBytes(m), l)
           recs == Then(q, Then(r, Then(s, <<>>)))
<1>1. n \in Nat /\ i \in 1..n
  OBVIOUS
<1>2. PICK g : ReadDownTo(g, b, n, 1) /\ Records(b) = g[1]
  BY <1>1, ReadRule
<1>3. Gives(g, l, <<>>)
  BY <1>1, <1>2, ReadEnd DEF Gives
<1>4. Gives(g, k, Then(s, <<>>))
  BY <1>1, <1>2, <1>3, GoesOn
<1>5. Gives(g, j, Then(r, Then(s, <<>>)))
  BY <1>1, <1>2, <1>4, GoesOn
<1>6. Gives(g, i, Then(q, Then(r, Then(s, <<>>))))
  BY <1>1, <1>2, <1>5, GoesOn
<1>7. Records(b) = <<recs>>
  BY <1>2, <1>6 DEF Gives
<1>8. PICK count \in {2, 3} : count = 3
  OBVIOUS
<1>9. Money(s, m) /\ r.tag = u /\ q.tag = t
  BY DEF Money, Rec
<1>10. DOMAIN recs = 1..count /\ recs[1] = q /\ recs[2] = r /\ recs[3] = s
  <2> HIDE DEF q, r, s
  <2> QED BY <1>8, ThenThree
<1> HIDE DEF recs, q, r, s
<1>11. \A x \in 1..count - 1 : recs[x].tag \in Nat /\ recs[x].tag % 8 = 0
  <2>1. \A x \in 1..count - 1 : x = 1 \/ x = 2
    BY <1>8
  <2> QED BY <1>9, <1>10, <2>1
<1>12. Money(recs[count], m)
  BY <1>8, <1>9, <1>10
<1> QED BY <1>7, <1>10, <1>11, <1>12, ParseBid DEF BidIn

-----------------------------------------------------------------------------
(* Answers, one after the other. *)

\* Reading at a position, by the byte there.
LEMMA StuckAtLow ==
  ASSUME NEW n \in Nat, NEW b, Plain(b, n), NEW i \in 1..n, b[i] < 8
  PROVE  Stuck(b, i)
BY StepTag DEF Stuck

LEMMA StuckAtOther ==
  ASSUME NEW n \in Nat, NEW b, Plain(b, n), NEW i \in 1..n, b[i] % 8 \notin {0, 1, 2, 5}
  PROVE  Stuck(b, i)
<1>1. CASE b[i] < 8
  BY <1>1, StuckAtLow
<1>2. CASE ~ (b[i] < 8)
  BY <1>2, StepOther DEF Stuck
<1> QED BY <1>1, <1>2

LEMMA ReadsNumber ==
  ASSUME NEW n \in Nat, NEW b, Plain(b, n), NEW i \in 1..n, ~ (b[i] < 8), b[i] % 8 = 0, i < n
  PROVE  Reads(b, i, b[i], b[i + 1], i + 2)
BY StepNumber DEF Reads, Rec

LEMMA ReadsBytes ==
  ASSUME NEW n \in Nat, NEW b, Plain(b, n), NEW i \in 1..n, ~ (b[i] < 8), b[i] % 8 = 2, i < n,
         i + 2 + b[i + 1] <= n + 1
  PROVE  Reads(b, i, b[i], SubSeq(b, i + 2, i + 1 + b[i + 1]), i + 2 + b[i + 1])
BY StepBytes DEF Reads, Rec

LEMMA StuckAtEnd ==
  ASSUME NEW n \in Nat, NEW b, Plain(b, n), NEW i \in 1..n, ~ (b[i] < 8), b[i] % 8 = 2, i = n
  PROVE  Stuck(b, i)
BY StepBytes DEF Stuck

LEMMA ReadsFour ==
  ASSUME NEW n \in Nat, NEW b, Plain(b, n), NEW i \in 1..n, ~ (b[i] < 8), b[i] % 8 = 5, i + 4 <= n
  PROVE  Reads(b, i, b[i], SubSeq(b, i + 1, i + 4), i + 5)
<1>1. PICK len \in {4, 8} : len = 4
  OBVIOUS
<1>2. b[i] % 8 = IF len = 4 THEN 5 ELSE 1
  BY <1>1
<1>3. /\ i + len > n => Step(b, i) = <<>>
      /\ i + len <= n => Step(b, i) = <<[tag |-> b[i], value |-> SubSeq(b, i + 1, i + len),
                                         next |-> i + 1 + len]>>
  BY <1>2, StepFixed
<1>4. i + 1 + len = i + 5 /\ i + len = i + 4
  BY <1>1
<1> QED BY <1>3, <1>4 DEF Reads, Rec

LEMMA StuckAtEight ==
  ASSUME NEW n \in Nat, NEW b, Plain(b, n), NEW i \in 1..n, ~ (b[i] < 8), b[i] % 8 = 1, i + 8 > n
  PROVE  Stuck(b, i)
<1>1. PICK len \in {4, 8} : len = 8
  OBVIOUS
<1>2. b[i] % 8 = IF len = 4 THEN 5 ELSE 1
  BY <1>1
<1>3. /\ i + len > n => Step(b, i) = <<>>
      /\ i + len <= n => Step(b, i) = <<[tag |-> b[i], value |-> SubSeq(b, i + 1, i + len),
                                         next |-> i + 1 + len]>>
  BY <1>2, StepFixed
<1> QED BY <1>1, <1>3 DEF Stuck

\* The answer to a request without an offer (m < 0) and with the offer of m: its length, and
\* the byte at each place.
AnswerLength(m) == IF m < 0 THEN 3 ELSE 7
AnswerByte(m, a) ==
  IF m < 0 THEN IF a = 1 THEN 2 ELSE IF a = 2 THEN 8 ELSE 10
  ELSE IF a = 1 THEN 6 ELSE IF a = 2 \/ a = 6 THEN 8 ELSE IF a = 3 THEN 4 ELSE IF a = 4 THEN 42
  ELSE IF a = 5 THEN 2 ELSE m

\* Bytes of answers, one after the other: at[i] is the place of b[i] in its answer, off[i] the
\* offer of that.
InLine(b, n, at, off) ==
  /\ at \in [1..n -> 1..7] /\ off \in [1..n -> -1..127]
  /\ \A i \in 1..n : at[i] <= AnswerLength(off[i]) /\ b[i] = AnswerByte(off[i], at[i])
  /\ \A i \in 1..n : i + 1 \in 1..n =>
       IF at[i] < AnswerLength(off[i]) THEN off[i + 1] = off[i] /\ at[i + 1] = at[i] + 1
       ELSE at[i + 1] = 1

LEMMA InAnswer ==
  ASSUME NEW n \in Nat, NEW b, NEW at, NEW off, InLine(b, n, at, off),
         NEW i \in 1..n, NEW k \in 0..6, at[i] + k <= AnswerLength(off[i]), i + k <= n
  PROVE  at[i + k] = at[i] + k /\ off[i + k] = off[i]
<1> DEFINE P(j) == at[i + j] = at[i] + j /\ off[i + j] = off[i]
<1>1. at[i] \in 1..7
  BY DEF InLine
<1>2. P(0)
  BY <1>1
<1>3. ASSUME NEW j \in 0..5, j + 1 <= k, P(j) PROVE P(j + 1)
  <2>1. i + j \in 1..n /\ (i + j) + 1 \in 1..n /\ i + (j + 1) = (i + j) + 1
    BY <1>3
  <2>2. at[i + j] < AnswerLength(off[i + j])
    <3>1. at[i + j] = at[i] + j /\ off[i + j] = off[i]
      BY <1>3
    <3>2. AnswerLength(off[i]) \in {3, 7}
      BY DEF AnswerLength
    <3> QED BY <1>1, <1>3, <3>1, <3>2
  <2>3. off[(i + j) + 1] = off[i + j] /\ at[(i + j) + 1] = at[i + j] + 1
    BY <2>1, <2>2 DEF InLine
  <2> QED BY <1>1, <1>3, <2>1, <2>3
<1> HIDE DEF P
<1>4. k >= 1 => P(1)
  BY <1>2, <1>3
<1>5. k >= 2 => P(2)
  BY <1>3, <1>4
<1>6. k >= 3 => P(3)
  BY <1>3, <1>5
<1>7. k >= 4 => P(4)
  BY <1>3, <1>6
<1>8. k >= 5 => P(5)
  BY <1>3, <1>7
<1>9. k >= 6 => P(6)
  BY <1>3, <1>8
<1>10. k = 0 \/ k = 1 \/ k = 2 \/ k = 3 \/ k = 4 \/ k = 5 \/ k = 6
  OBVIOUS
<1>11. P(k)
  BY <1>2, <1>4, <1>5, <1>6, <1>7, <1>8, <1>9, <1>10
<1> QED BY <1>11 DEF P

LEMMA AfterAnswer ==
  ASSUME NEW n \in Nat, NEW b, NEW at, NEW off, InLine(b, n, at, off),
         NEW i \in 1..n, NEW k \in 0..6, at[i] + k = AnswerLength(off[i]), i + k + 1 <= n
  PROVE  at[i + k + 1] = 1
<1>1. at[i + k] = at[i] + k /\ off[i + k] = off[i]
  <2>1. at[i] + k <= AnswerLength(off[i]) /\ i + k <= n
    <3>1. AnswerLength(off[i]) \in {3, 7}
      BY DEF AnswerLength
    <3> QED BY <3>1
  <2> QED BY <2>1, InAnswer
<1>2. i + k \in 1..n /\ (i + k) + 1 \in 1..n
  OBVIOUS
<1>3. ~ (at[i + k] < AnswerLength(off[i + k]))
  <2>1. AnswerLength(off[i]) \in {3, 7}
    BY DEF AnswerLength
  <2> QED BY <1>1, <2>1
<1> QED BY <1>2, <1>3 DEF InLine

\* An answer from its first byte on.
LEMMA FromStart ==
  ASSUME NEW n \in Nat, NEW b, NEW at, NEW off, InLine(b, n, at, off), NEW i \in 1..n, at[i] = 1
  PROVE  /\ b[i] = IF off[i] < 0 THEN 2 ELSE 6
         /\ i + 1 <= n => b[i + 1] = 8
         /\ i + 2 <= n => b[i + 2] = IF off[i] < 0 THEN 10 ELSE 4
         /\ off[i] < 0 /\ i + 3 <= n => at[i + 3] = 1
         /\ ~ (off[i] < 0) =>
              /\ i + 3 <= n => b[i + 3] = 42
              /\ i + 4 <= n => b[i + 4] = 2
              /\ i + 5 <= n => b[i + 5] = 8
              /\ i + 6 <= n => b[i + 6] = off[i] /\ off[i + 6] = off[i]
<1> DEFINE m == off[i]
<1>1. \A k \in 0..6 : 1 + k <= AnswerLength(m) /\ i + k <= n => at[i + k] = 1 + k /\ off[i + k] = m
  BY InAnswer
<1>2. \A k \in 0..6 : 1 + k <= AnswerLength(m) /\ i + k <= n => b[i + k] = AnswerByte(m, 1 + k)
  <2> TAKE k \in 0..6
  <2> HAVE 1 + k <= AnswerLength(m) /\ i + k <= n
  <2>1. at[i + k] = 1 + k /\ off[i + k] = m /\ i + k \in 1..n
    BY <1>1
  <2> QED BY <2>1 DEF InLine
<1>3. m < 0 /\ i + 3 <= n => at[i + 3] = 1
  <2> HAVE m < 0 /\ i + 3 <= n
  <2>1. PICK k \in 0..6 : k = 2
    OBVIOUS
  <2>2. at[i] + k = AnswerLength(off[i]) /\ i + k + 1 = i + 3
    BY <2>1 DEF AnswerLength
  <2>3. at[i + k + 1] = 1
    BY <2>2, AfterAnswer
  <2> QED BY <2>2, <2>3
<1>4. m \in -1..127
  BY DEF InLine
<1> HIDE DEF m
<1>5. /\ i <= n => b[i] = AnswerByte(m, 1)
      /\ i + 1 <= n => b[i + 1] = AnswerByte(m, 2)
      /\ i + 2 <= n => b[i + 2] = AnswerByte(m, 3)
  <2>1. \A k \in 0..2 : 1 + k <= AnswerLength(m)
    BY <1>4 DEF AnswerLength
  <2>2. \A k \in 0..2 : i + k <= n => b[i + k] = AnswerByte(m, 1 + k)
    BY <1>2, <2>1
  <2>3. 0 \in 0..2 /\ 1 \in 0..2 /\ 2 \in 0..2 /\ i + 0 = i /\ 1 + 0 = 1 /\ 1 + 1 = 2 /\ 1 + 2 = 3
    OBVIOUS
  <2> QED BY <2>2, <2>3
<1>6. ~ (m < 0) =>
        /\ i + 3 <= n => b[i + 3] = AnswerByte(m, 4)
        /\ i + 4 <= n => b[i + 4] = AnswerByte(m, 5)
        /\ i + 5 <= n => b[i + 5] = AnswerByte(m, 6)
        /\ i + 6 <= n => b[i + 6] = AnswerByte(m, 7) /\ off[i + 6] = m
  <2> HAVE ~ (m < 0)
  <2>1. \A k \in 0..6 : 1 + k <= AnswerLength(m)
    BY <1>4 DEF AnswerLength
  <2>2. \A k \in 0..6 : i + k <= n => b[i + k] = AnswerByte(m, 1 + k) /\ off[i + k] = m
    BY <1>1, <1>2, <2>1
  <2>3. /\ 3 \in 0..6 /\ 4 \in 0..6 /\ 5 \in 0..6 /\ 6 \in 0..6
        /\ 1 + 3 = 4 /\ 1 + 4 = 5 /\ 1 + 5 = 6 /\ 1 + 6 = 7
    OBVIOUS
  <2> QED BY <2>2, <2>3
<1>7. /\ AnswerByte(m, 1) = IF m < 0 THEN 2 ELSE 6
      /\ AnswerByte(m, 2) = 8
      /\ AnswerByte(m, 3) = IF m < 0 THEN 10 ELSE 4
      /\ ~ (m < 0) => AnswerByte(m, 4) = 42 /\ AnswerByte(m, 5) = 2 /\ AnswerByte(m, 6) = 8 /\ AnswerByte(m, 7) = m
  BY <1>4 DEF AnswerByte
<1> QED BY <1>3, <1>5, <1>6, <1>7 DEF m

-----------------------------------------------------------------------------
(* What a body tells of the bid in the answer it ends with. *)

\* What a body can hold: no bid, or that of the answer in which it ends.
Told(b, n, off) == NoBidIn(b) \/ (off[n] \in 0..127 /\ BidIn(b, off[n]))

\* The bytes of the money: the last record of a bid.
LEMMA MoneyAt ==
  ASSUME NEW n \in Nat, NEW b, Plain(b, n), NEW i \in 1..n, i + 3 = n,
         b[i] = 42, b[i + 1] = 2, b[i + 2] = 8
  PROVE  Reads(b, i, 42, MoneyBytes(b[n]), n + 1)
<1>1. Reads(b, i, b[i], SubSeq(b, i + 2, i + 1 + b[i + 1]), i + 2 + b[i + 1])
  <2>1. ~ (b[i] < 8) /\ b[i] % 8 = 2 /\ i < n /\ i + 2 + b[i + 1] <= n + 1
    OBVIOUS
  <2> QED BY <2>1, ReadsBytes
<1>2. i + 1 + b[i + 1] = n /\ i + 2 + b[i + 1] = n + 1 /\ i + 2 = n - 1
  OBVIOUS
<1>3. SubSeq(b, n - 1, n) = MoneyBytes(b[n])
  <2>1. b \in Seq(0..127) /\ Len(b) = n
    BY DEF Plain
  <2>2. n - 1 \in 1..n /\ n \in 1..n /\ b[n - 1] = 8
    BY <1>2
  <2>3. PICK x \in 0..127 : x = b[n]
    <3>1. b[n] \in 0..127
      BY <2>2, PlainByte
    <3> QED BY <3>1
  <2> DEFINE s == SubSeq(b, n - 1, n)
             t == <<8, x>>
  <2>4. s \in Seq(0..127) /\ Len(s) = 2 /\ \A k \in 1..2 : s[k] = b[(n - 1) + k - 1]
    <3>1. n - 1 \in Int /\ n \in Int /\ n - 1 <= n /\ \A k \in n - 1..n : k \in 1..n
      BY <2>2
    <3> DEFINE S == 0..127
               lo == n - 1
    <3>2. \A k \in lo..n : b[k] \in S
      BY <3>1, PlainByte
    <3> HIDE DEF S, lo
    <3>3. /\ SubSeq(b, lo, n) \in Seq(S)
          /\ Len(SubSeq(b, lo, n)) = IF lo <= n THEN n - lo + 1 ELSE 0
          /\ \A k \in 1..n - lo + 1 : SubSeq(b, lo, n)[k] = b[lo + k - 1]
      <4>1. lo \in Int /\ n \in Int
        BY <3>1 DEF lo
      <4> QED BY <3>2, <4>1, SubSeqProperties
    <3>4. /\ s \in Seq(0..127)
          /\ Len(s) = n - (n - 1) + 1
          /\ \A k \in 1..n - (n - 1) + 1 : s[k] = b[(n - 1) + k - 1]
      BY <3>1, <3>3 DEF S, lo
    <3>5. n - (n - 1) + 1 = 2
      OBVIOUS
    <3> HIDE DEF s
    <3> QED BY <3>4, <3>5
  <2>5. t \in Seq(0..127) /\ Len(t) = 2 /\ t[1] = 8 /\ t[2] = x
    OBVIOUS
  <2>6. (n - 1) + 1 - 1 = n - 1 /\ (n - 1) + 2 - 1 = n
    OBVIOUS
  <2> HIDE DEF s, t
  <2>7. s = t
    BY <2>2, <2>3, <2>4, <2>5, <2>6
  <2> QED BY <2>3, <2>7 DEF s, t, MoneyBytes
<1> QED BY <1>1, <1>2, <1>3

\* A body that begins where an answer does: the prefix of a later one, which is no tag.
LEMMA BodyAtStart ==
  ASSUME NEW n \in Nat \ {0}, NEW b, NEW at, NEW off, Plain(b, n), InLine(b, n, at, off),
         NEW i, i = 1, at[i] = 1
  PROVE  NoBidIn(b)
<1>1. n \in Nat /\ i \in 1..n
  OBVIOUS
<1>2. b[i] = IF off[i] < 0 THEN 2 ELSE 6
  BY <1>1, FromStart
<1>3. Stuck(b, i)
  BY <1>1, <1>2, StuckAtLow
<1> QED BY <1>3, StuckAtOnce

\* One in step with an answer: its number, or its number and its bid.
LEMMA BodyInStep ==
  ASSUME NEW n \in Nat \ {0}, NEW b, NEW at, NEW off, Plain(b, n), InLine(b, n, at, off),
         NEW i, i = 1, at[i] = 2, n = IF off[i] < 0 THEN 2 ELSE 6
  PROVE  Told(b, n, off)
<1>1. n \in Nat /\ i \in 1..n
  OBVIOUS
<1> DEFINE m == off[i]
<1>2. m \in -1..127
  BY <1>1 DEF InLine
<1>3. \A k \in 0..6 : 2 + k <= AnswerLength(m) /\ i + k <= n =>
        off[i + k] = m /\ b[i + k] = AnswerByte(m, 2 + k)
  <2> TAKE k \in 0..6
  <2> HAVE 2 + k <= AnswerLength(m) /\ i + k <= n
  <2>1. at[i + k] = 2 + k /\ off[i + k] = m
    BY <1>1, InAnswer
  <2>2. i + k \in 1..n
    BY <1>1
  <2> QED BY <2>1, <2>2 DEF InLine
<1> HIDE DEF m
<1>4. \A k \in 0..6 : 1 + k <= n => off[1 + k] = m /\ b[1 + k] = AnswerByte(m, 2 + k)
  <2>1. n + 1 = AnswerLength(m)
    BY <1>2 DEF m, AnswerLength
  <2> QED BY <1>3, <2>1
<1>5. b[1] = 8 /\ 1 < n
  <2>1. 0 \in 0..6 /\ 1 + 0 = 1 /\ 2 + 0 = 2 /\ 1 <= n
    OBVIOUS
  <2>2. b[1] = AnswerByte(m, 2)
    BY <1>4, <2>1
  <2> QED BY <2>2 DEF AnswerByte
<1>6. Reads(b, i, b[i], b[i + 1], i + 2)
  <2>1. ~ (b[i] < 8) /\ b[i] % 8 = 0 /\ i < n
    BY <1>5
  <2> QED BY <1>1, <2>1, ReadsNumber
<1>7. b[i] = 8 /\ b[i] \in Nat /\ b[i] % 8 = 0
  BY <1>5
<1>8. CASE m < 0
  <2>1. i + 2 = n + 1
    BY <1>8 DEF m
  <2>2. NoBidIn(b)
    BY <1>6, <1>7, <2>1, OneRecord
  <2> QED BY <2>2 DEF Told
<1>9. CASE ~ (m < 0)
  <2>1. n = 6 /\ i + 2 = 3 /\ i + 2 \in 1..n
    BY <1>9 DEF m
  <2>2. /\ b[3] = 42 /\ b[4] = 2 /\ b[5] = 8 /\ b[6] = m /\ off[6] = m
    <3>1. /\ 2 \in 0..6 /\ 3 \in 0..6 /\ 4 \in 0..6 /\ 5 \in 0..6
          /\ 1 + 2 = 3 /\ 1 + 3 = 4 /\ 1 + 4 = 5 /\ 1 + 5 = 6
          /\ 2 + 2 = 4 /\ 2 + 3 = 5 /\ 2 + 4 = 6 /\ 2 + 5 = 7
      OBVIOUS
    <3>2. /\ b[3] = AnswerByte(m, 4) /\ b[4] = AnswerByte(m, 5) /\ b[5] = AnswerByte(m, 6)
          /\ b[6] = AnswerByte(m, 7) /\ off[6] = m
      BY <1>4, <2>1, <3>1
    <3> QED BY <1>9, <3>2 DEF AnswerByte
  <2>3. PICK j \in 1..n : j = i + 2
    BY <2>1
  <2>4. Reads(b, j, 42, MoneyBytes(b[n]), n + 1)
    <3>1. j + 3 = n /\ b[j] = 42 /\ b[j + 1] = 2 /\ b[j + 2] = 8
      BY <2>1, <2>2, <2>3
    <3> QED BY <1>1, <3>1, MoneyAt
  <2>5. b[n] = m /\ off[n] = m /\ m \in 0..127
    BY <1>2, <1>9, <2>1, <2>2
  <2>6. Reads(b, i, b[i], b[i + 1], j)
    BY <1>6, <2>3
  <2>7. BidIn(b, m)
    <3>1. PICK k : k = n + 1
      OBVIOUS
    <3>2. Reads(b, j, 42, MoneyBytes(m), k)
      BY <2>4, <2>5, <3>1
    <3> QED BY <1>7, <2>5, <2>6, <3>1, <3>2, NumberAndMoney
  <2> QED BY <2>5, <2>7 DEF Told
<1> QED BY <1>8, <1>9

\* The message type or the length of the money, taken for a tag.
LEMMA BodyLowTag ==
  ASSUME NEW n \in Nat \ {0}, NEW b, NEW at, NEW off, Plain(b, n), InLine(b, n, at, off),
         NEW i, i = 1, ~ (off[i] < 0), at[i] \in {3, 5}
  PROVE  NoBidIn(b)
<1>1. n \in Nat /\ i \in 1..n
  OBVIOUS
<1>2. b[i] = AnswerByte(off[i], at[i]) /\ off[i] \in -1..127
  BY <1>1 DEF InLine
<1>3. b[i] \in {2, 4}
  BY <1>2 DEF AnswerByte
<1>4. Stuck(b, i)
  BY <1>1, <1>3, StuckAtLow
<1> QED BY <1>4, StuckAtOnce

\* The money without the message type.
LEMMA BodyMoneyOnly ==
  ASSUME NEW n \in Nat \ {0}, NEW b, NEW at, NEW off, Plain(b, n), InLine(b, n, at, off),
         NEW i, i = 1, ~ (off[i] < 0), at[i] = 4, n = 4
  PROVE  NoBidIn(b)
<1>1. n \in Nat /\ i \in 1..n
  OBVIOUS
<1> DEFINE m == off[i]
<1>2. m \in -1..127
  BY <1>1 DEF InLine
<1>3. \A k \in 0..6 : 4 + k <= AnswerLength(m) /\ i + k <= n => b[i + k] = AnswerByte(m, 4 + k)
  <2> TAKE k \in 0..6
  <2> HAVE 4 + k <= AnswerLength(m) /\ i + k <= n
  <2>1. at[i + k] = 4 + k /\ off[i + k] = m
    BY <1>1, InAnswer
  <2>2. i + k \in 1..n
    BY <1>1
  <2> QED BY <2>1, <2>2 DEF InLine
<1>4. b[1] = 42 /\ b[2] = 2 /\ b[3] = 8
  <2>1. AnswerLength(m) = 7 /\ AnswerByte(m, 4) = 42 /\ AnswerByte(m, 5) = 2 /\ AnswerByte(m, 6) = 8
    BY <1>2 DEF AnswerLength, AnswerByte
  <2>2. /\ 0 \in 0..6 /\ 1 \in 0..6 /\ 2 \in 0..6 /\ i + 0 = 1 /\ i + 1 = 2 /\ i + 2 = 3
        /\ 4 + 0 = 4 /\ 4 + 1 = 5 /\ 4 + 2 = 6 /\ 1 <= n /\ 2 <= n /\ 3 <= n
    OBVIOUS
  <2> HIDE DEF m
  <2> QED BY <1>3, <2>1, <2>2
<1>5. Reads(b, i, 42, MoneyBytes(b[n]), n + 1)
  <2>1. i + 3 = n /\ b[i] = 42 /\ b[i + 1] = 2 /\ b[i + 2] = 8
    BY <1>4
  <2> QED BY <1>1, <2>1, MoneyAt
<1>6. 42 \in Nat /\ 42 % 8 \in {0, 2}
  OBVIOUS
<1> QED BY <1>5, <1>6, OneRecord

\* The amount alone, with its tag.
LEMMA BodyAmountOnly ==
  ASSUME NEW n \in Nat \ {0}, NEW b, NEW at, NEW off, Plain(b, n), InLine(b, n, at, off),
         NEW i, i = 1, ~ (off[i] < 0), at[i] = 6, n = 2
  PROVE  NoBidIn(b)
<1>1. n \in Nat /\ i \in 1..n
  OBVIOUS
<1>2. b[i] = 8
  <2>1. b[i] = AnswerByte(off[i], at[i]) /\ off[i] \in -1..127
    BY <1>1 DEF InLine
  <2> QED BY <2>1 DEF AnswerByte
<1>3. Reads(b, i, b[i], b[i + 1], i + 2)
  <2>1. ~ (b[i] < 8) /\ b[i] % 8 = 0 /\ i < n
    BY <1>2
  <2> QED BY <1>1, <2>1, ReadsNumber
<1>4. b[i] \in Nat /\ b[i] % 8 \in {0, 2} /\ i + 2 = n + 1
  BY <1>2
<1> QED BY <1>3, <1>4, OneRecord

\* The last byte of an answer, taken for the tag of as many bytes as the length of the next
\* answer says: they are that answer without its end, or all of it.
LEMMA BodyOfBytes ==
  ASSUME NEW n \in Nat \ {0}, NEW b, NEW at, NEW off, Plain(b, n), InLine(b, n, at, off), n = 8,
         NEW i, i = 1, NEW j, j = 2, at[j] = 1, ~ (b[i] < 8), b[i] % 8 = 2
  PROVE  NoBidIn(b)
<1>1. n \in Nat /\ i \in 1..n /\ j \in 1..n /\ j = i + 1
  OBVIOUS
<1>2. /\ b[j] = IF off[j] < 0 THEN 2 ELSE 6
      /\ off[j] < 0 /\ j + 3 <= n => at[j + 3] = 1
  BY <1>1, FromStart
<1>3. Reads(b, i, b[i], SubSeq(b, i + 2, i + 1 + b[i + 1]), i + 2 + b[i + 1])
  <2>1. i < n /\ i + 2 + b[i + 1] <= n + 1
    BY <1>1, <1>2
  <2> QED BY <1>1, <2>1, ReadsBytes
<1>4. CASE off[j] < 0
  <2>1. PICK k \in 1..n : k = j + 3
    BY <1>1
  <2>2. i + 2 + b[i + 1] = k /\ at[k] = 1
    BY <1>1, <1>2, <1>4, <2>1
  <2>3. b[k] = IF off[k] < 0 THEN 2 ELSE 6
    BY <1>1, <2>2, FromStart
  <2>4. Stuck(b, k)
    BY <1>1, <2>3, StuckAtLow
  <2> QED BY <1>3, <2>2, <2>4, StuckSecond
<1>5. CASE ~ (off[j] < 0)
  <2>1. i + 2 + b[i + 1] = n + 1
    BY <1>1, <1>2, <1>5
  <2>2. b[i] \in Nat /\ b[i] % 8 \in {0, 2}
    BY <1>1, PlainByte
  <2> QED BY <1>3, <2>1, <2>2, OneRecord
<1> QED BY <1>4, <1>5

\* ... for the tag of a number: after it are an answer without its first two bytes and what
\* comes next, which is the start of an answer, or the money of one bid.
LEMMA BodyOfNumber ==
  ASSUME NEW n \in Nat \ {0}, NEW b, NEW at, NEW off, Plain(b, n), InLine(b, n, at, off), n = 8,
         NEW i, i = 1, NEW j, j = 2, at[j] = 1, ~ (b[i] < 8), b[i] % 8 = 0
  PROVE  Told(b, n, off)
<1>1. n \in Nat /\ i \in 1..n /\ j \in 1..n /\ j = i + 1
  OBVIOUS
<1>2. /\ j + 1 <= n => b[j + 1] = 8
      /\ off[j] < 0 /\ j + 3 <= n => at[j + 3] = 1
      /\ ~ (off[j] < 0) =>
              /\ j + 3 <= n => b[j + 3] = 42
              /\ j + 4 <= n => b[j + 4] = 2
              /\ j + 5 <= n => b[j + 5] = 8
              /\ j + 6 <= n => b[j + 6] = off[j] /\ off[j + 6] = off[j]
  BY <1>1, FromStart
<1>3. Reads(b, i, b[i], b[i + 1], i + 2)
  <2>1. i < n
    BY <1>1
  <2> QED BY <1>1, <2>1, ReadsNumber
<1>4. PICK k \in 1..n : k = 3
  OBVIOUS
<1>5. i + 2 = k /\ b[k] = 8
  BY <1>1, <1>2, <1>4
<1>6. Reads(b, k, b[k], b[k + 1], k + 2)
  <2>1. ~ (b[k] < 8) /\ b[k] % 8 = 0 /\ k < n
    BY <1>4, <1>5
  <2> QED BY <1>1, <2>1, ReadsNumber
<1>7. PICK l \in 1..n : l = 5
  OBVIOUS
<1>8. k + 2 = l /\ j + 3 = l
  BY <1>1, <1>4, <1>7
<1>9. Reads(b, i, b[i], b[i + 1], k) /\ Reads(b, k, b[k], b[k + 1], l)
  BY <1>3, <1>5, <1>6, <1>8
<1>10. CASE off[j] < 0
  <2>1. at[l] = 1
    BY <1>2, <1>8, <1>10
  <2>2. b[l] = IF off[l] < 0 THEN 2 ELSE 6
    BY <1>1, <2>1, FromStart
  <2>3. Stuck(b, l)
    BY <1>1, <2>2, StuckAtLow
  <2>4. NoBidIn(b)
    BY <1>9, <2>3, StuckThird
  <2> QED BY <2>4 DEF Told
<1>11. CASE ~ (off[j] < 0)
  <2>1. b[l] = 42 /\ b[l + 1] = 2 /\ b[l + 2] = 8 /\ b[n] = off[j] /\ off[n] = off[j]
    BY <1>1, <1>2, <1>7, <1>11
  <2>2. PICK end : end = n + 1
    OBVIOUS
  <2>3. Reads(b, l, 42, MoneyBytes(b[n]), end)
    <3>1. l + 3 = n
      BY <1>7
    <3> QED BY <1>1, <2>1, <2>2, <3>1, MoneyAt
  <2>4. PICK m \in 0..127 : m = off[n]
    <3>1. off[j] \in -1..127
      BY <1>1 DEF InLine
    <3> QED BY <1>11, <2>1, <3>1
  <2>5. b[i] \in Nat /\ b[k] \in Nat /\ b[k] % 8 = 0
    BY <1>1, <1>5, PlainByte
  <2>6. Reads(b, l, 42, MoneyBytes(m), end)
    BY <2>1, <2>3, <2>4
  <2>7. BidIn(b, m)
    BY <1>9, <2>2, <2>5, <2>6, NumbersAndMoney
  <2> QED BY <2>4, <2>7 DEF Told
<1> QED BY <1>10, <1>11

\* ... for the tag of four bytes: what comes after them does not go on to the end.
LEMMA BodyOfFour ==
  ASSUME NEW n \in Nat \ {0}, NEW b, NEW at, NEW off, Plain(b, n), InLine(b, n, at, off), n = 8,
         NEW i, i = 1, NEW j, j = 2, at[j] = 1, ~ (b[i] < 8), b[i] % 8 = 5
  PROVE  NoBidIn(b)
<1>1. n \in Nat /\ i \in 1..n /\ j \in 1..n /\ j = i + 1
  OBVIOUS
<1>2. /\ off[j] < 0 /\ j + 3 <= n => at[j + 3] = 1
      /\ ~ (off[j] < 0) /\ j + 4 <= n => b[j + 4] = 2
  BY <1>1, FromStart
<1>3. PICK k \in 1..n : k = 6
  OBVIOUS
<1>4. Reads(b, i, b[i], SubSeq(b, i + 1, i + 4), k)
  <2>1. i + 4 <= n /\ i + 5 = k
    BY <1>1, <1>3
  <2>2. Reads(b, i, b[i], SubSeq(b, i + 1, i + 4), i + 5)
    BY <1>1, <2>1, ReadsFour
  <2> QED BY <2>1, <2>2
<1>5. CASE ~ (off[j] < 0)
  <2>1. b[k] = 2
    BY <1>1, <1>2, <1>3, <1>5
  <2>2. Stuck(b, k)
    BY <1>1, <2>1, StuckAtLow
  <2> QED BY <1>4, <2>2, StuckSecond
<1>6. CASE off[j] < 0
  <2>1. PICK l \in 1..n : l = 5
    OBVIOUS
  <2>2. at[l] = 1
    BY <1>1, <1>2, <1>6, <2>1
  <2>3. /\ l + 1 <= n => b[l + 1] = 8
        /\ off[l] < 0 /\ l + 3 <= n => at[l + 3] = 1
        /\ ~ (off[l] < 0) => (l + 3 <= n => b[l + 3] = 42)
    BY <1>1, <2>2, FromStart
  <2>4. PICK last \in 1..n : last = 8
    OBVIOUS
  <2>5. Reads(b, k, b[k], b[k + 1], last)
    <3>1. b[k] = 8 /\ k < n /\ k + 2 = last
      BY <1>3, <2>1, <2>3, <2>4
    <3>2. ~ (b[k] < 8) /\ b[k] % 8 = 0
      BY <3>1
    <3>3. Reads(b, k, b[k], b[k + 1], k + 2)
      BY <1>1, <3>1, <3>2, ReadsNumber
    <3> QED BY <3>1, <3>3
  <2>6. Stuck(b, last)
    <3>1. CASE off[l] < 0
      <4>1. at[last] = 1
        BY <2>1, <2>3, <2>4, <3>1
      <4>2. b[last] = IF off[last] < 0 THEN 2 ELSE 6
        BY <1>1, <4>1, FromStart
      <4> QED BY <1>1, <4>2, StuckAtLow
    <3>2. CASE ~ (off[l] < 0)
      <4>1. b[last] = 42 /\ last = n
        BY <2>1, <2>3, <2>4, <3>2
      <4>2. ~ (b[last] < 8) /\ b[last] % 8 = 2
        BY <4>1
      <4> QED BY <1>1, <4>1, <4>2, StuckAtEnd
    <3> QED BY <3>1, <3>2
  <2> QED BY <1>4, <2>5, <2>6, StuckThird
<1> QED BY <1>5, <1>6

\* All of them.
LEMMA BodyOfLast ==
  ASSUME NEW n \in Nat \ {0}, NEW b, NEW at, NEW off, Plain(b, n), InLine(b, n, at, off), n = 8,
         NEW i, i = 1, at[i] = AnswerLength(off[i])
  PROVE  Told(b, n, off)
<1>1. PICK j : j = 2
  OBVIOUS
<1>2. n \in Nat /\ i \in 1..n /\ j \in 1..n /\ j = i + 1
  BY <1>1
<1>3. at[j] = 1
  BY <1>2 DEF InLine
<1>4. b[i] \in 0..127
  BY <1>2, PlainByte
<1>5. CASE b[i] < 8
  <2>1. Stuck(b, i)
    BY <1>2, <1>5, StuckAtLow
  <2>2. NoBidIn(b)
    BY <2>1, StuckAtOnce
  <2> QED BY <2>2 DEF Told
<1>6. CASE ~ (b[i] < 8) /\ b[i] % 8 = 0
  BY <1>1, <1>3, <1>6, BodyOfNumber
<1>7. CASE ~ (b[i] < 8) /\ b[i] % 8 = 2
  <2>1. NoBidIn(b)
    BY <1>1, <1>3, <1>7, BodyOfBytes
  <2> QED BY <2>1 DEF Told
<1>8. CASE ~ (b[i] < 8) /\ b[i] % 8 = 5
  <2>1. NoBidIn(b)
    BY <1>1, <1>3, <1>8, BodyOfFour
  <2> QED BY <2>1 DEF Told
<1>9. CASE ~ (b[i] < 8) /\ b[i] % 8 = 1
  <2>1. i + 8 > n
    BY <1>2
  <2>2. Stuck(b, i)
    BY <1>2, <1>9, <2>1, StuckAtEight
  <2>3. NoBidIn(b)
    BY <2>2, StuckAtOnce
  <2> QED BY <2>3 DEF Told
<1>10. CASE b[i] % 8 \notin {0, 1, 2, 5}
  <2>1. Stuck(b, i)
    BY <1>2, <1>10, StuckAtOther
  <2>2. NoBidIn(b)
    BY <2>1, StuckAtOnce
  <2> QED BY <2>2 DEF Told
<1> QED BY <1>5, <1>6, <1>7, <1>8, <1>9, <1>10

\* Wherever in an answer the length of the body was read.
Announces(n, at, off) == at[1] = 1 \/ n = AnswerByte(off[1], at[1] - 1)

LEMMA BodyTells ==
  ASSUME NEW n \in Nat \ {0}, NEW b, NEW at, NEW off, Plain(b, n), InLine(b, n, at, off),
         Announces(n, at, off)
  PROVE  Told(b, n, off)
<1>1. PICK i : i = 1
  OBVIOUS
<1>2. n \in Nat /\ i \in 1..n
  BY <1>1
<1>3. at[i] \in 1..7 /\ off[i] \in -1..127 /\ at[i] <= AnswerLength(off[i])
  BY <1>2 DEF InLine
<1>4. CASE at[i] = 1
  <2>1. NoBidIn(b)
    BY <1>1, <1>4, BodyAtStart
  <2> QED BY <2>1 DEF Told
<1>5. CASE at[i] # 1
  <2>1. n = AnswerByte(off[i], at[i] - 1)
    BY <1>1, <1>5 DEF Announces
  <2>2. CASE at[i] = 2
    <3>1. n = IF off[i] < 0 THEN 2 ELSE 6
      BY <1>3, <2>1, <2>2 DEF AnswerByte
    <3> QED BY <1>1, <2>2, <3>1, BodyInStep
  <2>3. CASE at[i] = AnswerLength(off[i])
    <3>1. n = 8
      BY <1>3, <2>1, <2>3 DEF AnswerByte, AnswerLength
    <3> QED BY <1>1, <2>3, <3>1, BodyOfLast
  <2>4. CASE at[i] # 2 /\ at[i] # AnswerLength(off[i])
    <3>1. ~ (off[i] < 0) /\ at[i] \in {3, 4, 5, 6}
      BY <1>3, <1>5, <2>4 DEF AnswerLength
    <3>2. CASE at[i] \in {3, 5}
      <4>1. NoBidIn(b)
        BY <1>1, <3>1, <3>2, BodyLowTag
      <4> QED BY <4>1 DEF Told
    <3>3. CASE at[i] = 4
      <4>1. n = 4
        BY <1>3, <2>1, <3>1, <3>3 DEF AnswerByte
      <4>2. NoBidIn(b)
        BY <1>1, <3>1, <3>3, <4>1, BodyMoneyOnly
      <4> QED BY <4>2 DEF Told
    <3>4. CASE at[i] = 6
      <4>1. n = 2
        BY <1>3, <2>1, <3>1, <3>4 DEF AnswerByte
      <4>2. NoBidIn(b)
        BY <1>1, <3>1, <3>4, <4>1, BodyAmountOnly
      <4> QED BY <4>2 DEF Told
    <3> QED BY <3>1, <3>2, <3>3, <3>4
  <2> QED BY <2>2, <2>3, <2>4
<1> QED BY <1>4, <1>5

-----------------------------------------------------------------------------
(* Parts of a line of answers. *)

\* The first n values of g are those of f after the first k, or are all x.
Numbers(g, n) == g \in [1..n -> -1..127]
FromOn(g, f, n, k) == \A i \in 1..n : g[i] = f[i + k]
Beginning(f, n) == [i \in 1..n |-> f[i]]
AnswerFrom(g, n, l, m) == \A i \in n + 1..l : g[i] = AnswerByte(m, i - n)
AmountFrom(g, n, l, m) == \A i \in n + 1..l : g[i] = m
WholeFrom(c, l, new, first) ==
  \E to : InLine(c, l, to, new) /\ to[l] = AnswerLength(new[l]) /\ to[1] = first

\* Bytes that have been read are gone ...
LEMMA InLineSuffix ==
  ASSUME NEW n \in Nat, NEW b, NEW at, NEW off, InLine(b, n, at, off), NEW k \in 0..n,
         NEW l, l = n - k, NEW c, FromOn(c, b, l, k), NEW new, Numbers(new, l), FromOn(new, off, l, k),
         NEW to, to \in [1..l -> 1..7], FromOn(to, at, l, k)
  PROVE  InLine(c, l, to, new)
<1>1. l \in Nat /\ \A i \in 1..l : i + k \in 1..n /\ (i + 1 \in 1..l => (i + 1) + k = (i + k) + 1)
  OBVIOUS
<1>2. \A i \in 1..n : at[i] \in 1..7
  BY DEF InLine
<1>3. to \in [1..l -> 1..7]
  OBVIOUS
<1>4. \A i \in 1..l : to[i] = at[i + k] /\ c[i] = b[i + k] /\ new[i] = off[i + k]
  BY DEF FromOn
<1>5. new \in [1..l -> -1..127]
  BY DEF Numbers
<1>6. \A i \in 1..l : to[i] <= AnswerLength(new[i]) /\ c[i] = AnswerByte(new[i], to[i])
  <2> TAKE i \in 1..l
  <2>1. i + k \in 1..n
    BY <1>1
  <2>2. at[i + k] <= AnswerLength(off[i + k]) /\ b[i + k] = AnswerByte(off[i + k], at[i + k])
    BY <2>1 DEF InLine
  <2> QED BY <1>4, <2>2
<1>7. \A i \in 1..l : i + 1 \in 1..l =>
        IF to[i] < AnswerLength(new[i]) THEN new[i + 1] = new[i] /\ to[i + 1] = to[i] + 1
        ELSE to[i + 1] = 1
  <2> TAKE i \in 1..l
  <2> HAVE i + 1 \in 1..l
  <2> DEFINE j == i + k
  <2>1. j \in 1..n /\ j + 1 \in 1..n /\ (i + 1) + k = j + 1
    BY <1>1
  <2>2. /\ to[i] = at[j] /\ new[i] = off[j]
        /\ to[i + 1] = at[j + 1] /\ new[i + 1] = off[j + 1]
    BY <1>4, <2>1
  <2> HIDE DEF j
  <2>3. IF at[j] < AnswerLength(off[j]) THEN off[j + 1] = off[j] /\ at[j + 1] = at[j] + 1
        ELSE at[j + 1] = 1
    BY <2>1 DEF InLine
  <2> QED BY <2>2, <2>3
<1> QED BY <1>3, <1>5, <1>6, <1>7 DEF InLine

\* ... a body is the first of them ...
LEMMA InLinePrefix ==
  ASSUME NEW n \in Nat, NEW b, NEW at, NEW off, InLine(b, n, at, off), NEW l \in 0..n,
         NEW c, FromOn(c, b, l, 0)
  PROVE  InLine(c, l, Beginning(at, l), Beginning(off, l))
<1> DEFINE to == [i \in 1..l |-> at[i]]
           new == [i \in 1..l |-> off[i]]
<1>1. l \in Nat /\ \A i \in 1..l : i \in 1..n
  OBVIOUS
<1>2. \A i \in 1..n : at[i] \in 1..7 /\ off[i] \in -1..127
  BY DEF InLine
<1>3. to \in [1..l -> 1..7] /\ new \in [1..l -> -1..127]
  BY <1>1, <1>2
<1>4. \A i \in 1..l : to[i] = at[i] /\ c[i] = b[i] /\ new[i] = off[i]
  <2>1. \A i \in 1..l : i + 0 = i
    OBVIOUS
  <2> QED BY <2>1 DEF FromOn
<1> HIDE DEF to, new
<1>5. \A i \in 1..l : to[i] <= AnswerLength(new[i]) /\ c[i] = AnswerByte(new[i], to[i])
  BY <1>1, <1>4 DEF InLine
<1>6. \A i \in 1..l : i + 1 \in 1..l =>
        IF to[i] < AnswerLength(new[i]) THEN new[i + 1] = new[i] /\ to[i + 1] = to[i] + 1
        ELSE to[i + 1] = 1
  <2> TAKE i \in 1..l
  <2> HAVE i + 1 \in 1..l
  <2>1. i \in 1..n /\ i + 1 \in 1..n
    BY <1>1
  <2>2. IF at[i] < AnswerLength(off[i]) THEN off[i + 1] = off[i] /\ at[i + 1] = at[i] + 1
        ELSE at[i + 1] = 1
    BY <2>1 DEF InLine
  <2> QED BY <1>4, <2>2
<1>7. InLine(c, l, to, new)
  BY <1>3, <1>5, <1>6 DEF InLine
<1> QED BY <1>7 DEF to, new, Beginning

\* ... and another answer comes after the end of one.
LEMMA InLineLonger ==
  ASSUME NEW n \in Nat, NEW b, NEW at, NEW off, InLine(b, n, at, off),
         n > 0 => at[n] = AnswerLength(off[n]),
         NEW m \in -1..127, NEW l \in Nat, l = n + AnswerLength(m),
         NEW c, FromOn(c, b, n, 0), AnswerFrom(c, n, l, m),
         NEW new, Numbers(new, l), FromOn(new, off, n, 0), AmountFrom(new, n, l, m),
         NEW first, first = IF n > 0 THEN at[1] ELSE 1
  PROVE  WholeFrom(c, l, new, first)
<1> DEFINE to == [i \in 1..l |-> IF i <= n THEN at[i] ELSE i - n]
<1>0. /\ \A i \in 1..n : c[i] = b[i] /\ new[i] = off[i]
      /\ \A i \in n + 1..l : c[i] = AnswerByte(m, i - n) /\ new[i] = m
      /\ new \in [1..l -> -1..127]
  <2>1. \A i \in 1..n : i + 0 = i
    OBVIOUS
  <2> QED BY <2>1 DEF FromOn, AnswerFrom, AmountFrom, Numbers
<1>1. AnswerLength(m) \in 1..7 /\ l - n = AnswerLength(m) /\ l \in 1..l /\ l \in n + 1..l
  BY DEF AnswerLength
<1>2. \A i \in 1..n : at[i] \in 1..7
  BY DEF InLine
<1>3. to \in [1..l -> 1..7]
  <2>1. ASSUME NEW i \in 1..l PROVE (IF i <= n THEN at[i] ELSE i - n) \in 1..7
    <3>1. CASE i <= n
      BY <1>2, <3>1
    <3>2. CASE ~ (i <= n)
      BY <1>1, <3>2
    <3> QED BY <3>1, <3>2
  <2> QED BY <2>1
<1>4. /\ \A i \in 1..n : i \in 1..l /\ to[i] = at[i]
      /\ \A i \in n + 1..l : i \in 1..l /\ to[i] = i - n
      /\ \A i \in 1..l : i \in 1..n \/ i \in n + 1..l
  BY <1>1
<1> HIDE DEF to
<1>5. \A i \in 1..l : to[i] <= AnswerLength(new[i]) /\ c[i] = AnswerByte(new[i], to[i])
  <2> TAKE i \in 1..l
  <2>1. CASE i \in 1..n
    <3>1. to[i] = at[i] /\ new[i] = off[i] /\ c[i] = b[i]
      BY <1>0, <1>4, <2>1
    <3>2. at[i] <= AnswerLength(off[i]) /\ b[i] = AnswerByte(off[i], at[i])
      BY <2>1 DEF InLine
    <3> QED BY <3>1, <3>2
  <2>2. CASE i \in n + 1..l
    <3>1. to[i] = i - n /\ new[i] = m /\ c[i] = AnswerByte(m, i - n)
      BY <1>0, <1>4, <2>2
    <3>2. i - n <= AnswerLength(m)
      BY <1>1, <2>2
    <3> QED BY <3>1, <3>2
  <2> QED BY <1>4, <2>1, <2>2
<1>6. \A i \in 1..l : i + 1 \in 1..l =>
        IF to[i] < AnswerLength(new[i]) THEN new[i + 1] = new[i] /\ to[i + 1] = to[i] + 1
        ELSE to[i + 1] = 1
  <2> TAKE i \in 1..l
  <2> HAVE i + 1 \in 1..l
  <2>1. CASE i + 1 \in 1..n
    <3>1. i \in 1..n
      BY <2>1
    <3>2. IF at[i] < AnswerLength(off[i]) THEN off[i + 1] = off[i] /\ at[i + 1] = at[i] + 1
          ELSE at[i + 1] = 1
      BY <2>1, <3>1 DEF InLine
    <3> QED BY <1>0, <1>4, <2>1, <3>1, <3>2
  <2>2. CASE i = n
    <3>1. n \in 1..n /\ to[i] = at[n] /\ new[i] = off[n] /\ at[n] = AnswerLength(off[n])
      BY <1>0, <1>4, <2>2
    <3>2. n + 1 \in n + 1..l /\ (n + 1) - n = 1
      BY <1>1
    <3>3. to[i + 1] = 1
      BY <1>4, <2>2, <3>2
    <3>4. AnswerLength(off[n]) \in Int
      BY DEF AnswerLength
    <3> QED BY <3>1, <3>3, <3>4
  <2>3. CASE i \in n + 1..l
    <3>1. i + 1 \in n + 1..l /\ (i + 1) - n = (i - n) + 1
      BY <2>3
    <3>2. to[i] = i - n /\ new[i] = m /\ to[i + 1] = (i - n) + 1 /\ new[i + 1] = m
      BY <1>0, <1>4, <2>3, <3>1
    <3>3. i - n < AnswerLength(m)
      BY <1>1, <2>3, <3>1
    <3> QED BY <3>2, <3>3
  <2>4. i + 1 \in 1..n \/ i = n \/ i \in n + 1..l
    OBVIOUS
  <2> QED BY <2>1, <2>2, <2>3, <2>4
<1>7. InLine(c, l, to, new)
  BY <1>0, <1>3, <1>5, <1>6 DEF InLine
<1>8. to[l] = AnswerLength(new[l])
  BY <1>0, <1>1, <1>4
<1>9. to[1] = IF n > 0 THEN at[1] ELSE 1
  <2>1. n > 0 => 1 \in 1..n
    OBVIOUS
  <2>2. n = 0 => 1 \in n + 1..l /\ 1 - n = 1
    BY <1>1
  <2>3. n > 0 \/ n = 0
    OBVIOUS
  <2> QED BY <1>4, <2>1, <2>2, <2>3
<1> QED BY <1>7, <1>8, <1>9 DEF WholeFrom

=============================================================================
