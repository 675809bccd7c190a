--------------------------- MODULE BBSPollProofs ---------------------------
(***************************************************************************)
(* Theorems about NineBit and BBSPoll: for every board that says lines,    *)
(* whatever their number and length, and however they are delivered.       *)
(***************************************************************************)
EXTENDS BBSPoll, DataInduction, TLAPS

Bit == {0, 1}
Byte == 0 .. 255

-----------------------------------------------------------------------------
(* A byte and its bits.                                                      *)

\* The equation of the recursive function that Value takes.
Sums(g, bits) == g = [i \in 0 .. Len(bits) |-> IF i = 0 THEN 0 ELSE 2 * g[i - 1] + bits[i]]

LEMMA ValueUnfolds ==
    ASSUME NEW bits
    PROVE  Value(bits) = (CHOOSE g : Sums(g, bits))[Len(bits)]
BY DEF Value, Sums

LEMMA EightBits ==
    ASSUME NEW bits \in Seq(Bit), Len(bits) = 8
    PROVE  /\ bits = [i \in 1 .. 8 |-> bits[i]]
           /\ bits[1] \in 0 .. 1 /\ bits[2] \in 0 .. 1 /\ bits[3] \in 0 .. 1
           /\ bits[4] \in 0 .. 1 /\ bits[5] \in 0 .. 1 /\ bits[6] \in 0 .. 1
           /\ bits[7] \in 0 .. 1 /\ bits[8] \in 0 .. 1
<1>1. bits \in [1 .. 8 -> Bit]
  BY LenProperties
<1>2. Bit = 0 .. 1
  BY DEF Bit
<1> QED BY <1>1, <1>2

\* The value of eight bits.
Horner(a, b, c, d, e, f, g, h) ==
    2 * (2 * (2 * (2 * (2 * (2 * (2 * (2 * 0 + a) + b) + c) + d) + e) + f) + g) + h

LEMMA ValueOfByte ==
    ASSUME NEW bits \in Seq(Bit), Len(bits) = 8
    PROVE  Value(bits) = Horner(bits[1], bits[2], bits[3], bits[4],
                                bits[5], bits[6], bits[7], bits[8])
<1>1. \E g : Sums(g, bits)
  <2> DEFINE g1 == 2 * 0 + bits[1]
             g2 == 2 * g1 + bits[2]
             g3 == 2 * g2 + bits[3]
             g4 == 2 * g3 + bits[4]
             g5 == 2 * g4 + bits[5]
             g6 == 2 * g5 + bits[6]
             g7 == 2 * g6 + bits[7]
             g8 == 2 * g7 + bits[8]
  <2> HIDE DEF g1, g2, g3, g4, g5, g6, g7, g8
  <2> DEFINE g == [i \in 0 .. 8 |->
                     CASE i = 0 -> 0 [] i = 1 -> g1 [] i = 2 -> g2 [] i = 3 -> g3 [] i = 4 -> g4
                       [] i = 5 -> g5 [] i = 6 -> g6 [] i = 7 -> g7 [] i = 8 -> g8]
  <2>1. /\ g[0] = 0 /\ g[1] = g1 /\ g[2] = g2 /\ g[3] = g3 /\ g[4] = g4
        /\ g[5] = g5 /\ g[6] = g6 /\ g[7] = g7 /\ g[8] = g8
    OBVIOUS
  <2>2. g = [i \in 0 .. 8 |-> g[i]]
    OBVIOUS
  <2> HIDE DEF g
  <2>3. /\ g[1] = 2 * g[0] + bits[1] /\ g[2] = 2 * g[1] + bits[2]
        /\ g[3] = 2 * g[2] + bits[3] /\ g[4] = 2 * g[3] + bits[4]
        /\ g[5] = 2 * g[4] + bits[5] /\ g[6] = 2 * g[5] + bits[6]
        /\ g[7] = 2 * g[6] + bits[7] /\ g[8] = 2 * g[7] + bits[8]
    BY <2>1 DEF g1, g2, g3, g4, g5, g6, g7, g8
  <2>4. ASSUME NEW i \in 0 .. 8
        PROVE  g[i] = IF i = 0 THEN 0 ELSE 2 * g[i - 1] + bits[i]
    <3>1. i \in {0, 1, 2, 3, 4, 5, 6, 7, 8}
      OBVIOUS
    <3>2. /\ 1 - 1 = 0 /\ 2 - 1 = 1 /\ 3 - 1 = 2 /\ 4 - 1 = 3 /\ 5 - 1 = 4 /\ 6 - 1 = 5
          /\ 7 - 1 = 6 /\ 8 - 1 = 7
      OBVIOUS
    <3> QED BY <2>1, <2>3, <3>1, <3>2
  <2>5. Sums(g, bits)
    BY <2>2, <2>4 DEF Sums
  <2> QED BY <2>5
<1> DEFINE g == CHOOSE h : Sums(h, bits)
<1>2. Sums(g, bits) /\ Value(bits) = g[8]
  BY <1>1, ValueUnfolds
<1> HIDE DEF g
<1>3. /\ g[0] = 0 /\ g[1] = 2 * g[0] + bits[1] /\ g[2] = 2 * g[1] + bits[2]
      /\ g[3] = 2 * g[2] + bits[3] /\ g[4] = 2 * g[3] + bits[4]
      /\ g[5] = 2 * g[4] + bits[5] /\ g[6] = 2 * g[5] + bits[6]
      /\ g[7] = 2 * g[6] + bits[7] /\ g[8] = 2 * g[7] + bits[8]
  BY <1>2 DEF Sums
<1> QED BY <1>2, <1>3, Zenon DEF Horner

\* v is written with these eight bits.
Written(v, a, b, c, d, e, f, g, h) ==
    /\ {a, b, c, d, e, f, g, h} \subseteq 0 .. 1
    /\ v = Horner(a, b, c, d, e, f, g, h)

LEMMA Digits8 ==
    ASSUME NEW a, NEW b, NEW c, NEW d, NEW e, NEW f, NEW g, NEW h, NEW v,
           Written(v, a, b, c, d, e, f, g, h)
    PROVE  /\ v \in Byte
           /\ (v \div 128) % 2 = a /\ (v \div 64) % 2 = b /\ (v \div 32) % 2 = c
           /\ (v \div 16) % 2 = d /\ (v \div 8) % 2 = e /\ (v \div 4) % 2 = f
           /\ (v \div 2) % 2 = g /\ (v \div 1) % 2 = h
<1> USE DEF Written, Horner
<1>1. v \in Byte
  BY DEF Byte
<1>2. (v \div 128) % 2 = a
  OBVIOUS
<1>3. (v \div 64) % 2 = b
  OBVIOUS
<1>4. (v \div 32) % 2 = c
  OBVIOUS
<1>5. (v \div 16) % 2 = d
  OBVIOUS
<1>6. (v \div 8) % 2 = e
  OBVIOUS
<1>7. (v \div 4) % 2 = f
  OBVIOUS
<1>8. (v \div 2) % 2 = g
  OBVIOUS
<1>9. (v \div 1) % 2 = h
  OBVIOUS
<1> QED BY <1>1, <1>2, <1>3, <1>4, <1>5, <1>6, <1>7, <1>8, <1>9

\* Eight bits are read back from the byte they are written to.
LEMMA BitsOfValue ==
    ASSUME NEW bits \in Seq(Bit), Len(bits) = 8
    PROVE  Value(bits) \in Byte /\ Bits(Value(bits), 8) = bits
<1> DEFINE v == Horner(bits[1], bits[2], bits[3], bits[4], bits[5], bits[6], bits[7], bits[8])
<1>1. /\ bits[1] \in 0 .. 1 /\ bits[2] \in 0 .. 1 /\ bits[3] \in 0 .. 1
      /\ bits[4] \in 0 .. 1 /\ bits[5] \in 0 .. 1 /\ bits[6] \in 0 .. 1
      /\ bits[7] \in 0 .. 1 /\ bits[8] \in 0 .. 1
  BY EightBits
<1>2. v = Horner(bits[1], bits[2], bits[3], bits[4], bits[5], bits[6], bits[7], bits[8])
  OBVIOUS
<1> HIDE DEF v
<1>3. /\ v \in Byte
      /\ (v \div 128) % 2 = bits[1] /\ (v \div 64) % 2 = bits[2] /\ (v \div 32) % 2 = bits[3]
      /\ (v \div 16) % 2 = bits[4] /\ (v \div 8) % 2 = bits[5] /\ (v \div 4) % 2 = bits[6]
      /\ (v \div 2) % 2 = bits[7] /\ (v \div 1) % 2 = bits[8]
  <2>1. Written(v, bits[1], bits[2], bits[3], bits[4], bits[5], bits[6], bits[7], bits[8])
    BY <1>1, <1>2 DEF Written
  <2> QED BY <2>1, Digits8
<1>4. ASSUME NEW i \in 1 .. 8 PROVE (v \div 2^(8 - i)) % 2 = bits[i]
  <2>1. /\ 2^(8 - 1) = 128 /\ 2^(8 - 2) = 64 /\ 2^(8 - 3) = 32 /\ 2^(8 - 4) = 16
        /\ 2^(8 - 5) = 8 /\ 2^(8 - 6) = 4 /\ 2^(8 - 7) = 2 /\ 2^(8 - 8) = 1
    OBVIOUS
  <2>2. i \in {1, 2, 3, 4, 5, 6, 7, 8}
    OBVIOUS
  <2>3. CASE i = 1
    BY <1>3, <2>1, <2>3
  <2>4. CASE i = 2
    BY <1>3, <2>1, <2>4
  <2>5. CASE i = 3
    BY <1>3, <2>1, <2>5
  <2>6. CASE i = 4
    BY <1>3, <2>1, <2>6
  <2>7. CASE i = 5
    BY <1>3, <2>1, <2>7
  <2>8. CASE i = 6
    BY <1>3, <2>1, <2>8
  <2>9. CASE i = 7
    BY <1>3, <2>1, <2>9
  <2>10. CASE i = 8
    BY <1>3, <2>1, <2>10
  <2> QED BY <2>2, <2>3, <2>4, <2>5, <2>6, <2>7, <2>8, <2>9, <2>10
<1>5. Bits(v, 8) = [i \in 1 .. 8 |-> bits[i]]
  BY <1>4 DEF Bits
<1> QED BY <1>3, <1>5, EightBits, ValueOfByte DEF v

\* The nine bits of a character: the first of them is 0, the others are its value.
LEMMA BitsOfCharacter ==
    ASSUME NEW c \in Byte
    PROVE  Bits(c, 9) \in Seq(Bit) /\ Len(Bits(c, 9)) = 9
           /\ Value(SubSeq(Bits(c, 9), 2, 9)) = c
<1> DEFINE b == Bits(c, 9)
           s == SubSeq(b, 2, 9)
<1>1. /\ 2^(9 - 2) = 128 /\ 2^(9 - 3) = 64 /\ 2^(9 - 4) = 32 /\ 2^(9 - 5) = 16
      /\ 2^(9 - 6) = 8 /\ 2^(9 - 7) = 4 /\ 2^(9 - 8) = 2 /\ 2^(9 - 9) = 1 /\ 2^(9 - 1) = 256
  OBVIOUS
<1>2. /\ b[1] = (c \div 256) % 2 /\ b[2] = (c \div 128) % 2 /\ b[3] = (c \div 64) % 2
      /\ b[4] = (c \div 32) % 2 /\ b[5] = (c \div 16) % 2 /\ b[6] = (c \div 8) % 2
      /\ b[7] = (c \div 4) % 2 /\ b[8] = (c \div 2) % 2 /\ b[9] = (c \div 1) % 2
  BY <1>1 DEF Bits
<1>3. \A i \in 1 .. 9 : b[i] \in Bit
  BY <1>2 DEF Byte, Bit
<1>4. b \in Seq(Bit) /\ Len(b) = 9
  BY <1>3 DEF Bits
<1> HIDE DEF b
<1>5. s \in Seq(Bit) /\ Len(s) = 8 /\ \A i \in 1 .. 8 : s[i] = b[i + 1]
  BY <1>3, SubSeqProperties
<1>6. Value(s) = Horner(b[2], b[3], b[4], b[5], b[6], b[7], b[8], b[9])
  <2> HIDE DEF s
  <2> QED BY <1>5, ValueOfByte
<1>7. c = Horner((c \div 128) % 2, (c \div 64) % 2, (c \div 32) % 2, (c \div 16) % 2,
                 (c \div 8) % 2, (c \div 4) % 2, (c \div 2) % 2, (c \div 1) % 2)
  BY DEF Byte, Horner
<1> QED BY <1>2, <1>4, <1>6, <1>7 DEF b

-----------------------------------------------------------------------------
(* Bits of several bytes, and of several characters.                         *)

\* Sequences of one length, and a sequence that they make when flattened.
SameLength(seqs, S, w) == seqs \in Seq(Seq(S)) /\ \A i \in 1 .. Len(seqs) : Len(seqs[i]) = w
Spread(flat, seqs, w) ==
    /\ Len(flat) = w * Len(seqs)
    /\ \A i \in 1 .. Len(seqs), j \in 1 .. w : flat[w * (i - 1) + j] = seqs[i][j]

LEMMA FlattenEven ==
    ASSUME NEW S, NEW w \in {8, 9}, NEW seqs, SameLength(seqs, S, w)
    PROVE  Spread(FlattenSeq(seqs), seqs, w)
<1> DEFINE Even(s) == /\ Len(FlattenSeq(s)) = w * Len(s)
                      /\ \A i \in 1 .. Len(s), j \in 1 .. w :
                           FlattenSeq(s)[w * (i - 1) + j] = s[i][j]
           T == {s \in Seq(Seq(S)) : (\A i \in 1 .. Len(s) : Len(s[i]) = w) => Even(s)}
<1>1. <<>> \in T
  <2>1. Len(<<>>) = 0 /\ 1 .. 0 = {} /\ w * 0 = 0
    BY EmptySeq
  <2> QED BY <2>1, FlattenEmpty, EmptySeq
<1>2. ASSUME NEW s \in Seq(Seq(S)), NEW e \in Seq(S), s \in T PROVE Append(s, e) \in T
  <2> DEFINE t == Append(s, e)
             n == Len(s)
  <2>1. /\ t \in Seq(Seq(S)) /\ Len(t) = n + 1 /\ n \in Nat /\ t[n + 1] = e
        /\ \A i \in 1 .. n : t[i] = s[i]
    BY AppendProperties, LenProperties
  <2> SUFFICES ASSUME \A i \in 1 .. Len(t) : Len(t[i]) = w PROVE Even(t)
    BY <2>1
  <2> HIDE DEF t
  <2>2. Len(e) = w /\ \A i \in 1 .. n : Len(s[i]) = w
    BY <2>1
  <2>3. Even(s)
    BY <1>2, <2>2
  <2> DEFINE f == FlattenSeq(s)
  <2>4. f \in Seq(S)
    BY FlattenType
  <2>5. FlattenSeq(t) = f \o e
    BY FlattenAppend DEF t
  <2>6. /\ Len(f \o e) = Len(f) + w
        /\ \A k \in 1 .. Len(f) + w : (f \o e)[k] = IF k <= Len(f) THEN f[k] ELSE e[k - Len(f)]
    BY <2>2, <2>4, ConcatProperties
  <2> HIDE DEF f
  <2>7. Len(f) = w * n
    BY <2>3 DEF f
  <2>8. ASSUME NEW i \in 1 .. n + 1, NEW j \in 1 .. w
        PROVE  (f \o e)[w * (i - 1) + j] = t[i][j]
    <3>1. CASE i = n + 1
      <4>1. w * (i - 1) + j \in 1 .. w * n + w /\ ~(w * (i - 1) + j <= w * n)
            /\ w * (i - 1) + j - w * n = j
        BY <2>1, <3>1
      <4> QED BY <2>1, <2>6, <2>7, <3>1, <4>1
    <3>2. CASE i \in 1 .. n
      <4>1. w * (i - 1) + j \in 1 .. w * n + w /\ w * (i - 1) + j <= w * n
        <5>1. CASE w = 8
          BY <2>1, <3>2, <5>1
        <5>2. CASE w = 9
          BY <2>1, <3>2, <5>2
        <5> QED BY <5>1, <5>2
      <4>2. f[w * (i - 1) + j] = s[i][j]
        BY <2>3, <3>2 DEF f
      <4> DEFINE k == w * (i - 1) + j
      <4>3. k \in 1 .. Len(f) + w /\ k <= Len(f)
        BY <2>7, <4>1
      <4>4. f[k] = s[i][j] /\ t[i] = s[i]
        BY <2>1, <3>2, <4>2
      <4>6. w * (i - 1) + j = k
        OBVIOUS
      <4> HIDE DEF k
      <4>5. (f \o e)[k] = t[i][j]
        BY <2>6, <4>3, <4>4
      <4> QED BY <4>5, <4>6
    <3>3. i = n + 1 \/ i \in 1 .. n
      BY <2>1
    <3> QED BY <3>1, <3>2, <3>3
  <2>9. Len(f \o e) = w * (n + 1)
    <3>1. w * n + w = w * (n + 1)
      <4>1. CASE w = 8
        BY <2>1, <4>1
      <4>2. CASE w = 9
        BY <2>1, <4>2
      <4> QED BY <4>1, <4>2
    <3> QED BY <2>6, <2>7, <3>1
  <2> QED BY <2>1, <2>5, <2>8, <2>9
<1> HIDE DEF T
<1>3. Seq(Seq(S)) \subseteq T
  BY <1>1, <1>2, SequenceInduction
<1>4. Even(seqs)
  BY <1>3 DEF T, SameLength
<1> QED BY <1>4 DEF Spread

LEMMA BitsAreBits ==
    ASSUME NEW n \in Byte, NEW width \in {8, 9}
    PROVE  Bits(n, width) \in Seq(Bit) /\ Len(Bits(n, width)) = width
<1>1. CASE width = 9
  BY <1>1, BitsOfCharacter
<1>2. CASE width = 8
  <2>1. ASSUME NEW i \in 1 .. 8 PROVE (n \div 2^(8 - i)) % 2 \in Bit
    <3>1. /\ 2^(8 - 1) = 128 /\ 2^(8 - 2) = 64 /\ 2^(8 - 3) = 32 /\ 2^(8 - 4) = 16
          /\ 2^(8 - 5) = 8 /\ 2^(8 - 6) = 4 /\ 2^(8 - 7) = 2 /\ 2^(8 - 8) = 1
      OBVIOUS
    <3>2. \E p \in {128, 64, 32, 16, 8, 4, 2, 1} : 2^(8 - i) = p
      <4>1. i \in {1, 2, 3, 4, 5, 6, 7, 8}
        OBVIOUS
      <4> QED BY <3>1, <4>1
    <3> QED BY <3>2 DEF Bit, Byte
  <2> QED BY <1>2, <2>1 DEF Bits
<1> QED BY <1>1, <1>2

\* The bits of each of several numbers, of the same width.
EachBits(s, width) == FlattenSeq([i \in DOMAIN s |-> Bits(s[i], width)])

LEMMA EachBitsAre ==
    ASSUME NEW s \in Seq(Byte), NEW width \in {8, 9}
    PROVE  /\ EachBits(s, width) \in Seq(Bit)
           /\ Len(EachBits(s, width)) = width * Len(s)
           /\ \A i \in 1 .. Len(s), j \in 1 .. width :
                EachBits(s, width)[width * (i - 1) + j] = Bits(s[i], width)[j]
<1> DEFINE each == [i \in DOMAIN s |-> Bits(s[i], width)]
<1>1. DOMAIN s = 1 .. Len(s) /\ Len(s) \in Nat /\ \A i \in 1 .. Len(s) : s[i] \in Byte
  BY LenProperties
<1>2. \A i \in 1 .. Len(s) : Bits(s[i], width) \in Seq(Bit) /\ Len(Bits(s[i], width)) = width
  BY <1>1, BitsAreBits
<1>3. /\ each \in Seq(Seq(Bit)) /\ Len(each) = Len(s)
      /\ \A i \in 1 .. Len(s) : each[i] = Bits(s[i], width)
  BY <1>1, <1>2
<1>4. EachBits(s, width) = FlattenSeq(each)
  BY DEF EachBits
<1> HIDE DEF each
<1>5. SameLength(each, Bit, width)
  BY <1>2, <1>3 DEF SameLength
<1>6. Spread(EachBits(s, width), each, width)
  BY <1>4, <1>5, FlattenEven
<1>7. FlattenSeq(each) \in Seq(Bit)
  BY <1>3, FlattenType
<1> QED BY <1>3, <1>4, <1>6, <1>7 DEF Spread

\* Of n bytes the k-th bit is the j-th of the i-th.
LEMMA InByte ==
    ASSUME NEW n \in Nat, NEW k \in 1 .. 8 * n
    PROVE  /\ ((k - 1) \div 8) + 1 \in 1 .. n /\ ((k - 1) % 8) + 1 \in 1 .. 8
           /\ k = 8 * ((((k - 1) \div 8) + 1) - 1) + (((k - 1) % 8) + 1)
OBVIOUS

\* What is read is a byte sequence's bits, and what is written a text's bits with
\* zeros up to a whole byte.
LEMMA BitsOfConcat ==
    ASSUME NEW d \in Seq(Byte), NEW e \in Seq(Byte)
    PROVE  BitsOf(d \o e) = BitsOf(d) \o BitsOf(e)
<1> DEFINE m == Len(d)
           n == Len(e)
           a == BitsOf(d)
           b == BitsOf(e)
           c == BitsOf(d \o e)
<1>1. /\ d \o e \in Seq(Byte) /\ Len(d \o e) = m + n /\ m \in Nat /\ n \in Nat
      /\ \A i \in 1 .. m + n : (d \o e)[i] = IF i <= m THEN d[i] ELSE e[i - m]
  BY ConcatProperties, LenProperties
<1>2. /\ a \in Seq(Bit) /\ Len(a) = 8 * m
      /\ \A i \in 1 .. m, j \in 1 .. 8 : a[8 * (i - 1) + j] = Bits(d[i], 8)[j]
  BY EachBitsAre DEF EachBits, BitsOf
<1>3. /\ b \in Seq(Bit) /\ Len(b) = 8 * n
      /\ \A i \in 1 .. n, j \in 1 .. 8 : b[8 * (i - 1) + j] = Bits(e[i], 8)[j]
  BY EachBitsAre DEF EachBits, BitsOf
<1>4. /\ c \in Seq(Bit) /\ Len(c) = 8 * (m + n)
      /\ \A i \in 1 .. m + n, j \in 1 .. 8 : c[8 * (i - 1) + j] = Bits((d \o e)[i], 8)[j]
  <2> DEFINE f == d \o e
  <2>1. f \in Seq(Byte) /\ Len(f) = m + n
    BY <1>1
  <2> HIDE DEF f
  <2>2. /\ BitsOf(f) \in Seq(Bit) /\ Len(BitsOf(f)) = 8 * Len(f)
        /\ \A i \in 1 .. Len(f), j \in 1 .. 8 : BitsOf(f)[8 * (i - 1) + j] = Bits(f[i], 8)[j]
    BY <2>1, EachBitsAre DEF EachBits, BitsOf
  <2> QED BY <2>1, <2>2 DEF f
<1> HIDE DEF a, b, c, m, n
<1>5. /\ a \o b \in Seq(Bit) /\ Len(a \o b) = 8 * m + 8 * n
      /\ \A k \in 1 .. 8 * m + 8 * n : (a \o b)[k] = IF k <= 8 * m THEN a[k] ELSE b[k - 8 * m]
  <2>1. /\ a \o b \in Seq(Bit) /\ Len(a \o b) = Len(a) + Len(b)
        /\ \A k \in 1 .. Len(a) + Len(b) :
             (a \o b)[k] = IF k <= Len(a) THEN a[k] ELSE b[k - Len(a)]
    BY <1>2, <1>3, ConcatProperties
  <2> QED BY <1>2, <1>3, <2>1
<1>6. ASSUME NEW k \in 1 .. 8 * (m + n) PROVE c[k] = (a \o b)[k]
  <2> DEFINE i == ((k - 1) \div 8) + 1
             j == ((k - 1) % 8) + 1
  <2>1. i \in 1 .. m + n /\ j \in 1 .. 8 /\ k = 8 * (i - 1) + j
    <3>1. m + n \in Nat
      BY <1>1
    <3> HIDE DEF m, n
    <3> QED BY <3>1, InByte
  <2> HIDE DEF i, j
  <2>2. c[k] = Bits((d \o e)[i], 8)[j]
    BY <1>4, <2>1
  <2>3. CASE i <= m
    <3>1. k <= 8 * m /\ k \in 1 .. 8 * m + 8 * n /\ i \in 1 .. m
      BY <1>1, <2>1, <2>3
    <3>2. a[k] = Bits(d[i], 8)[j]
      BY <1>2, <2>1, <3>1
    <3> QED BY <1>1, <1>5, <2>1, <2>2, <2>3, <3>1, <3>2
  <2>4. CASE ~(i <= m)
    <3>1. /\ ~(k <= 8 * m) /\ k \in 1 .. 8 * m + 8 * n /\ i - m \in 1 .. n
          /\ k - 8 * m = 8 * ((i - m) - 1) + j
      BY <1>1, <2>1, <2>4
    <3>2. b[k - 8 * m] = Bits(e[i - m], 8)[j]
      BY <1>3, <2>1, <3>1
    <3> QED BY <1>1, <1>5, <2>1, <2>2, <2>4, <3>1, <3>2
  <2> QED BY <2>3, <2>4
<1>7. Len(c) = Len(a \o b)
  BY <1>1, <1>4, <1>5
<1>8. c = a \o b
  BY <1>4, <1>5, <1>6, <1>7, SeqEqual
<1> QED BY <1>8 DEF a, b, c

Padding(n) == (-n) % 8
LineBits(text) == EachBits(text, 9) \o [i \in 1 .. Padding(9 * Len(text)) |-> 0]

LEMMA LineBitsAre ==
    ASSUME NEW text \in Seq(Byte)
    PROVE  /\ LineBits(text) \in Seq(Bit)
           /\ Len(LineBits(text)) = 9 * Len(text) + Padding(9 * Len(text))
           /\ Len(LineBits(text)) % 8 = 0
           /\ Padding(9 * Len(text)) \in 0 .. 7
           /\ \A i \in 1 .. Len(text), j \in 1 .. 9 :
                LineBits(text)[9 * (i - 1) + j] = Bits(text[i], 9)[j]
<1> DEFINE a == EachBits(text, 9)
           p == Padding(9 * Len(text))
           z == [i \in 1 .. p |-> 0]
           n == Len(text)
<1>1. /\ a \in Seq(Bit) /\ Len(a) = 9 * n
      /\ \A i \in 1 .. n, j \in 1 .. 9 : a[9 * (i - 1) + j] = Bits(text[i], 9)[j]
  BY EachBitsAre
<1>2. n \in Nat /\ p \in 0 .. 7 /\ (9 * n + p) % 8 = 0
  BY LenProperties DEF Padding
<1> HIDE DEF p, a, n
<1>3. z \in Seq(Bit) /\ Len(z) = p
  <2>1. 0 \in Bit
    BY DEF Bit
  <2> QED BY <1>2, <2>1
<1> HIDE DEF z
<1>4. /\ a \o z \in Seq(Bit) /\ Len(a \o z) = 9 * n + p
      /\ \A k \in 1 .. 9 * n + p : (a \o z)[k] = IF k <= 9 * n THEN a[k] ELSE z[k - 9 * n]
  <2>1. /\ a \o z \in Seq(Bit) /\ Len(a \o z) = Len(a) + Len(z)
        /\ \A k \in 1 .. Len(a) + Len(z) :
             (a \o z)[k] = IF k <= Len(a) THEN a[k] ELSE z[k - Len(a)]
    BY <1>1, <1>3, ConcatProperties
  <2> QED BY <1>1, <1>3, <2>1
<1>5. ASSUME NEW i \in 1 .. n, NEW j \in 1 .. 9
      PROVE  (a \o z)[9 * (i - 1) + j] = Bits(text[i], 9)[j]
  <2> DEFINE k == 9 * (i - 1) + j
  <2>1. k \in 1 .. 9 * n + p /\ k <= 9 * n
    BY <1>2
  <2>3. a[k] = Bits(text[i], 9)[j]
    BY <1>1
  <2>2. 9 * (i - 1) + j = k
    OBVIOUS
  <2> HIDE DEF k
  <2> QED BY <1>4, <2>1, <2>2, <2>3
<1>6. LineBits(text) = a \o z
  BY DEF LineBits, a, z, p
<1> QED BY <1>2, <1>4, <1>5, <1>6 DEF n, p

\* What is packed is read back bit by bit.
LEMMA PackedBits ==
    ASSUME NEW text \in Seq(Byte)
    PROVE  Data_8_to_9(text) \in Seq(Byte) /\ BitsOf(Data_8_to_9(text)) = LineBits(text)
<1> DEFINE full == LineBits(text)
           data == Data_8_to_9(text)
           n == Len(full) \div 8
           chunk(i) == SubSeq(full, 8 * i - 7, 8 * i)
<1>1. full \in Seq(Bit) /\ Len(full) \in Nat /\ Len(full) = 8 * n /\ n \in Nat
  BY LineBitsAre, LenProperties
<1>2. data = [i \in 1 .. n |-> Value(chunk(i))]
  <2>1. Len(EachBits(text, 9)) = 9 * Len(text)
    BY EachBitsAre
  <2> QED BY <2>1 DEF Data_8_to_9, Bytes, LineBits, EachBits, Padding
<1> HIDE DEF full, n, data
<1>3. ASSUME NEW i \in 1 .. n
      PROVE  /\ chunk(i) \in Seq(Bit) /\ Len(chunk(i)) = 8
             /\ \A j \in 1 .. 8 : chunk(i)[j] = full[8 * (i - 1) + j]
  <2>1. \A k \in 8 * i - 7 .. 8 * i : full[k] \in Bit
    BY <1>1
  <2>2. /\ SubSeq(full, 8 * i - 7, 8 * i) \in Seq(Bit)
        /\ Len(SubSeq(full, 8 * i - 7, 8 * i)) = 8
        /\ \A j \in 1 .. 8 : SubSeq(full, 8 * i - 7, 8 * i)[j] = full[8 * i - 7 + j - 1]
    <3>1. 8 * i - 7 \in Int /\ 8 * i \in Int /\ 8 * i - 7 <= 8 * i
          /\ 8 * i - (8 * i - 7) + 1 = 8
      OBVIOUS
    <3> QED BY <2>1, <3>1, SubSeqProperties
  <2>3. \A j \in 1 .. 8 : 8 * i - 7 + j - 1 = 8 * (i - 1) + j
    OBVIOUS
  <2> QED BY <2>2, <2>3
<1> HIDE DEF chunk
<1>4. \A i \in 1 .. n : Value(chunk(i)) \in Byte /\ Bits(Value(chunk(i)), 8) = chunk(i)
  BY <1>3, BitsOfValue
<1>5. data \in Seq(Byte) /\ Len(data) = n
  BY <1>1, <1>2, <1>4
<1> DEFINE b == BitsOf(data)
<1>6. /\ b \in Seq(Bit) /\ Len(b) = 8 * n
      /\ \A i \in 1 .. n, j \in 1 .. 8 : b[8 * (i - 1) + j] = Bits(data[i], 8)[j]
  BY <1>5, EachBitsAre DEF EachBits, BitsOf
<1> HIDE DEF b
<1>7. ASSUME NEW k \in 1 .. 8 * n PROVE b[k] = full[k]
  <2> DEFINE i == ((k - 1) \div 8) + 1
             j == ((k - 1) % 8) + 1
  <2>1. i \in 1 .. n /\ j \in 1 .. 8 /\ k = 8 * (i - 1) + j
    BY <1>1, InByte
  <2> HIDE DEF i, j
  <2>2. b[k] = Bits(data[i], 8)[j]
    BY <1>6, <2>1
  <2>3. Bits(data[i], 8) = chunk(i)
    BY <1>2, <1>4, <2>1
  <2>4. chunk(i)[j] = full[8 * (i - 1) + j]
    BY <1>3, <2>1
  <2> QED BY <2>1, <2>2, <2>3, <2>4
<1>8. b = full
  BY <1>1, <1>6, <1>7, SeqEqual
<1> QED BY <1>5, <1>8 DEF b, full, data

-----------------------------------------------------------------------------
(* Lines, and the bits in which they are sent.                               *)

LEMMA LinesAre ==
    ASSUME NEW line \in Lines
    PROVE  /\ line \in Seq(Byte) /\ Len(line) \in Nat \ {0} /\ line[Len(line)] = NewLine
           /\ \A i \in 1 .. Len(line) : line[i] \in Byte /\ (line[i] = NewLine <=> i = Len(line))
<1>1. line \in Seq(Byte) /\ line # <<>> /\ \A i \in DOMAIN line : line[i] = NewLine <=> i = Len(line)
  BY LinesAreLines DEF Byte
<1>2. Len(line) \in Nat \ {0}
  BY <1>1, EmptySeq
<1>3. DOMAIN line = 1 .. Len(line) /\ line \in [1 .. Len(line) -> Byte]
  BY <1>1, LenProperties
<1>4. \A i \in 1 .. Len(line) : line[i] \in Byte /\ (line[i] = NewLine <=> i = Len(line))
  BY <1>1, <1>3
<1>5. Len(line) \in 1 .. Len(line)
  BY <1>2
<1> QED BY <1>1, <1>2, <1>4, <1>5

\* The lines said so far as one text.
Text(lines) == FlattenSeq(lines)
LinesBits(lines) == BitsOf(Encoded(lines))

LEMMA LinesSequence ==
    ASSUME NEW s \in Seq(Lines)
    PROVE  s \in Seq(Seq(Byte)) /\ Text(s) \in Seq(Byte) /\ Len(Text(s)) \in Nat
<1>1. Lines \subseteq Seq(Byte)
  BY LinesAre
<1>2. s \in Seq(Seq(Byte))
  BY <1>1, SeqMonotonic
<1>3. FlattenSeq(s) \in Seq(Byte)
  BY <1>2, FlattenType
<1> QED BY <1>2, <1>3, LenProperties DEF Text

LEMMA TextAppend ==
    ASSUME NEW s \in Seq(Lines), NEW line \in Lines
    PROVE  /\ Text(Append(s, line)) = Text(s) \o line
           /\ Len(Text(Append(s, line))) = Len(Text(s)) + Len(line)
           /\ \A i \in 1 .. Len(Text(s)) + Len(line) :
                Text(Append(s, line))[i] =
                  IF i <= Len(Text(s)) THEN Text(s)[i] ELSE line[i - Len(Text(s))]
<1>1. s \in Seq(Seq(Byte)) /\ line \in Seq(Byte) /\ Text(s) \in Seq(Byte)
  BY LinesSequence, LinesAre
<1>2. Text(Append(s, line)) = Text(s) \o line
  BY <1>1, FlattenAppend DEF Text
<1>3. /\ Len(Text(s) \o line) = Len(Text(s)) + Len(line)
      /\ \A i \in 1 .. Len(Text(s)) + Len(line) :
           (Text(s) \o line)[i] = IF i <= Len(Text(s)) THEN Text(s)[i] ELSE line[i - Len(Text(s))]
  BY <1>1, ConcatProperties
<1> QED BY <1>2, <1>3

LEMMA EncodedAre ==
    ASSUME NEW s \in Seq(Lines)
    PROVE  /\ [i \in DOMAIN s |-> Data_8_to_9(s[i])] \in Seq(Seq(Byte))
           /\ Encoded(s) \in Seq(Byte)
<1>1. DOMAIN s = 1 .. Len(s) /\ Len(s) \in Nat /\ \A i \in 1 .. Len(s) : s[i] \in Lines
  BY LenProperties
<1>2. \A i \in 1 .. Len(s) : Data_8_to_9(s[i]) \in Seq(Byte)
  BY <1>1, LinesAre, PackedBits
<1>3. [i \in DOMAIN s |-> Data_8_to_9(s[i])] \in Seq(Seq(Byte))
  BY <1>1, <1>2
<1> QED BY <1>3, FlattenType DEF Encoded

LEMMA EncodedAppend ==
    ASSUME NEW s \in Seq(Lines), NEW line \in Lines
    PROVE  Encoded(Append(s, line)) = Encoded(s) \o Data_8_to_9(line)
<1> DEFINE t == Append(s, line)
           packed(u) == [i \in DOMAIN u |-> Data_8_to_9(u[i])]
           e == Data_8_to_9(line)
<1>1. /\ t \in Seq(Lines) /\ Len(t) = Len(s) + 1 /\ Len(s) \in Nat /\ t[Len(s) + 1] = line
      /\ \A i \in 1 .. Len(s) : t[i] = s[i]
      /\ DOMAIN s = 1 .. Len(s)
  BY AppendProperties, LenProperties
<1>2. DOMAIN t = 1 .. Len(s) + 1
  <2> HIDE DEF t
  <2> QED BY <1>1, LenProperties
<1>3. packed(s) \in Seq(Seq(Byte)) /\ e \in Seq(Byte) /\ Len(packed(s)) = Len(s)
  <2>1. packed(s) \in Seq(Seq(Byte)) /\ e \in Seq(Byte)
    BY EncodedAre, LinesAre, PackedBits
  <2>2. DOMAIN packed(s) = 1 .. Len(s)
    BY <1>1
  <2> HIDE DEF packed
  <2> QED BY <1>1, <2>1, <2>2, LenProperties
<1>4. packed(t) \in Seq(Seq(Byte)) /\ Len(packed(t)) = Len(s) + 1
  <2>1. packed(t) \in Seq(Seq(Byte))
    <3> HIDE DEF t
    <3> QED BY <1>1, EncodedAre
  <2>2. DOMAIN packed(t) = 1 .. Len(s) + 1
    BY <1>2
  <2> HIDE DEF packed, t
  <2> QED BY <1>1, <2>1, <2>2, LenProperties
<1>5. /\ packed(t)[Len(s) + 1] = e
      /\ \A i \in 1 .. Len(s) : packed(t)[i] = packed(s)[i]
  <2> HIDE DEF t
  <2> QED BY <1>1, <1>2
<1>6. Append(packed(s), e) = packed(t)
  <2> HIDE DEF packed, t, e
  <2> DEFINE a == Append(packed(s), e)
  <2>1. /\ a \in Seq(Seq(Byte)) /\ Len(a) = Len(s) + 1 /\ a[Len(s) + 1] = e
        /\ \A i \in 1 .. Len(s) : a[i] = packed(s)[i]
    BY <1>3, AppendProperties
  <2> HIDE DEF a
  <2>2. \A i \in 1 .. Len(a) : a[i] = packed(t)[i]
    BY <1>1, <1>5, <2>1
  <2>3. a = packed(t)
    BY <1>4, <2>1, <2>2, SeqEqual
  <2> QED BY <2>3 DEF a
<1>7. FlattenSeq(Append(packed(s), e)) = FlattenSeq(packed(s)) \o e
  <2> HIDE DEF packed, e
  <2> QED BY <1>3, FlattenAppend
<1> QED BY <1>6, <1>7 DEF Encoded

LEMMA LinesBitsAppend ==
    ASSUME NEW s \in Seq(Lines), NEW line \in Lines
    PROVE  LinesBits(Append(s, line)) = LinesBits(s) \o LineBits(line)
<1>1. Encoded(s) \in Seq(Byte) /\ Data_8_to_9(line) \in Seq(Byte)
      /\ BitsOf(Data_8_to_9(line)) = LineBits(line)
  BY EncodedAre, LinesAre, PackedBits
<1> QED BY <1>1, EncodedAppend, BitsOfConcat DEF LinesBits

LEMMA LinesBitsAre ==
    ASSUME NEW s \in Seq(Lines)
    PROVE  LinesBits(s) \in Seq(Bit) /\ Len(LinesBits(s)) \in Nat
           /\ Len(LinesBits(s)) = 8 * Len(Encoded(s))
<1>1. Encoded(s) \in Seq(Byte)
  BY EncodedAre
<1>2. LinesBits(s) \in Seq(Bit) /\ Len(LinesBits(s)) = 8 * Len(Encoded(s))
  BY <1>1, EachBitsAre DEF EachBits, BitsOf, LinesBits
<1> QED BY <1>2, LenProperties

LEMMA NoLines ==
    Text(<<>>) = <<>> /\ Encoded(<<>>) = <<>> /\ LinesBits(<<>>) = <<>>
<1>1. [i \in DOMAIN <<>> |-> Data_8_to_9(<<>>[i])] = <<>>
  OBVIOUS
<1>2. [i \in DOMAIN <<>> |-> Bits(<<>>[i], 8)] = <<>>
  OBVIOUS
<1> QED BY <1>1, <1>2, FlattenEmpty DEF Text, Encoded, LinesBits, BitsOf

-----------------------------------------------------------------------------
(* Where the reader is.                                                      *)

\* What is behind s in the bits of the lines.
Follows(lines, s, line) ==
    \E rest \in Seq(Bit) : LinesBits(lines) = (LinesBits(s) \o LineBits(line)) \o rest
Uneven(lines) == \A i \in 1 .. Len(lines) : Len(lines[i]) % 8 # 0
\* The n-th character of the lines' text is behind j characters of line, behind the
\* lines s.
Splits(lines, n, s, line, j) ==
    /\ j \in 0 .. Len(line) - 1 /\ n = Len(Text(s)) + j
    /\ Text(lines)[n + 1] = line[j + 1]
    /\ \A i \in 1 .. n : Text(lines)[i] = IF i <= Len(Text(s)) THEN Text(s)[i]
                                          ELSE line[i - Len(Text(s))]
    /\ Aligned(lines) => Uneven(s)
    /\ Follows(lines, s, line)

LEMMA AlignedAppend ==
    ASSUME NEW s \in Seq(Lines), NEW line \in Lines
    PROVE  Aligned(Append(s, line)) <=> Uneven(s)
<1> DEFINE t == Append(s, line)
<1>1. Len(t) = Len(s) + 1 /\ Len(s) \in Nat /\ \A i \in 1 .. Len(s) : t[i] = s[i]
  BY AppendProperties, LenProperties
<1> HIDE DEF t
<1>2. Len(t) - 1 = Len(s)
  BY <1>1
<1>3. Aligned(t) <=> \A i \in 1 .. Len(s) : Len(t[i]) % 8 # 0
  BY <1>2 DEF Aligned
<1> QED BY <1>1, <1>3 DEF Uneven, t

LEMMA UnevenAligned ==
    ASSUME NEW s \in Seq(Lines), Uneven(s)
    PROVE  Aligned(s)
<1>1. Len(s) \in Nat
  BY LenProperties
<1>2. \A i \in 1 .. Len(s) - 1 : i \in 1 .. Len(s)
  BY <1>1
<1> QED BY <1>2 DEF Uneven, Aligned

LEMMA BitsJoin ==
  \A a, b, c \in Seq(Bit) : (a \o b) \o c = a \o (b \o c)
BY ConcatAssociative

LEMMA SplitsExist ==
    ASSUME NEW lines \in Seq(Lines), NEW n \in 0 .. Len(Text(lines)) - 1
    PROVE  \E s \in Seq(Lines), line \in Lines, j \in Nat : Splits(lines, n, s, line, j)
<1> DEFINE T == {w \in Seq(Lines) :
                   \A k \in 0 .. Len(Text(w)) - 1 :
                     \E s \in Seq(Lines), line \in Lines, j \in Nat : Splits(w, k, s, line, j)}
<1>1. <<>> \in T
  <2>1. Len(Text(<<>>)) = 0 /\ 0 .. 0 - 1 = {}
    BY NoLines, EmptySeq
  <2> QED BY <2>1, EmptySeq
<1>2. ASSUME NEW w \in Seq(Lines), NEW e \in Lines, w \in T PROVE Append(w, e) \in T
  <2> DEFINE v == Append(w, e)
             m == Len(Text(w))
  <2>1. /\ v \in Seq(Lines) /\ m \in Nat /\ Len(e) \in Nat \ {0}
        /\ Len(Text(v)) = m + Len(e)
        /\ \A i \in 1 .. m + Len(e) : Text(v)[i] = IF i <= m THEN Text(w)[i] ELSE e[i - m]
    BY TextAppend, LinesSequence, LinesAre, AppendProperties
  <2>2. LinesBits(v) = LinesBits(w) \o LineBits(e)
    BY LinesBitsAppend
  <2>3. LinesBits(w) \in Seq(Bit) /\ LineBits(e) \in Seq(Bit)
    BY LinesBitsAre, LinesAre, LineBitsAre
  <2>4. Aligned(v) <=> Uneven(w)
    BY AlignedAppend
  <2> SUFFICES ASSUME NEW k \in 0 .. Len(Text(v)) - 1
               PROVE  \E s \in Seq(Lines), line \in Lines, j \in Nat : Splits(v, k, s, line, j)
    BY <2>1
  <2> HIDE DEF v
  <2>5. CASE k < m
    <3>1. k \in 0 .. m - 1
      BY <2>1, <2>5
    <3>2. PICK s \in Seq(Lines), line \in Lines, j \in Nat : Splits(w, k, s, line, j)
      BY <1>2, <3>1
    <3>3. k + 1 <= m /\ k + 1 \in 1 .. m + Len(e)
          /\ \A i \in 1 .. k : i <= m /\ i \in 1 .. m + Len(e)
      BY <2>1, <3>1
    <3>4. Text(v)[k + 1] = Text(w)[k + 1] /\ \A i \in 1 .. k : Text(v)[i] = Text(w)[i]
      BY <2>1, <3>3
    <3>5. Aligned(v) => Aligned(w)
      BY <2>4, UnevenAligned
    <3>6. Follows(v, s, line)
      <4>1. PICK rest \in Seq(Bit) : LinesBits(w) = (LinesBits(s) \o LineBits(line)) \o rest
        BY <3>2 DEF Splits, Follows
      <4>2. LinesBits(s) \in Seq(Bit) /\ LineBits(line) \in Seq(Bit)
        BY LinesBitsAre, LinesAre, LineBitsAre
      <4>3. LinesBits(s) \o LineBits(line) \in Seq(Bit) /\ rest \o LineBits(e) \in Seq(Bit)
        BY <2>3, <4>2, ConcatProperties
      <4>4. LinesBits(v) = (LinesBits(s) \o LineBits(line)) \o (rest \o LineBits(e))
        <5> DEFINE a == LinesBits(s) \o LineBits(line)
                   b == LineBits(e)
        <5>1. LinesBits(v) = (a \o rest) \o b
          BY <2>2, <4>1
        <5>2. a \in Seq(Bit) /\ b \in Seq(Bit) /\ rest \in Seq(Bit)
          BY <2>3, <4>1, <4>3
        <5> HIDE DEF a, b
        <5>3. (a \o rest) \o b = a \o (rest \o b)
          BY <5>2, BitsJoin, Zenon
        <5> QED BY <5>1, <5>3 DEF a, b
      <4> QED BY <4>3, <4>4 DEF Follows
    <3>7. Splits(v, k, s, line, j)
      BY <3>2, <3>4, <3>5, <3>6 DEF Splits
    <3> QED BY <3>7
  <2>6. CASE ~(k < m)
    <3> DEFINE j == k - m
    <3>1. /\ j \in 0 .. Len(e) - 1 /\ j \in Nat /\ k = m + j
          /\ k + 1 \in 1 .. m + Len(e) /\ ~(k + 1 <= m) /\ k + 1 - m = j + 1
          /\ \A i \in 1 .. k : i \in 1 .. m + Len(e)
      BY <2>1, <2>6
    <3> HIDE DEF j
    <3>2. Text(v)[k + 1] = e[j + 1]
      BY <2>1, <3>1
    <3>3. Follows(v, w, e)
      <4>1. <<>> \in Seq(Bit) /\ LinesBits(w) \o LineBits(e) \in Seq(Bit)
        BY <2>3, ConcatProperties, EmptySeq
      <4>2. LinesBits(v) = (LinesBits(w) \o LineBits(e)) \o <<>>
        BY <2>2, <4>1, ConcatEmptySeq
      <4> QED BY <4>1, <4>2 DEF Follows
    <3>4. Splits(v, k, w, e, j)
      BY <2>1, <2>4, <3>1, <3>2, <3>3 DEF Splits
    <3> QED BY <3>1, <3>4
  <2> QED BY <2>1, <2>5, <2>6
<1> HIDE DEF T
<1>3. Seq(Lines) \subseteq T
  BY <1>1, <1>2, SequenceInduction
<1> QED BY <1>3 DEF T

-----------------------------------------------------------------------------
(* The loop of the decoder.                                                  *)

Readers == [text : Seq(Byte), at : Nat, count : Nat]
Start == [text |-> <<>>, at |-> 0, count |-> 0]
Character(bits, l) == Value(SubSeq(bits, l.at + 2, l.at + 9))
Eaten(bits, checked, l) ==
    IF Character(bits, l) # NewLine \/ (checked /\ (l.at + 9) % 8 = 0) THEN 0
    ELSE BitsToEat(l.count + 1)

LEMMA BitsToEatAre ==
    ASSUME NEW n \in Nat
    PROVE  BitsToEat(n) \in 1 .. 8 /\ BitsToEat(n) = 8 - (n % 8)
<1>1. (n * 9 + 8) % 8 = n % 8
  OBVIOUS
<1> QED BY <1>1 DEF BitsToEat

LEMMA CharacterIsByte ==
    ASSUME NEW bits \in Seq(Bit), NEW l \in Readers, l.at + 9 <= Len(bits)
    PROVE  Character(bits, l) \in Byte
<1> DEFINE b == SubSeq(bits, l.at + 2, l.at + 9)
<1>1. l.at \in Nat /\ Len(bits) \in Nat
  BY LenProperties DEF Readers
<1>2. \A i \in l.at + 2 .. l.at + 9 : bits[i] \in Bit
  BY <1>1, ElementOfSeq
<1>3. l.at + 2 \in Int /\ l.at + 9 \in Int /\ l.at + 2 <= l.at + 9
      /\ (l.at + 9) - (l.at + 2) + 1 = 8
  BY <1>1
<1>4. b \in Seq(Bit) /\ Len(b) = 8
  BY <1>2, <1>3, SubSeqProperties
<1> HIDE DEF b
<1>5. Value(b) \in Byte
  BY <1>4, BitsOfValue
<1> QED BY <1>5 DEF b, Character

\* A turn either finds too few bits, or reads a character.
LEMMA Turn ==
    ASSUME NEW bits \in Seq(Bit), NEW checked \in BOOLEAN, NEW l \in Readers
    PROVE  /\ Read(bits, checked, l) \in Readers
           /\ l.at + 9 > Len(bits) => Read(bits, checked, l) = l
           /\ ~(l.at + 9 > Len(bits)) =>
                /\ Character(bits, l) \in Byte
                /\ Read(bits, checked, l).text = Append(l.text, Character(bits, l))
                /\ Read(bits, checked, l).at = l.at + 9 + Eaten(bits, checked, l)
                /\ Read(bits, checked, l).count =
                     IF Eaten(bits, checked, l) > 0 THEN 0 ELSE l.count + 1
<1>1. l.at \in Nat /\ l.count \in Nat /\ l.text \in Seq(Byte) /\ Len(bits) \in Nat
  BY LenProperties DEF Readers
<1>2. BitsToEat(l.count + 1) \in 1 .. 8
  <2>1. l.count + 1 \in Nat
    BY <1>1
  <2> QED BY <2>1, BitsToEatAre
<1>3. Eaten(bits, checked, l) \in 0 .. 8
  BY <1>2 DEF Eaten
<1> DEFINE char == Character(bits, l)
           eaten == Eaten(bits, checked, l)
<1>4. Read(bits, checked, l) =
        IF l.at + 9 > Len(bits) THEN l
        ELSE [text |-> Append(l.text, char), at |-> l.at + 9 + eaten,
              count |-> IF eaten > 0 THEN 0 ELSE l.count + 1]
  BY DEF Read, Character, Eaten
<1>5. CASE l.at + 9 > Len(bits)
  BY <1>4, <1>5
<1>6. CASE ~(l.at + 9 > Len(bits))
  <2>1. char \in Byte
    BY <1>1, <1>6, CharacterIsByte
  <2> HIDE DEF char, eaten
  <2>2. Append(l.text, char) \in Seq(Byte)
    BY <1>1, <2>1, AppendProperties
  <2>3. l.at + 9 + eaten \in Nat /\ (IF eaten > 0 THEN 0 ELSE l.count + 1) \in Nat
    BY <1>1, <1>3 DEF eaten
  <2>4. Read(bits, checked, l) =
          [text |-> Append(l.text, char), at |-> l.at + 9 + eaten,
           count |-> IF eaten > 0 THEN 0 ELSE l.count + 1]
    BY <1>4, <1>6
  <2>5. Read(bits, checked, l) \in Readers
    BY <2>2, <2>3, <2>4 DEF Readers
  <2> QED BY <1>6, <2>1, <2>4, <2>5 DEF char, eaten
<1> QED BY <1>5, <1>6

\* The equation of the recursive function that Unpacked takes.
Turns(l, bits, checked, n) ==
    l = [i \in 0 .. n |-> IF i = 0 THEN Start ELSE Read(bits, checked, l[i - 1])]

LEMMA TurnsExist ==
    ASSUME NEW bits, NEW checked
    PROVE  \A n \in Nat : \E l : Turns(l, bits, checked, n)
<1> DEFINE T == {n \in Nat : \E l : Turns(l, bits, checked, n)}
<1>1. 0 \in T
  <2> DEFINE l == [i \in 0 .. 0 |-> Start]
  <2>1. l = [i \in 0 .. 0 |-> IF i = 0 THEN Start ELSE Read(bits, checked, l[i - 1])]
    OBVIOUS
  <2>2. Turns(l, bits, checked, 0)
    BY <2>1 DEF Turns
  <2> QED BY <2>2
<1>2. ASSUME NEW n \in Nat, n \in T PROVE n + 1 \in T
  <2>1. PICK l : Turns(l, bits, checked, n)
    BY <1>2
  <2> DEFINE m == [i \in 0 .. n + 1 |-> IF i = n + 1 THEN Read(bits, checked, l[n]) ELSE l[i]]
  <2>2. \A i \in 0 .. n : m[i] = l[i] /\ l[i] = IF i = 0 THEN Start
                                                ELSE Read(bits, checked, l[i - 1])
    BY <2>1 DEF Turns
  <2>3. m[n + 1] = Read(bits, checked, l[n]) /\ m = [i \in 0 .. n + 1 |-> m[i]]
    OBVIOUS
  <2> HIDE DEF m
  <2>4. ASSUME NEW i \in 0 .. n + 1
        PROVE  m[i] = IF i = 0 THEN Start ELSE Read(bits, checked, m[i - 1])
    <3>1. CASE i = n + 1
      <4>1. m[n] = l[n] /\ i - 1 = n /\ i # 0
        BY <2>2, <3>1
      <4> QED BY <2>3, <3>1, <4>1
    <3>2. CASE i \in 1 .. n
      <4>1. i - 1 \in 0 .. n /\ i \in 0 .. n /\ i # 0
        BY <3>2
      <4>2. m[i] = l[i] /\ m[i - 1] = l[i - 1]
        BY <2>2, <4>1
      <4> QED BY <2>2, <4>1, <4>2
    <3>3. CASE i = 0
      <4>1. 0 \in 0 .. n
        OBVIOUS
      <4>2. m[0] = Start
        BY <2>2, <4>1
      <4> QED BY <3>3, <4>2
    <3> QED BY <3>1, <3>2, <3>3
  <2>5. Turns(m, bits, checked, n + 1)
    BY <2>3, <2>4 DEF Turns
  <2> QED BY <2>5
<1> HIDE DEF T
<1>3. Nat \subseteq T
  BY <1>1, <1>2, NaturalInduction
<1> QED BY <1>3 DEF T

\* What the loop does in its turns, and what is unpacked.
Loop(l, bits, checked) ==
    /\ l[0] = Start
    /\ \A i \in 1 .. Len(bits) \div 9 : l[i] = Read(bits, checked, l[i - 1])
    /\ \A i \in 0 .. Len(bits) \div 9 : l[i] \in Readers

LEMMA LoopTypes ==
    ASSUME NEW bits \in Seq(Bit), NEW checked \in BOOLEAN, NEW l,
           Turns(l, bits, checked, Len(bits) \div 9)
    PROVE  Loop(l, bits, checked)
<1> DEFINE N == Len(bits) \div 9
           T == {i \in Nat : i \in 0 .. N => l[i] \in Readers}
<1>1. N \in Nat
  BY LenProperties
<1>2. \A i \in 0 .. N : l[i] = IF i = 0 THEN Start ELSE Read(bits, checked, l[i - 1])
  BY DEF Turns
<1> HIDE DEF N
<1>3. l[0] = Start /\ \A i \in 1 .. N : l[i] = Read(bits, checked, l[i - 1])
  BY <1>1, <1>2
<1>4. 0 \in T
  <2>1. <<>> \in Seq(Byte)
    BY EmptySeq
  <2>2. Start \in Readers
    BY <2>1 DEF Start, Readers
  <2> QED BY <1>3, <2>2
<1>5. ASSUME NEW i \in Nat, i \in T PROVE i + 1 \in T
  <2> SUFFICES ASSUME i + 1 \in 0 .. N PROVE l[i + 1] \in Readers
    OBVIOUS
  <2>1. i \in 0 .. N /\ i + 1 \in 1 .. N /\ (i + 1) - 1 = i
    BY <1>1
  <2>2. l[i] \in Readers /\ l[i + 1] = Read(bits, checked, l[i])
    BY <1>3, <1>5, <2>1
  <2> QED BY <2>2, Turn
<1> HIDE DEF T
<1>6. Nat \subseteq T
  BY <1>4, <1>5, NaturalInduction
<1>7. \A i \in 0 .. N : l[i] \in Readers
  BY <1>1, <1>6 DEF T
<1> QED BY <1>3, <1>7 DEF Loop, N

LEMMA UnpackedIs ==
    ASSUME NEW data \in Seq(Byte), NEW checked \in BOOLEAN
    PROVE  \E l : /\ Loop(l, BitsOf(data), checked)
                  /\ Unpacked(data, checked) = l[Len(BitsOf(data)) \div 9].text
<1> DEFINE bits == BitsOf(data)
           N == Len(bits) \div 9
           l == CHOOSE g : Turns(g, bits, checked, N)
<1>1. bits \in Seq(Bit) /\ N \in Nat
  <2>1. bits \in Seq(Bit)
    BY EachBitsAre DEF EachBits, BitsOf
  <2> HIDE DEF bits
  <2> QED BY <2>1, LenProperties
<1>2. Turns(l, bits, checked, N)
  <2> HIDE DEF bits, N
  <2> QED BY <1>1, TurnsExist
<1>3. Unpacked(data, checked) = l[N].text
  BY DEF Unpacked, Turns, Start
<1>4. Loop(l, bits, checked)
  <2> HIDE DEF bits, l
  <2> QED BY <1>1, <1>2, LoopTypes
<1> QED BY <1>3, <1>4

-----------------------------------------------------------------------------
(* What was read tells where the reader is.                                  *)

\* text is that of the lines s and of j characters of line.
Spells(text, s, line, j) ==
    /\ j \in 0 .. Len(line) - 1 /\ Len(text) = Len(Text(s)) + j
    /\ \A i \in 1 .. Len(text) : text[i] = IF i <= Len(Text(s)) THEN Text(s)[i]
                                           ELSE line[i - Len(Text(s))]
\* By how much the reader is behind lines that it has read.
Lag(checked, s, lag) ==
    lag \in Nat /\ (checked \/ Uneven(s) => lag = 0) /\ (~ checked /\ ~ Uneven(s) => lag >= 8)
InPlace(l, checked) ==
    \A s \in Seq(Lines), line \in Lines, j \in Nat :
      Spells(l.text, s, line, j) =>
        /\ l.count % 8 = j % 8
        /\ \E lag \in Nat : Lag(checked, s, lag) /\ l.at = Len(LinesBits(s)) + 9 * j + lag

LEMMA SpellsWithin ==
    ASSUME NEW text \in Seq(Byte), NEW c \in Byte, NEW s \in Seq(Lines), NEW line \in Lines,
           NEW j \in Nat, Spells(Append(text, c), s, line, j), j # 0
    PROVE  /\ j - 1 \in Nat /\ Spells(text, s, line, j - 1)
           /\ c \in Byte /\ c # NewLine
<1> DEFINE n == Len(Text(s))
<1>1. n \in Nat /\ Len(text) \in Nat
  BY LinesSequence, LenProperties
<1>2. /\ Len(Append(text, c)) = Len(text) + 1 /\ Append(text, c)[Len(text) + 1] = c
      /\ \A i \in 1 .. Len(text) : Append(text, c)[i] = text[i]
  BY AppendProperties
<1>3. Len(line) \in Nat /\ \A i \in 1 .. Len(line) : line[i] = NewLine <=> i = Len(line)
  BY LinesAre
<1> HIDE DEF n
<1>4. /\ j \in 0 .. Len(line) - 1 /\ Len(text) + 1 = n + j
      /\ \A i \in 1 .. Len(text) + 1 :
           Append(text, c)[i] = IF i <= n THEN Text(s)[i] ELSE line[i - n]
  BY <1>2 DEF Spells, n
<1>5. /\ j - 1 \in Nat /\ j - 1 \in 0 .. Len(line) - 1 /\ Len(text) = n + (j - 1)
      /\ Len(text) + 1 \in 1 .. Len(text) + 1 /\ ~(Len(text) + 1 <= n)
      /\ Len(text) + 1 - n = j /\ j \in 1 .. Len(line) /\ j # Len(line)
  BY <1>1, <1>3, <1>4
<1>6. c = line[j]
  <2> DEFINE k == Len(text) + 1
  <2>1. /\ \A i \in 1 .. k : Append(text, c)[i] = IF i <= n THEN Text(s)[i] ELSE line[i - n]
        /\ Append(text, c)[k] = c
    BY <1>2, <1>4
  <2>2. k \in 1 .. k /\ ~(k <= n) /\ k - n = j
    BY <1>1, <1>5
  <2> HIDE DEF k
  <2> QED BY <2>1, <2>2
<1>7. \A i \in 1 .. Len(text) : i \in 1 .. Len(text) + 1
  BY <1>1
<1>8. \A i \in 1 .. Len(text) : text[i] = IF i <= n THEN Text(s)[i] ELSE line[i - n]
  BY <1>2, <1>4, <1>7
<1> QED BY <1>3, <1>5, <1>6, <1>8 DEF Spells, n

LEMMA SpellsBehind ==
    ASSUME NEW text \in Seq(Byte), NEW c \in Byte, NEW s \in Seq(Lines), NEW line \in Lines,
           Spells(Append(text, c), s, line, 0)
    PROVE  \E t \in Seq(Lines), e \in Lines :
             s = Append(t, e) /\ Spells(text, t, e, Len(e) - 1) /\ c = NewLine
<1>1. /\ Append(text, c) \in Seq(Byte)
      /\ Len(Append(text, c)) = Len(text) + 1 /\ Append(text, c)[Len(text) + 1] = c
      /\ \A i \in 1 .. Len(text) : Append(text, c)[i] = text[i] /\ Len(text) \in Nat
      /\ Len(text) \in Nat
  BY AppendProperties, LenProperties
<1>2. Len(Text(s)) \in Nat
  BY LinesSequence
<1>3. /\ Len(Text(s)) = Len(text) + 1
      /\ \A i \in 1 .. Len(text) + 1 : Append(text, c)[i] = Text(s)[i]
  BY <1>1, <1>2 DEF Spells
<1>4. s # <<>>
  <2>1. Len(Text(<<>>)) = 0
    BY NoLines, EmptySeq
  <2> QED BY <1>1, <1>3, <2>1
<1>5. PICK t \in Seq(Lines), e \in Lines : s = Append(t, e)
  BY <1>4, SequenceEmptyOrAppend
<1> DEFINE n == Len(Text(t))
<1>6. /\ n \in Nat /\ Len(e) \in Nat \ {0} /\ e[Len(e)] = NewLine
      /\ Len(Text(s)) = n + Len(e)
      /\ \A i \in 1 .. n + Len(e) : Text(s)[i] = IF i <= n THEN Text(t)[i] ELSE e[i - n]
  BY <1>5, TextAppend, LinesSequence, LinesAre
<1> HIDE DEF n
<1>7. /\ Len(text) = n + (Len(e) - 1) /\ Len(e) - 1 \in 0 .. Len(e) - 1
      /\ Len(text) + 1 \in 1 .. Len(text) + 1 /\ Len(text) + 1 \in 1 .. n + Len(e)
      /\ ~(Len(text) + 1 <= n) /\ Len(text) + 1 - n = Len(e)
      /\ \A i \in 1 .. Len(text) : i \in 1 .. n + Len(e) /\ i \in 1 .. Len(text) + 1
  BY <1>1, <1>3, <1>6
<1>8. c = NewLine
  BY <1>1, <1>3, <1>6, <1>7
<1>9. \A i \in 1 .. Len(text) : text[i] = IF i <= n THEN Text(t)[i] ELSE e[i - n]
  BY <1>1, <1>3, <1>6, <1>7
<1>10. Spells(text, t, e, Len(e) - 1)
  BY <1>7, <1>9 DEF Spells, n
<1> QED BY <1>5, <1>8, <1>10

LEMMA NextRemainder ==
    ASSUME NEW m \in Nat, NEW n \in Nat, m % 8 = n % 8
    PROVE  (m + 1) % 8 = (n + 1) % 8
OBVIOUS

LEMMA LineArithmetic ==
    ASSUME NEW a \in Nat, NEW n \in Nat \ {0}, NEW lag \in Nat, NEW count \in Nat,
           count % 8 = (n - 1) % 8
    PROVE  /\ BitsToEat(count + 1) = 8 - (n % 8)
           /\ Padding(9 * n) = IF n % 8 = 0 THEN 0 ELSE 8 - (n % 8)
           /\ (8 * a + 9 * (n - 1) + 0 + 9) % 8 = n % 8
<1>1. (count + 1) % 8 = n % 8
  OBVIOUS
<1>2. count + 1 \in Nat
  OBVIOUS
<1>3. BitsToEat(count + 1) = 8 - (n % 8)
  BY <1>1, <1>2, BitsToEatAre
<1>4. Padding(9 * n) = IF n % 8 = 0 THEN 0 ELSE 8 - (n % 8)
  BY DEF Padding
<1>5. (8 * a + 9 * (n - 1) + 0 + 9) % 8 = n % 8
  OBVIOUS
<1> QED BY <1>3, <1>4, <1>5

LEMMA LinesBitsLength ==
    ASSUME NEW s \in Seq(Lines), NEW line \in Lines
    PROVE  Len(LinesBits(Append(s, line))) =
             Len(LinesBits(s)) + 9 * Len(line) + Padding(9 * Len(line))
<1>1. /\ LinesBits(s) \in Seq(Bit) /\ LineBits(line) \in Seq(Bit)
      /\ Len(LineBits(line)) = 9 * Len(line) + Padding(9 * Len(line))
      /\ Padding(9 * Len(line)) \in 0 .. 7
      /\ Len(line) \in Nat /\ Len(LinesBits(s)) \in Nat
  BY LinesBitsAre, LinesAre, LineBitsAre
<1>2. Len(LinesBits(s) \o LineBits(line)) = Len(LinesBits(s)) + Len(LineBits(line))
  BY <1>1, ConcatProperties
<1>3. LinesBits(Append(s, line)) = LinesBits(s) \o LineBits(line)
  BY LinesBitsAppend
<1> QED BY <1>1, <1>2, <1>3

LEMMA UnevenAppend ==
    ASSUME NEW s \in Seq(Lines), NEW line \in Lines
    PROVE  Uneven(Append(s, line)) <=> Uneven(s) /\ Len(line) % 8 # 0
<1> DEFINE t == Append(s, line)
<1>1. /\ Len(t) = Len(s) + 1 /\ Len(s) \in Nat /\ \A i \in 1 .. Len(s) : t[i] = s[i]
      /\ t[Len(s) + 1] = line
  BY AppendProperties, LenProperties
<1> HIDE DEF t
<1>2. 1 .. Len(t) = (1 .. Len(s)) \cup {Len(s) + 1}
  BY <1>1
<1> QED BY <1>1, <1>2 DEF Uneven, t

\* At the end of a line the reader skips its padding, or, unchecked, eight bits that
\* are not there.
LEMMA InPlaceBehind ==
    ASSUME NEW bits \in Seq(Bit), NEW checked \in BOOLEAN, NEW l \in Readers, InPlace(l, checked),
           ~(l.at + 9 > Len(bits)), Character(bits, l) = NewLine,
           NEW t \in Seq(Lines), NEW e \in Lines, Spells(l.text, t, e, Len(e) - 1)
    PROVE  /\ Read(bits, checked, l).count % 8 = 0
           /\ \E lag \in Nat : /\ Lag(checked, Append(t, e), lag)
                               /\ Read(bits, checked, l).at = Len(LinesBits(Append(t, e))) + lag
<1> DEFINE n == Len(e)
           a == Len(Encoded(t))
           r == Read(bits, checked, l)
           eaten == Eaten(bits, checked, l)
           pad == Padding(9 * n)
<1>1. n \in Nat \ {0} /\ n - 1 \in Nat
  BY LinesAre
<1>2. a \in Nat /\ Len(LinesBits(t)) = 8 * a
  BY LinesBitsAre, EncodedAre, LenProperties
<1>3. PICK lag \in Nat : Lag(checked, t, lag) /\ l.at = 8 * a + 9 * (n - 1) + lag
  <2>1. \E lag \in Nat : Lag(checked, t, lag) /\ l.at = Len(LinesBits(t)) + 9 * (Len(e) - 1) + lag
    BY <1>1 DEF InPlace
  <2> QED BY <1>2, <2>1
<1>4. l.count \in Nat /\ l.count % 8 = (n - 1) % 8
  BY <1>1 DEF InPlace, Readers
<1>5. r.at = l.at + 9 + eaten /\ r.count = IF eaten > 0 THEN 0 ELSE l.count + 1
  BY Turn
<1>6. eaten = IF checked /\ (l.at + 9) % 8 = 0 THEN 0 ELSE BitsToEat(l.count + 1)
  BY DEF Eaten
<1>7. Len(LinesBits(Append(t, e))) = 8 * a + 9 * n + pad
  BY <1>2, LinesBitsLength
<1>8. Uneven(Append(t, e)) <=> Uneven(t) /\ n % 8 # 0
  BY UnevenAppend
<1> HIDE DEF n, a, r, eaten, pad
<1>9. /\ BitsToEat(l.count + 1) = 8 - (n % 8)
      /\ pad = IF n % 8 = 0 THEN 0 ELSE 8 - (n % 8)
      /\ (8 * a + 9 * (n - 1) + 0 + 9) % 8 = n % 8
  BY <1>1, <1>2, <1>4, LineArithmetic DEF pad
<1>10. n % 8 \in 0 .. 7
  BY <1>1
<1>11. (l.count + 1) % 8 = n % 8
  <2>1. n - 1 \in Nat /\ (n - 1) + 1 = n
    BY <1>1
  <2>2. (l.count + 1) % 8 = ((n - 1) + 1) % 8
    BY <1>4, <2>1, NextRemainder
  <2> QED BY <2>1, <2>2
<1>12. CASE checked
  <2>1. lag = 0 /\ (l.at + 9) % 8 = n % 8
    BY <1>3, <1>9, <1>12 DEF Lag
  <2>2. eaten = pad /\ (eaten > 0 \/ n % 8 = 0)
    BY <1>6, <1>9, <1>10, <1>12, <2>1
  <2>3. r.count % 8 = 0
    BY <1>5, <1>11, <2>2
  <2>4. r.at = Len(LinesBits(Append(t, e))) + 0
    BY <1>1, <1>2, <1>3, <1>5, <1>7, <1>9, <1>10, <2>1, <2>2
  <2>5. Lag(checked, Append(t, e), 0)
    BY <1>12 DEF Lag
  <2> QED BY <2>3, <2>4, <2>5 DEF r
<1>13. CASE ~ checked
  <2> DEFINE lag2 == IF n % 8 = 0 THEN lag + 8 ELSE lag
  <2>1. eaten = 8 - (n % 8) /\ eaten > 0
    BY <1>6, <1>9, <1>10, <1>13
  <2>2. r.count % 8 = 0
    BY <1>5, <2>1
  <2>3. r.at = Len(LinesBits(Append(t, e))) + lag2
    BY <1>1, <1>2, <1>3, <1>5, <1>7, <1>9, <1>10, <2>1
  <2>4. lag2 \in Nat /\ Lag(checked, Append(t, e), lag2)
    BY <1>3, <1>8, <1>13 DEF Lag
  <2> HIDE DEF lag2
  <2> QED BY <2>2, <2>3, <2>4 DEF r
<1> QED BY <1>12, <1>13

LEMMA InPlaceStep ==
    ASSUME NEW bits \in Seq(Bit), NEW checked \in BOOLEAN, NEW l \in Readers, InPlace(l, checked)
    PROVE  InPlace(Read(bits, checked, l), checked)
<1> DEFINE r == Read(bits, checked, l)
           c == Character(bits, l)
<1>1. CASE l.at + 9 > Len(bits)
  BY <1>1, Turn
<1>2. CASE ~(l.at + 9 > Len(bits))
  <2>1. /\ c \in Byte /\ r.text = Append(l.text, c) /\ r.at = l.at + 9 + Eaten(bits, checked, l)
        /\ r.count = IF Eaten(bits, checked, l) > 0 THEN 0 ELSE l.count + 1
        /\ l.text \in Seq(Byte) /\ l.count \in Nat /\ l.at \in Nat
    BY <1>2, Turn DEF Readers
  <2> SUFFICES ASSUME NEW s \in Seq(Lines), NEW line \in Lines, NEW j \in Nat,
                      Spells(r.text, s, line, j)
               PROVE  /\ r.count % 8 = j % 8
                      /\ \E lag \in Nat : Lag(checked, s, lag)
                                          /\ r.at = Len(LinesBits(s)) + 9 * j + lag
    BY DEF InPlace
  <2> HIDE DEF r, c
  <2>2. CASE j # 0
    <3>1. j - 1 \in Nat /\ Spells(l.text, s, line, j - 1) /\ c # NewLine
      BY <2>1, <2>2, SpellsWithin
    <3>2. Eaten(bits, checked, l) = 0
      BY <3>1 DEF Eaten, c
    <3>3. PICK lag \in Nat : Lag(checked, s, lag) /\ l.at = Len(LinesBits(s)) + 9 * (j - 1) + lag
      BY <3>1 DEF InPlace
    <3>4. l.count % 8 = (j - 1) % 8
      BY <3>1 DEF InPlace
    <3>5. Len(LinesBits(s)) \in Nat
      BY LinesBitsAre
    <3>6. r.at = Len(LinesBits(s)) + 9 * j + lag
      BY <2>1, <3>2, <3>3, <3>5
    <3>7. r.count % 8 = j % 8
      <4>1. r.count = l.count + 1 /\ (j - 1) + 1 = j
        BY <2>1, <3>2
      <4>2. (l.count + 1) % 8 = ((j - 1) + 1) % 8
        BY <2>1, <3>1, <3>4, NextRemainder
      <4> QED BY <4>1, <4>2
    <3> QED BY <3>3, <3>6, <3>7
  <2>3. CASE j = 0
    <3>1. PICK t \in Seq(Lines), e \in Lines :
            s = Append(t, e) /\ Spells(l.text, t, e, Len(e) - 1) /\ c = NewLine
      BY <2>1, <2>3, SpellsBehind
    <3>2. /\ r.count % 8 = 0
          /\ \E lag \in Nat : Lag(checked, s, lag) /\ r.at = Len(LinesBits(s)) + lag
      BY <1>2, <3>1, InPlaceBehind DEF r, c
    <3>3. Len(LinesBits(s)) \in Nat /\ 9 * j = 0 /\ j % 8 = 0
      BY <2>3, LinesBitsAre
    <3> QED BY <3>2, <3>3
  <2> QED BY <2>2, <2>3
<1> QED BY <1>1, <1>2

-----------------------------------------------------------------------------
(* Reading lines.                                                            *)

LEMMA CharacterInLine ==
    ASSUME NEW lines \in Seq(Lines), NEW s \in Seq(Lines), NEW line \in Lines,
           Follows(lines, s, line), NEW j \in 0 .. Len(line) - 1,
           NEW l \in Readers, l.at = Len(LinesBits(s)) + 9 * j
    PROVE  /\ l.at + 9 <= Len(LinesBits(lines))
           /\ Character(LinesBits(lines), l) = line[j + 1]
<1> DEFINE a == LinesBits(s)
           b == LineBits(line)
           n == Len(line)
           c == line[j + 1]
           bits == LinesBits(lines)
<1>1. PICK rest \in Seq(Bit) : bits = (a \o b) \o rest
  BY DEF Follows
<1>2. /\ a \in Seq(Bit) /\ Len(a) \in Nat /\ b \in Seq(Bit) /\ Len(b) \in Nat
      /\ Len(rest) \in Nat /\ n \in Nat \ {0} /\ Len(b) >= 9 * n
      /\ \A i \in 1 .. n, k \in 1 .. 9 : b[9 * (i - 1) + k] = Bits(line[i], 9)[k]
      /\ bits \in Seq(Bit)
  <2>1. /\ Len(b) = 9 * n + Padding(9 * n) /\ Padding(9 * n) \in 0 .. 7 /\ b \in Seq(Bit)
        /\ \A i \in 1 .. n, k \in 1 .. 9 : b[9 * (i - 1) + k] = Bits(line[i], 9)[k]
    BY LinesAre, LineBitsAre
  <2>2. n \in Nat \ {0}
    BY LinesAre
  <2>3. a \in Seq(Bit) /\ Len(a) \in Nat /\ bits \in Seq(Bit)
    BY LinesBitsAre
  <2>4. Len(rest) \in Nat /\ Len(b) \in Nat
    BY <1>1, <2>1, LenProperties
  <2>5. Len(b) >= 9 * n
    <3> DEFINE p == Padding(9 * n)
    <3>1. Len(b) = 9 * n + p /\ p \in 0 .. 7
      BY <2>1
    <3> HIDE DEF p, n, b
    <3> QED BY <2>2, <3>1
  <2> HIDE DEF n, b, a, bits
  <2>6. /\ b \in Seq(Bit)
        /\ \A i \in 1 .. n, k \in 1 .. 9 : b[9 * (i - 1) + k] = Bits(line[i], 9)[k]
    BY <2>1
  <2> QED BY <2>2, <2>3, <2>4, <2>5, <2>6, Zenon
<1>3. c \in Byte
  <2>1. j + 1 \in 1 .. n
    BY <1>2
  <2> QED BY <2>1, LinesAre
<1> HIDE DEF a, b, n, bits
<1>4. /\ a \o b \in Seq(Bit) /\ Len(a \o b) = Len(a) + Len(b)
      /\ \A i \in 1 .. Len(a) + Len(b) : (a \o b)[i] = IF i <= Len(a) THEN a[i] ELSE b[i - Len(a)]
  BY <1>2, ConcatProperties
<1>5. /\ Len(bits) = Len(a) + Len(b) + Len(rest)
      /\ \A i \in 1 .. Len(a) + Len(b) : bits[i] = (a \o b)[i]
  <2> DEFINE f == a \o b
  <2>1. f \in Seq(Bit) /\ Len(f) = Len(a) + Len(b)
    BY <1>4
  <2> HIDE DEF f
  <2>2. /\ Len(f \o rest) = Len(f) + Len(rest)
        /\ \A i \in 1 .. Len(f) + Len(rest) :
             (f \o rest)[i] = IF i <= Len(f) THEN f[i] ELSE rest[i - Len(f)]
    <3>1. f \in Seq(Bit) /\ rest \in Seq(Bit)
      BY <1>1, <2>1
    <3> QED BY <3>1, ConcatProperties
  <2>3. \A i \in 1 .. Len(f) : i \in 1 .. Len(f) + Len(rest) /\ i <= Len(f)
    BY <1>2, <2>1
  <2>4. \A i \in 1 .. Len(f) : (f \o rest)[i] = f[i]
    BY <2>2, <2>3
  <2> QED BY <1>1, <2>1, <2>2, <2>4 DEF f
<1>6. l.at = Len(a) + 9 * j
  BY DEF a
<1>7. l.at + 9 <= Len(bits)
  BY <1>2, <1>5, <1>6 DEF n
<1>8. ASSUME NEW k \in 1 .. 9 PROVE bits[l.at + k] = Bits(c, 9)[k]
  <2> DEFINE i == l.at + k
  <2>1. /\ i \in 1 .. Len(a) + Len(b) /\ ~(i <= Len(a))
        /\ i - Len(a) = 9 * ((j + 1) - 1) + k /\ j + 1 \in 1 .. n
    <3>1. Len(a) \in Nat /\ Len(b) \in Nat /\ n \in Nat /\ Len(b) >= 9 * n
      BY <1>2
    <3>2. j \in 0 .. n - 1 /\ i = Len(a) + 9 * j + k
      BY <1>6 DEF n
    <3> HIDE DEF i
    <3> QED BY <3>1, <3>2
  <2>2. l.at + k = i
    OBVIOUS
  <2> HIDE DEF i, c
  <2>3. bits[i] = b[9 * ((j + 1) - 1) + k]
    BY <1>4, <1>5, <2>1
  <2>4. b[9 * ((j + 1) - 1) + k] = Bits(c, 9)[k]
    BY <1>2, <2>1 DEF c
  <2> QED BY <2>2, <2>3, <2>4
<1> DEFINE d == Bits(c, 9)
           u == SubSeq(bits, l.at + 2, l.at + 9)
           v == SubSeq(d, 2, 9)
<1>9. d \in Seq(Bit) /\ Len(d) = 9 /\ Value(v) = c
  BY <1>3, BitsOfCharacter
<1> HIDE DEF c, d
<1>10. \A k \in 1 .. 9 : bits[l.at + k] = d[k]
  BY <1>8 DEF d
<1>11. v \in Seq(Bit) /\ Len(v) = 8 /\ \A k \in 1 .. 8 : v[k] = d[k + 1]
  <2>1. \A i \in 2 .. 9 : d[i] \in Bit
    <3>1. d \in [1 .. 9 -> Bit]
      BY <1>9, LenProperties
    <3> QED BY <3>1
  <2>2. /\ v \in Seq(Bit) /\ Len(v) = (IF 2 <= 9 THEN 9 - 2 + 1 ELSE 0)
        /\ \A k \in 1 .. 9 - 2 + 1 : v[k] = d[2 + k - 1]
    BY <2>1, SubSeqProperties
  <2>3. \A k \in 1 .. 8 : 2 + k - 1 = k + 1
    OBVIOUS
  <2> HIDE DEF v
  <2> QED BY <2>2, <2>3
<1>12. u \in Seq(Bit) /\ Len(u) = 8 /\ \A k \in 1 .. 8 : u[k] = d[k + 1]
  <2>1. l.at \in Nat
    BY DEF Readers
  <2>2. \A i \in l.at + 2 .. l.at + 9 : bits[i] \in Bit
    BY <1>2, <1>7, <2>1, ElementOfSeq
  <2>3. /\ l.at + 2 \in Int /\ l.at + 9 \in Int /\ l.at + 2 <= l.at + 9
        /\ (l.at + 9) - (l.at + 2) + 1 = 8
    BY <2>1
  <2>4. /\ u \in Seq(Bit) /\ Len(u) = 8
        /\ \A k \in 1 .. (l.at + 9) - (l.at + 2) + 1 : u[k] = bits[l.at + 2 + k - 1]
    BY <2>2, <2>3, SubSeqProperties
  <2>5. \A k \in 1 .. 8 : k + 1 \in 1 .. 9 /\ l.at + 2 + k - 1 = l.at + (k + 1)
    BY <2>1
  <2> HIDE DEF u
  <2> QED BY <1>10, <2>3, <2>4, <2>5
<1>13. u = v
  <2> HIDE DEF u, v
  <2>1. Len(u) = Len(v) /\ \A k \in 1 .. Len(u) : u[k] = v[k]
    BY <1>11, <1>12
  <2> QED BY <1>11, <1>12, <2>1, SeqEqual
<1>14. Character(bits, l) = c
  BY <1>9, <1>13 DEF Character
<1> QED BY <1>7, <1>14 DEF bits, c

LEMMA InPlaceAlways ==
    ASSUME NEW bits \in Seq(Bit), NEW checked \in BOOLEAN, NEW l, Loop(l, bits, checked)
    PROVE  \A i \in 0 .. Len(bits) \div 9 : InPlace(l[i], checked)
<1> DEFINE N == Len(bits) \div 9
           T == {i \in Nat : i \in 0 .. N => InPlace(l[i], checked)}
<1>1. N \in Nat
  BY LenProperties
<1>2. /\ l[0] = Start /\ \A i \in 1 .. N : l[i] = Read(bits, checked, l[i - 1])
      /\ \A i \in 0 .. N : l[i] \in Readers
  BY DEF Loop
<1> HIDE DEF N
<1>3. 0 \in T
  <2> SUFFICES ASSUME NEW s \in Seq(Lines), NEW line \in Lines, NEW j \in Nat,
                      Spells(<<>>, s, line, j)
               PROVE  /\ 0 % 8 = j % 8
                      /\ \E lag \in Nat : Lag(checked, s, lag) /\ 0 = Len(LinesBits(s)) + 9 * j + lag
    BY <1>2 DEF InPlace, Start
  <2>1. Len(Text(s)) = 0 /\ j = 0
    BY LinesSequence, EmptySeq DEF Spells
  <2>2. s = <<>>
    <3> SUFFICES ASSUME s # <<>> PROVE FALSE
      OBVIOUS
    <3>1. PICK t \in Seq(Lines), e \in Lines : s = Append(t, e)
      BY SequenceEmptyOrAppend
    <3>2. Len(Text(s)) = Len(Text(t)) + Len(e) /\ Len(Text(t)) \in Nat /\ Len(e) \in Nat \ {0}
      BY <3>1, TextAppend, LinesSequence, LinesAre
    <3> DEFINE m == Len(Text(t))
               n == Len(e)
    <3>3. 0 = m + n /\ m \in Nat /\ n \in Nat \ {0}
      BY <2>1, <3>2
    <3> HIDE DEF m, n
    <3> QED BY <3>3
  <2>3. Len(LinesBits(s)) = 0 /\ Len(s) = 0
    BY <2>2, NoLines, EmptySeq
  <2>4. Lag(checked, s, 0)
    BY <2>3 DEF Lag, Uneven
  <2> QED BY <2>1, <2>3, <2>4
<1>4. ASSUME NEW i \in Nat, i \in T PROVE i + 1 \in T
  <2> SUFFICES ASSUME i + 1 \in 0 .. N PROVE InPlace(l[i + 1], checked)
    OBVIOUS
  <2>1. i \in 0 .. N /\ i + 1 \in 1 .. N /\ (i + 1) - 1 = i
    BY <1>1
  <2>2. l[i] \in Readers /\ l[i + 1] = Read(bits, checked, l[i]) /\ InPlace(l[i], checked)
    BY <1>2, <1>4, <2>1
  <2> QED BY <2>2, InPlaceStep
<1> HIDE DEF T
<1>5. Nat \subseteq T
  BY <1>3, <1>4, NaturalInduction
<1> QED BY <1>1, <1>5 DEF T, N

\* The bits are enough for a turn per character.
LEMMA EnoughTurns ==
    ASSUME NEW lines \in Seq(Lines)
    PROVE  9 * Len(Text(lines)) <= Len(LinesBits(lines))
<1> DEFINE T == {w \in Seq(Lines) : 9 * Len(Text(w)) <= Len(LinesBits(w))}
<1>1. <<>> \in T
  <2>1. Len(Text(<<>>)) = 0 /\ Len(LinesBits(<<>>)) = 0
    BY NoLines, EmptySeq
  <2> QED BY <2>1, EmptySeq
<1>2. ASSUME NEW w \in Seq(Lines), NEW e \in Lines, w \in T PROVE Append(w, e) \in T
  <2> DEFINE v == Append(w, e)
             m == Len(Text(w))
             n == Len(e)
             p == Padding(9 * n)
             b == Len(LinesBits(w))
  <2>1. v \in Seq(Lines) /\ Len(Text(v)) = m + n
    BY AppendProperties, TextAppend
  <2>2. Len(LinesBits(v)) = b + 9 * n + p
    BY LinesBitsLength
  <2>3. m \in Nat /\ n \in Nat /\ b \in Nat /\ p \in 0 .. 7 /\ 9 * m <= b
    BY <1>2, LinesSequence, LinesAre, LinesBitsAre, LineBitsAre
  <2> HIDE DEF v, m, n, p, b
  <2>4. 9 * (m + n) <= b + 9 * n + p
    BY <2>3
  <2>5. v \in T
    BY <2>1, <2>2, <2>4
  <2> QED BY <2>5 DEF v
<1> HIDE DEF T
<1>3. Seq(Lines) \subseteq T
  BY <1>1, <1>2, SequenceInduction
<1> QED BY <1>3 DEF T

\* The first n characters of the lines have been read.
HasRead(text, lines, n) == Len(text) = n /\ \A i \in 1 .. n : text[i] = Text(lines)[i]

\* A turn reads the next character, if nothing was skipped that was not padding.
LEMMA ReadsNext ==
    ASSUME NEW lines \in Seq(Lines), NEW checked \in BOOLEAN, checked \/ Aligned(lines),
           NEW n \in 0 .. Len(Text(lines)) - 1, NEW l \in Readers, InPlace(l, checked),
           HasRead(l.text, lines, n)
    PROVE  HasRead(Read(LinesBits(lines), checked, l).text, lines, n + 1)
<1> DEFINE bits == LinesBits(lines)
           c == Character(bits, l)
<1>1. PICK s \in Seq(Lines), line \in Lines, j \in Nat : Splits(lines, n, s, line, j)
  BY SplitsExist
<1>2. Spells(l.text, s, line, j)
  BY <1>1 DEF Splits, HasRead, Spells
<1>3. l.at = Len(LinesBits(s)) + 9 * j
  <2>1. PICK lag \in Nat : Lag(checked, s, lag) /\ l.at = Len(LinesBits(s)) + 9 * j + lag
    BY <1>2 DEF InPlace
  <2>2. lag = 0
    BY <1>1, <2>1 DEF Lag, Splits
  <2>3. Len(LinesBits(s)) \in Nat
    BY LinesBitsAre
  <2> QED BY <2>1, <2>2, <2>3
<1>4. l.at + 9 <= Len(bits) /\ c = line[j + 1]
  BY <1>1, <1>3, CharacterInLine DEF Splits
<1>5. bits \in Seq(Bit) /\ Len(bits) \in Nat /\ l.at \in Nat /\ l.text \in Seq(Byte)
  BY LinesBitsAre DEF Readers
<1> HIDE DEF bits, c
<1>6. c \in Byte /\ Read(bits, checked, l).text = Append(l.text, c)
  BY <1>4, <1>5, Turn DEF c
<1>7. /\ Len(Append(l.text, c)) = n + 1 /\ Append(l.text, c)[n + 1] = c
      /\ \A i \in 1 .. n : Append(l.text, c)[i] = l.text[i]
  BY <1>5, <1>6, AppendProperties DEF HasRead
<1>8. c = Text(lines)[n + 1]
  BY <1>1, <1>4 DEF Splits
<1>9. ASSUME NEW i \in 1 .. n + 1 PROVE Append(l.text, c)[i] = Text(lines)[i]
  <2>1. CASE i \in 1 .. n
    BY <1>7, <2>1 DEF HasRead
  <2>2. CASE i = n + 1
    BY <1>7, <1>8, <2>2
  <2>3. n \in Nat
    BY LinesSequence
  <2>4. i \in 1 .. n \/ i = n + 1
    BY <2>3
  <2> QED BY <2>1, <2>2, <2>4
<1> QED BY <1>6, <1>7, <1>9 DEF HasRead, bits

LEMMA ReadsAll ==
    ASSUME NEW lines \in Seq(Lines), NEW checked \in BOOLEAN, checked \/ Aligned(lines),
           NEW l, Loop(l, LinesBits(lines), checked)
    PROVE  /\ Len(Text(lines)) \in 0 .. Len(LinesBits(lines)) \div 9
           /\ l[Len(Text(lines))].text = Text(lines)
<1> DEFINE bits == LinesBits(lines)
           N == Len(bits) \div 9
           M == Len(Text(lines))
           T == {n \in Nat : n \in 0 .. M => HasRead(l[n].text, lines, n)}
<1>1. bits \in Seq(Bit) /\ Len(bits) \in Nat /\ M \in Nat /\ 9 * M <= Len(bits)
  BY LinesBitsAre, LinesSequence, EnoughTurns
<1>2. N \in Nat /\ M \in 0 .. N
  <2> HIDE DEF bits, M
  <2> QED BY <1>1
<1>3. /\ l[0] = Start /\ \A i \in 1 .. N : l[i] = Read(bits, checked, l[i - 1])
      /\ \A i \in 0 .. N : l[i] \in Readers
  BY DEF Loop
<1>4. \A i \in 0 .. N : InPlace(l[i], checked)
  <2> HIDE DEF bits
  <2> QED BY <1>1, InPlaceAlways DEF bits
<1> HIDE DEF bits, N, M
<1>5. 0 \in T
  BY <1>3, EmptySeq DEF HasRead, Start
<1>6. ASSUME NEW n \in Nat, n \in T PROVE n + 1 \in T
  <2> SUFFICES ASSUME n + 1 \in 0 .. M PROVE HasRead(l[n + 1].text, lines, n + 1)
    OBVIOUS
  <2>1. n \in 0 .. M /\ n \in 0 .. M - 1 /\ n \in 0 .. N /\ n + 1 \in 1 .. N /\ (n + 1) - 1 = n
    BY <1>1, <1>2
  <2>2. /\ l[n] \in Readers /\ l[n + 1] = Read(bits, checked, l[n]) /\ InPlace(l[n], checked)
        /\ HasRead(l[n].text, lines, n)
    BY <1>3, <1>4, <1>6, <2>1
  <2> QED BY <2>1, <2>2, ReadsNext DEF bits, M
<1> HIDE DEF T
<1>7. Nat \subseteq T
  BY <1>5, <1>6, NaturalInduction
<1>8. HasRead(l[M].text, lines, M)
  BY <1>1, <1>7 DEF T
<1>9. l[M].text \in Seq(Byte) /\ Text(lines) \in Seq(Byte)
  BY <1>2, <1>3, LinesSequence DEF Readers
<1>10. l[M].text = Text(lines)
  <2>1. Len(l[M].text) = Len(Text(lines))
    BY <1>8 DEF HasRead, M
  <2>2. \A i \in 1 .. Len(l[M].text) : l[M].text[i] = Text(lines)[i]
    BY <1>8 DEF HasRead
  <2> QED BY <1>9, <2>1, <2>2, SeqEqual
<1> QED BY <1>2, <1>10 DEF M, N, bits

\* Behind the last line there is nothing to read.
LEMMA NothingBehind ==
    ASSUME NEW lines \in Seq(Lines), NEW checked \in BOOLEAN, NEW l \in Readers,
           InPlace(l, checked), l.text = Text(lines)
    PROVE  Read(LinesBits(lines), checked, l) = l
<1>1. LinesBits(lines) \in Seq(Bit) /\ Len(LinesBits(lines)) \in Nat /\ l.at \in Nat
  BY LinesBitsAre DEF Readers
<1>2. l.at + 9 > Len(LinesBits(lines))
  <2>1. CASE lines = <<>>
    <3>1. Len(LinesBits(lines)) = 0
      BY <2>1, NoLines, EmptySeq
    <3> QED BY <1>1, <3>1
  <2>2. CASE lines # <<>>
    <3>1. PICK s \in Seq(Lines), line \in Lines : lines = Append(s, line)
      BY <2>2, SequenceEmptyOrAppend
    <3>2. Len(line) \in Nat \ {0} /\ Len(Text(lines)) \in Nat
      BY LinesAre, LinesSequence
    <3>3. Spells(l.text, lines, line, 0)
      BY <3>2 DEF Spells
    <3>4. PICK lag \in Nat : l.at = Len(LinesBits(lines)) + 9 * 0 + lag
      BY <3>3 DEF InPlace
    <3> QED BY <1>1, <3>4
  <2> QED BY <2>1, <2>2
<1> QED BY <1>1, <1>2, Turn

\* Lines are read back if nothing is skipped in them but padding.
LEMMA ReadBack ==
    ASSUME NEW lines \in Seq(Lines), NEW checked \in BOOLEAN, checked \/ Aligned(lines)
    PROVE  Unpacked(Encoded(lines), checked) = Text(lines)
<1> DEFINE bits == LinesBits(lines)
           N == Len(bits) \div 9
           M == Len(Text(lines))
<1>1. PICK l : Loop(l, bits, checked) /\ Unpacked(Encoded(lines), checked) = l[N].text
  <2>1. Encoded(lines) \in Seq(Byte)
    BY EncodedAre
  <2> QED BY <2>1, UnpackedIs DEF LinesBits
<1>2. bits \in Seq(Bit) /\ Len(bits) \in Nat
  BY LinesBitsAre
<1>3. M \in 0 .. N /\ l[M].text = Text(lines)
  BY <1>1, ReadsAll
<1>4. \A i \in 0 .. N : InPlace(l[i], checked)
  <2> HIDE DEF bits
  <2> QED BY <1>1, <1>2, InPlaceAlways DEF bits
<1>5. /\ \A i \in 1 .. N : l[i] = Read(bits, checked, l[i - 1])
      /\ \A i \in 0 .. N : l[i] \in Readers
  BY <1>1 DEF Loop
<1>6. N \in Nat /\ M \in Nat
  <2>1. M \in Nat
    BY LinesSequence
  <2> HIDE DEF bits, M
  <2> QED BY <1>2, <2>1
<1> DEFINE T == {i \in Nat : i \in M .. N => l[i].text = Text(lines)}
<1> HIDE DEF bits, N, M
<1>7. 0 \in T
  BY <1>3, <1>6
<1>8. ASSUME NEW i \in Nat, i \in T PROVE i + 1 \in T
  <2> SUFFICES ASSUME i + 1 \in M .. N PROVE l[i + 1].text = Text(lines)
    OBVIOUS
  <2>1. CASE i + 1 = M
    BY <1>3, <2>1
  <2>2. CASE i + 1 # M
    <3>1. i \in M .. N /\ i \in 0 .. N /\ i + 1 \in 1 .. N /\ (i + 1) - 1 = i
      BY <1>6, <2>2
    <3>2. /\ l[i].text = Text(lines) /\ l[i] \in Readers /\ InPlace(l[i], checked)
          /\ l[i + 1] = Read(bits, checked, l[i])
      BY <1>4, <1>5, <1>8, <3>1
    <3>3. l[i + 1] = l[i]
      BY <3>2, NothingBehind DEF bits
    <3> QED BY <3>2, <3>3
  <2> QED BY <2>1, <2>2
<1> HIDE DEF T
<1>9. Nat \subseteq T
  BY <1>7, <1>8, NaturalInduction
<1>10. N \in T /\ N \in M .. N
  BY <1>3, <1>6, <1>9
<1> QED BY <1>1, <1>10 DEF T

\* The last character of lines among which, but for the last, is one of a multiple of
\* eight characters is never read by the unchecked decoder at its place.
LEMMA LateAtTheEnd ==
    ASSUME NEW lines \in Seq(Lines), NEW l \in Readers, InPlace(l, FALSE),
           Read(LinesBits(lines), FALSE, l).text = Text(lines), l.text # Text(lines)
    PROVE  Aligned(lines)
<1> DEFINE bits == LinesBits(lines)
           c == Character(bits, l)
<1>1. bits \in Seq(Bit) /\ Len(bits) \in Nat /\ l.at \in Nat /\ l.text \in Seq(Byte)
  BY LinesBitsAre DEF Readers
<1>2. ~(l.at + 9 > Len(bits))
  BY <1>1, Turn
<1>3. c \in Byte /\ Read(bits, FALSE, l).text = Append(l.text, c)
  BY <1>1, <1>2, Turn
<1> HIDE DEF c
<1>4. lines # <<>>
  <2>1. Append(l.text, c) # <<>>
    BY <1>1, <1>3, AppendProperties
  <2> QED BY <1>3, <2>1, NoLines
<1>5. PICK s \in Seq(Lines), line \in Lines : lines = Append(s, line)
  BY <1>4, SequenceEmptyOrAppend
<1>6. Spells(Append(l.text, c), lines, line, 0)
  <2>1. Len(line) \in Nat \ {0} /\ Len(Text(lines)) \in Nat
    BY LinesAre, LinesSequence
  <2>2. Append(l.text, c) = Text(lines)
    BY <1>3
  <2> QED BY <2>1, <2>2 DEF Spells
<1>7. PICK t \in Seq(Lines), e \in Lines : lines = Append(t, e) /\ Spells(l.text, t, e, Len(e) - 1)
  BY <1>1, <1>3, <1>6, SpellsBehind
<1> DEFINE a == Len(LinesBits(t))
           n == Len(e)
           pad == Padding(9 * n)
<1>8. n - 1 \in Nat /\ n \in Nat /\ a \in Nat /\ pad \in 0 .. 7 /\ Len(bits) = a + 9 * n + pad
  BY <1>7, LinesAre, LinesBitsAre, LineBitsAre, LinesBitsLength
<1>9. PICK lag \in Nat : Lag(FALSE, t, lag) /\ l.at = a + 9 * (n - 1) + lag
  BY <1>7, <1>8 DEF InPlace
<1> HIDE DEF a, n, pad, bits
<1>10. lag <= 7
  BY <1>2, <1>8, <1>9
<1>11. Uneven(t)
  BY <1>9, <1>10 DEF Lag
<1> QED BY <1>7, <1>11, AlignedAppend

\* And only such lines are read back unchecked.
LEMMA OnlyAlignedReadBack ==
    ASSUME NEW lines \in Seq(Lines), Unpacked(Encoded(lines), FALSE) = Text(lines)
    PROVE  Aligned(lines)
<1> DEFINE bits == LinesBits(lines)
           N == Len(bits) \div 9
<1>1. PICK l : Loop(l, bits, FALSE) /\ l[N].text = Text(lines)
  <2>1. Encoded(lines) \in Seq(Byte)
    BY EncodedAre
  <2> QED BY <2>1, UnpackedIs DEF LinesBits
<1>2. bits \in Seq(Bit) /\ Len(bits) \in Nat
  BY LinesBitsAre
<1>3. \A i \in 0 .. N : InPlace(l[i], FALSE)
  <2> HIDE DEF bits
  <2> QED BY <1>1, <1>2, InPlaceAlways DEF bits
<1>4. /\ l[0] = Start /\ \A i \in 1 .. N : l[i] = Read(bits, FALSE, l[i - 1])
      /\ \A i \in 0 .. N : l[i] \in Readers
  BY <1>1 DEF Loop
<1>5. N \in Nat
  <2> HIDE DEF bits
  <2> QED BY <1>2
<1>6. CASE Text(lines) = <<>>
  <2>1. lines = <<>>
    <3> SUFFICES ASSUME lines # <<>> PROVE FALSE
      OBVIOUS
    <3>1. PICK s \in Seq(Lines), line \in Lines : lines = Append(s, line)
      BY SequenceEmptyOrAppend
    <3> DEFINE m == Len(Text(s))
               n == Len(line)
    <3>2. Len(Text(lines)) = m + n /\ m \in Nat /\ n \in Nat \ {0}
      BY <3>1, TextAppend, LinesSequence, LinesAre
    <3>3. Len(Text(lines)) = 0
      BY <1>6, EmptySeq
    <3> HIDE DEF m, n
    <3> QED BY <3>2, <3>3
  <2> QED BY <2>1, EmptySeq DEF Aligned
<1>7. CASE Text(lines) # <<>>
  <2> DEFINE K == {k \in Nat : k \in 0 .. N /\ l[k].text = Text(lines)}
  <2> HIDE DEF bits, N
  <2>1. PICK k \in K : \A i \in K : k <= i
    <3>1. N \in K
      BY <1>1, <1>5
    <3>2. K \in SUBSET Nat
      OBVIOUS
    <3> HIDE DEF K
    <3> QED BY <3>1, <3>2, LeastNumber
  <2>2. k # 0
    BY <1>4, <1>7 DEF Start
  <2>3. k - 1 \in Nat /\ k \in 1 .. N /\ k - 1 \in 0 .. N /\ ~(k <= k - 1)
    BY <1>5, <2>2
  <2>4. l[k - 1].text # Text(lines)
    BY <2>1, <2>3
  <2>5. /\ l[k - 1] \in Readers /\ InPlace(l[k - 1], FALSE)
        /\ Read(bits, FALSE, l[k - 1]).text = Text(lines)
    BY <1>3, <1>4, <2>3
  <2> QED BY <2>4, <2>5, LateAtTheEnd DEF bits
<1> QED BY <1>6, <1>7

-----------------------------------------------------------------------------
(* What is delivered.                                                        *)

LEMMA SomeLines ==
    ASSUME NEW lines \in Seq(Lines), NEW m \in Nat \ {0}, NEW n \in 0 .. Len(lines)
    PROVE  /\ SubSeq(lines, m, n) \in Seq(Lines)
           /\ Len(SubSeq(lines, m, n)) = IF m <= n THEN n - m + 1 ELSE 0
           /\ \A i \in 1 .. n - m + 1 : SubSeq(lines, m, n)[i] = lines[m + i - 1]
<1>1. Len(lines) \in Nat /\ n \in Int /\ m \in Int
  BY LenProperties
<1>2. \A i \in m .. n : i \in 1 .. Len(lines)
  BY <1>1
<1>3. \A i \in m .. n : lines[i] \in Lines
  BY <1>2, ElementOfSeq
<1> QED BY <1>1, <1>3, SubSeqProperties

LEMMA EncodedPrefix ==
    ASSUME NEW lines \in Seq(Lines), NEW k \in 0 .. Len(lines)
    PROVE  \E rest \in Seq(Byte) : Encoded(lines) = Encoded(SubSeq(lines, 1, k)) \o rest
<1> DEFINE T == {w \in Seq(Lines) : \A n \in 0 .. Len(w) : \E rest \in Seq(Byte) :
                   Encoded(w) = Encoded(SubSeq(w, 1, n)) \o rest}
<1>1. ASSUME NEW w \in Seq(Lines) PROVE Encoded(w) = Encoded(SubSeq(w, 1, Len(w))) \o <<>>
  BY EncodedAre, SubSeqFull, ConcatEmptySeq
<1>2. <<>> \in T
  <2>1. <<>> \in Seq(Lines) /\ Len(<<>>) = 0 /\ <<>> \in Seq(Byte)
    BY EmptySeq
  <2>2. \A n \in 0 .. Len(<<>>) : n = Len(<<>>)
    BY <2>1
  <2> QED BY <1>1, <2>1, <2>2
<1>3. ASSUME NEW w \in Seq(Lines), NEW e \in Lines, w \in T PROVE Append(w, e) \in T
  <2> DEFINE v == Append(w, e)
             m == Len(w)
  <2>1. /\ v \in Seq(Lines) /\ Len(v) = m + 1 /\ m \in Nat
        /\ \A i \in 1 .. m : v[i] = w[i]
        /\ Encoded(v) = Encoded(w) \o Data_8_to_9(e)
        /\ Data_8_to_9(e) \in Seq(Byte) /\ Encoded(w) \in Seq(Byte)
    <3>1. /\ v \in Seq(Lines) /\ Len(v) = m + 1 /\ m \in Nat
          /\ \A i \in 1 .. m : v[i] = w[i]
      BY AppendProperties, LenProperties
    <3>2. Encoded(v) = Encoded(w) \o Data_8_to_9(e)
      BY EncodedAppend
    <3>3. Data_8_to_9(e) \in Seq(Byte) /\ Encoded(w) \in Seq(Byte)
      BY EncodedAre, LinesAre, PackedBits
    <3> HIDE DEF v, m
    <3> QED BY <3>1, <3>2, <3>3
  <2> SUFFICES ASSUME NEW n \in 0 .. m + 1
               PROVE  \E rest \in Seq(Byte) : Encoded(v) = Encoded(SubSeq(v, 1, n)) \o rest
    BY <2>1
  <2> HIDE DEF v
  <2>2. CASE n = m + 1
    <3>1. <<>> \in Seq(Byte)
      BY EmptySeq
    <3> QED BY <1>1, <2>1, <2>2, <3>1
  <2>3. CASE n \in 0 .. m
    <3> DEFINE a == SubSeq(v, 1, n)
               b == SubSeq(w, 1, n)
    <3>1. \A i \in 1 .. n : v[i] \in Lines /\ w[i] \in Lines /\ v[i] = w[i]
      <4>1. \A i \in 1 .. n : i \in 1 .. m
        BY <2>1, <2>3
      <4>2. \A i \in 1 .. m : w[i] \in Lines
        BY ElementOfSeq
      <4> QED BY <2>1, <4>1, <4>2
    <3>2. 1 \in Int /\ n \in Int /\ (n - 1 + 1 = n) /\ n \in Nat
      BY <2>1
    <3>3. /\ a \in Seq(Lines) /\ Len(a) = (IF 1 <= n THEN n - 1 + 1 ELSE 0)
          /\ \A i \in 1 .. n - 1 + 1 : a[i] = v[1 + i - 1]
      BY <3>1, <3>2, SubSeqProperties
    <3>4. /\ b \in Seq(Lines) /\ Len(b) = (IF 1 <= n THEN n - 1 + 1 ELSE 0)
          /\ \A i \in 1 .. n - 1 + 1 : b[i] = w[1 + i - 1]
      BY <3>1, <3>2, SubSeqProperties
    <3> HIDE DEF a, b
    <3>5. Len(a) = Len(b) /\ \A i \in 1 .. Len(a) : i \in 1 .. n - 1 + 1 /\ 1 + i - 1 = i /\ i \in 1 .. n
      BY <3>2, <3>3, <3>4
    <3>6. \A i \in 1 .. Len(a) : a[i] = b[i]
      BY <3>1, <3>3, <3>4, <3>5
    <3>7. a = b
      BY <3>3, <3>4, <3>5, <3>6, SeqEqual
    <3>8. PICK rest \in Seq(Byte) : Encoded(w) = Encoded(b) \o rest
      BY <1>3, <2>1, <2>3 DEF b
    <3> DEFINE c == Encoded(b)
               d == Data_8_to_9(e)
    <3>9. c \in Seq(Byte) /\ d \in Seq(Byte) /\ Encoded(v) = (c \o rest) \o d
      BY <2>1, <3>4, <3>8, EncodedAre
    <3> HIDE DEF c, d
    <3>10. (c \o rest) \o d = c \o (rest \o d) /\ rest \o d \in Seq(Byte)
      <4>1. c \in Seq(Byte) /\ rest \in Seq(Byte) /\ d \in Seq(Byte)
        BY <3>8, <3>9
      <4>2. (c \o rest) \o d = c \o (rest \o d)
        BY <4>1, ConcatAssociative
      <4>3. rest \o d \in Seq(Byte)
        BY <4>1, ConcatProperties
      <4> QED BY <4>2, <4>3
    <3>11. Encoded(v) = Encoded(a) \o (rest \o d)
      BY <3>7, <3>9, <3>10 DEF c
    <3> QED BY <3>10, <3>11 DEF a
  <2>4. n = m + 1 \/ n \in 0 .. m
    BY <2>1
  <2> QED BY <2>2, <2>3, <2>4
<1> HIDE DEF T
<1>4. Seq(Lines) \subseteq T
  BY <1>2, <1>3, SequenceInduction
<1> QED BY <1>4 DEF T

\* So many whole lines from the first.
LEMMA WholeLines ==
    ASSUME NEW lines \in Seq(Lines), NEW k \in 0 .. Len(lines)
    PROVE  Piece(lines, 0, k, 0) = Encoded(SubSeq(lines, 1, k))
<1> DEFINE a == Encoded(SubSeq(lines, 1, k))
           b == SubSeq(Encoded(lines), 1, Len(a))
<1>1. PICK rest \in Seq(Byte) : Encoded(lines) = a \o rest
  BY EncodedPrefix
<1>2. a \in Seq(Byte) /\ Len(a) \in Nat
  <2>1. SubSeq(lines, 1, k) \in Seq(Lines)
    BY LenProperties, SomeLines
  <2>2. a \in Seq(Byte)
    BY <2>1, EncodedAre
  <2> QED BY <2>2, LenProperties
<1> HIDE DEF a
<1> DEFINE f == a \o rest
<1>3. Len(rest) \in Nat
  BY <1>1, LenProperties
<1>4. /\ f \in Seq(Byte) /\ Len(f) = Len(a) + Len(rest)
      /\ \A i \in 1 .. Len(a) + Len(rest) : f[i] = IF i <= Len(a) THEN a[i] ELSE rest[i - Len(a)]
  BY <1>1, <1>2, ConcatProperties
<1> HIDE DEF f
<1>5. \A i \in 1 .. Len(a) : i \in 1 .. Len(a) + Len(rest) /\ i <= Len(a)
  BY <1>2, <1>3
<1>6. \A i \in 1 .. Len(a) : f[i] = a[i]
  BY <1>4, <1>5
<1>7. \A i \in 1 .. Len(a) : f[i] \in Byte
  BY <1>2, <1>6, ElementOfSeq
<1> DEFINE u == SubSeq(f, 1, Len(a))
<1>8. /\ u \in Seq(Byte) /\ Len(u) = (IF 1 <= Len(a) THEN Len(a) - 1 + 1 ELSE 0)
      /\ \A i \in 1 .. Len(a) - 1 + 1 : u[i] = f[1 + i - 1]
  <2>1. 1 \in Int /\ Len(a) \in Int
    BY <1>2
  <2> QED BY <1>7, <2>1, SubSeqProperties
<1> HIDE DEF u
<1>9. Len(u) = Len(a) /\ \A i \in 1 .. Len(u) : i \in 1 .. Len(a) - 1 + 1 /\ 1 + i - 1 = i /\ i \in 1 .. Len(a)
  BY <1>2, <1>8
<1>10. \A i \in 1 .. Len(u) : u[i] = a[i]
  BY <1>6, <1>8, <1>9
<1>11. u = a
  BY <1>2, <1>8, <1>9, <1>10, SeqEqual
<1>12. Len(a) + 0 = Len(a) /\ 0 + 1 = 1
  BY <1>2
<1>13. Piece(lines, 0, k, 0) = u
  BY <1>1, <1>12 DEF Piece, u, f, a
<1> QED BY <1>11, <1>13 DEF a

LEMMA Whole ==
    ASSUME NEW lines \in Seq(Lines), NEW k \in 0 .. Len(lines), Aligned(SubSeq(lines, 1, k))
    PROVE  /\ SubSeq(lines, 1, k) \in Seq(Lines)
           /\ Data_9_to_8(Piece(lines, 0, k, 0)) = Text(SubSeq(lines, 1, k))
<1>1. SubSeq(lines, 1, k) \in Seq(Lines)
  BY LenProperties, SomeLines
<1> QED BY <1>1, WholeLines, ReadBack DEF Data_9_to_8

-----------------------------------------------------------------------------
(* The theorems.                                                             *)

\* What is on its way are lines, no more of them than were said.
OnItsWay ==
  /\ wire \in Seq(Lines) /\ said \in Nat /\ Len(wire) <= said /\ said <= MaxLines
  /\ cut \in {0} \cup TornAfter
  /\ answer \in Answers

LEMMA OnItsWayAlways == Spec => []OnItsWay
<1>1. Init => OnItsWay
  BY EmptySeq, BoundsAreNumbers DEF Init, OnItsWay
<1>2. OnItsWay /\ [Next]_vars => OnItsWay'
  <2> SUFFICES ASSUME OnItsWay, [Next]_vars PROVE OnItsWay'
    OBVIOUS
  <2> USE DEF OnItsWay
  <2>1. ASSUME NEW line \in Lines, Say(line) PROVE OnItsWay'
    <3>1. wire' \in Seq(Lines) /\ Len(wire') = Len(wire) + 1 /\ Len(wire) \in Nat
      BY <2>1, AppendProperties, LenProperties DEF Say
    <3> QED BY <2>1, <3>1, BoundsAreNumbers DEF Say
  <2>2. ASSUME NEW d \in Pieces(wire, cut), Receive(d[1], d[2]) PROVE OnItsWay'
    <3>1. d[1] \in 0 .. Len(wire) /\ d[2] \in {0} \cup TornAfter
      BY DEF Pieces
    <3> DEFINE m == d[1] + 1
               n == Len(wire)
    <3>2. m \in Nat \ {0} /\ n \in 0 .. n /\ n \in Nat
      BY <3>1, LenProperties
    <3>3. wire' = SubSeq(wire, m, n)
      BY <2>2 DEF Receive
    <3> HIDE DEF m, n
    <3>4. /\ SubSeq(wire, m, n) \in Seq(Lines)
          /\ Len(SubSeq(wire, m, n)) = IF m <= n THEN n - m + 1 ELSE 0
      BY <3>2, SomeLines DEF n
    <3>5. Len(wire') \in Nat /\ Len(wire') <= n
      BY <3>2, <3>3, <3>4
    <3>6. cut' = d[2] /\ UNCHANGED <<said, answer>>
      BY <2>2 DEF Receive, board
    <3> QED BY <3>1, <3>2, <3>3, <3>4, <3>5, <3>6, BoundsAreNumbers DEF n
  <2>3. CASE HangUp
    BY <2>3 DEF HangUp
  <2>4. CASE Idle
    BY <2>4 DEF Idle, board
  <2>5. CASE Disconnected
    BY <2>5 DEF Disconnected, board
  <2>6. CASE Alarm
    BY <2>6 DEF Alarm, board
  <2>7. CASE UNCHANGED vars
    BY <2>7 DEF vars
  <2> QED BY <2>1, <2>2, <2>3, <2>4, <2>5, <2>6, <2>7 DEF Next
<1> QED BY <1>1, <1>2, PTL DEF Spec

\* Whatever lines a board says, they are read back by legitbbs-poller.py exactly if
\* none but the last has a multiple of eight characters, and by rubix always.
THEOREM LinesAreReadBack == Spec => []LinesReadBack
<1>1. OnItsWay => LinesReadBack
  <2> SUFFICES ASSUME wire \in Seq(Lines) PROVE LinesReadBack
    BY DEF OnItsWay
  <2>1. Data_9_to_8(Encoded(wire)) = Text(wire) <=> Aligned(wire)
    BY ReadBack, OnlyAlignedReadBack DEF Data_9_to_8
  <2>2. Data_9_to_8_New(Encoded(wire)) = Text(wire)
    BY ReadBack DEF Data_9_to_8_New
  <2> QED BY <2>1, <2>2 DEF LinesReadBack, Text
<1> QED BY <1>1, OnItsWayAlways, PTL

\* A poll that ends by itself has passed, or has failed; it has passed if it was
\* told the answer, and is not about to pass on anything else that it could read.
Ends == exit \in {0, 1} => exit = Left(passed)
PassedInv ==
  /\ shown => passed
  /\ passed \/ state = "passed" => shown \/ garbled
  /\ Ends

LEMMA ReadableIsHeard ==
    ASSUME OnItsWay, NEW whole \in 0 .. Len(wire), NEW torn, Readable(whole, torn), NEW s
    PROVE  /\ Told(SubSeq(wire, 1, whole)) => recvhook(s, Data_9_to_8(Delivered(whole, torn))) = "passed"
           /\ recvhook(s, Data_9_to_8(Delivered(whole, torn))) = "passed" /\ s # "passed"
                => Told(SubSeq(wire, 1, whole))
<1> DEFINE lines == SubSeq(wire, 1, whole)
           text == Data_9_to_8(Delivered(whole, torn))
<1>1. text = Text(lines)
  <2>1. wire \in Seq(Lines) /\ Aligned(SubSeq(wire, 1, whole)) /\ cut = 0 /\ torn = 0
    BY DEF OnItsWay, Readable
  <2>2. Data_9_to_8(Piece(wire, 0, whole, 0)) = Text(SubSeq(wire, 1, whole))
    BY <2>1, Whole
  <2> QED BY <2>1, <2>2 DEF Delivered
<1>2. Told(lines) <=> Mentions(text, answer) /\ ~ Mentions(text, QuestionMark)
  BY <1>1 DEF Told, Text
<1> HIDE DEF lines, text
<1>3. /\ Told(lines) => recvhook(s, text) = "passed"
      /\ recvhook(s, text) = "passed" /\ s # "passed" => Told(lines)
  BY <1>2 DEF recvhook
<1> QED BY <1>3 DEF lines, text

\* A poll that ends by itself passes the board if it was told the answer in a piece that
\* can be read, and otherwise only if some piece could not.
THEOREM PassedAsShown == Spec => []PassedIffShown
<1>1. Init => PassedInv
  BY DEF Init, PassedInv, Ends, Running
<1>2. OnItsWay /\ PassedInv /\ [Next]_vars => PassedInv'
  <2> SUFFICES ASSUME OnItsWay, PassedInv, [Next]_vars PROVE PassedInv'
    OBVIOUS
  <2> USE DEF PassedInv, Ends
  <2>1. ASSUME NEW line \in Lines, Say(line) PROVE PassedInv'
    BY <2>1 DEF Say, Left
  <2>2. ASSUME NEW d \in Pieces(wire, cut), Receive(d[1], d[2]) PROVE PassedInv'
    <3> DEFINE heard == recvhook(state, Data_9_to_8(Delivered(d[1], d[2])))
               reads == Readable(d[1], d[2])
               told == Told(SubSeq(wire, 1, d[1]))
    <3>1. d[1] \in 0 .. Len(wire)
      BY DEF Pieces
    <3>2. /\ reads /\ told => heard = "passed"
          /\ reads /\ heard = "passed" /\ state # "passed" => told
      BY <3>1, ReadableIsHeard
    <3>3. /\ passed' = (passed \/ "passed" \in {state, heard})
          /\ shown' = (shown \/ (reads /\ told))
          /\ garbled' = (garbled \/ ~ reads)
          /\ state' = sendhook(heard)
          /\ exit' = Left(passed') \/ exit' = Running
      BY <2>2 DEF Receive
    <3> HIDE DEF heard, reads, told
    <3>4. shown' => passed'
      BY <3>2, <3>3
    <3>5. sendhook(heard) = "passed" => heard = "passed"
      BY DEF sendhook
    <3>6. passed' \/ state' = "passed" => shown' \/ garbled'
      <4>1. passed' \/ state' = "passed" => passed \/ state = "passed" \/ heard = "passed"
        BY <3>3, <3>5
      <4>2. shown \/ garbled => shown' \/ garbled'
        BY <3>3, Zenon
      <4>3. heard = "passed" /\ state # "passed" => shown' \/ garbled'
        <5>1. heard = "passed" /\ state # "passed" => (reads /\ told) \/ ~ reads
          BY <3>2, Zenon
        <5> QED BY <3>3, <5>1, Zenon
      <4> QED BY <4>1, <4>2, <4>3
    <3>7. Ends'
      BY <3>3 DEF Running
    <3> HIDE DEF Ends
    <3> QED BY <3>4, <3>6, <3>7
  <2>3. CASE HangUp
    BY <2>3 DEF HangUp, Left
  <2>4. CASE Idle
    <3>1. /\ passed' = (passed \/ state = "passed") /\ UNCHANGED <<state, shown, garbled>>
          /\ exit' = Left(passed') \/ exit' = Running
      BY <2>4 DEF Idle
    <3>2. Ends'
      BY <3>1 DEF Running
    <3>3. (shown' => passed') /\ (passed' \/ state' = "passed" => shown' \/ garbled')
      BY <3>1, Zenon
    <3> HIDE DEF Ends
    <3> QED BY <3>2, <3>3
  <2>5. CASE Disconnected
    <3>1. /\ passed' = (passed \/ state = "passed") /\ UNCHANGED <<state, shown, garbled>>
          /\ exit' = Left(passed')
      BY <2>5 DEF Disconnected
    <3>2. Ends'
      BY <3>1
    <3>3. (shown' => passed') /\ (passed' \/ state' = "passed" => shown' \/ garbled')
      BY <3>1, Zenon
    <3> HIDE DEF Ends
    <3> QED BY <3>2, <3>3
  <2>6. CASE Alarm
    BY <2>6 DEF Alarm, Timeout
  <2>7. CASE UNCHANGED vars
    BY <2>7 DEF vars, Left
  <2> QED BY <2>1, <2>2, <2>3, <2>4, <2>5, <2>6, <2>7 DEF Next
<1>3. PassedInv => PassedIffShown
  BY DEF PassedInv, Ends, PassedIffShown, Left
<1> QED BY <1>1, <1>2, <1>3, OnItsWayAlways, PTL DEF Spec
=============================================================================
