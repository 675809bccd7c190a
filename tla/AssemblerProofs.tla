-------------------------- MODULE AssemblerProofs --------------------------
(***************************************************************************)
(* Theorems about Assembler: what it makes of any arguments that fit, and  *)
(* that its code says the instruction and is like no other's.  Of Rubix it  *)
(* takes what the tests are composed of (NamesOf).                         *)
(***************************************************************************)
EXTENDS Assembler, Rubix, DataInduction


Bit == {0, 1}
Small == 0 .. 2^30 - 1

-----------------------------------------------------------------------------
(* Powers of two.                                                            *)

\* The prover knows the powers of which the exponent is written down.
LEMMA PowerDoubles ==
    \A i \in 0 .. 29 : 2^i \in Nat \ {0} /\ 2^(i + 1) = 2 * 2^i
<1>1. ASSUME NEW i \in 0 .. 5 PROVE 2^i \in Nat \ {0} /\ 2^(i + 1) = 2 * 2^i
    <2>1. i = 0 \/ i = 1 \/ i = 2 \/ i = 3 \/ i = 4 \/ i = 5
        OBVIOUS
    <2>2. /\ 2^(0 + 1) = 2 * 2^0 /\ 2^(1 + 1) = 2 * 2^1 /\ 2^(2 + 1) = 2 * 2^2
          /\ 2^(3 + 1) = 2 * 2^3 /\ 2^(4 + 1) = 2 * 2^4 /\ 2^(5 + 1) = 2 * 2^5
          /\ 2^0 \in Nat \ {0} /\ 2^1 \in Nat \ {0} /\ 2^2 \in Nat \ {0}
          /\ 2^3 \in Nat \ {0} /\ 2^4 \in Nat \ {0} /\ 2^5 \in Nat \ {0}
        BY SMT
    <2> QED BY <2>1, <2>2
<1>2. ASSUME NEW i \in 6 .. 11 PROVE 2^i \in Nat \ {0} /\ 2^(i + 1) = 2 * 2^i
    <2>1. i = 6 \/ i = 7 \/ i = 8 \/ i = 9 \/ i = 10 \/ i = 11
        OBVIOUS
    <2>2. /\ 2^(6 + 1) = 2 * 2^6 /\ 2^(7 + 1) = 2 * 2^7 /\ 2^(8 + 1) = 2 * 2^8
          /\ 2^(9 + 1) = 2 * 2^9 /\ 2^(10 + 1) = 2 * 2^10 /\ 2^(11 + 1) = 2 * 2^11
          /\ 2^6 \in Nat \ {0} /\ 2^7 \in Nat \ {0} /\ 2^8 \in Nat \ {0}
          /\ 2^9 \in Nat \ {0} /\ 2^10 \in Nat \ {0} /\ 2^11 \in Nat \ {0}
        BY SMT
    <2> QED BY <2>1, <2>2
<1>3. ASSUME NEW i \in 12 .. 17 PROVE 2^i \in Nat \ {0} /\ 2^(i + 1) = 2 * 2^i
    <2>1. i = 12 \/ i = 13 \/ i = 14 \/ i = 15 \/ i = 16 \/ i = 17
        OBVIOUS
    <2>2. /\ 2^(12 + 1) = 2 * 2^12 /\ 2^(13 + 1) = 2 * 2^13 /\ 2^(14 + 1) = 2 * 2^14
          /\ 2^(15 + 1) = 2 * 2^15 /\ 2^(16 + 1) = 2 * 2^16 /\ 2^(17 + 1) = 2 * 2^17
          /\ 2^12 \in Nat \ {0} /\ 2^13 \in Nat \ {0} /\ 2^14 \in Nat \ {0}
          /\ 2^15 \in Nat \ {0} /\ 2^16 \in Nat \ {0} /\ 2^17 \in Nat \ {0}
        BY SMT
    <2> QED BY <2>1, <2>2
<1>4. ASSUME NEW i \in 18 .. 23 PROVE 2^i \in Nat \ {0} /\ 2^(i + 1) = 2 * 2^i
    <2>1. i = 18 \/ i = 19 \/ i = 20 \/ i = 21 \/ i = 22 \/ i = 23
        OBVIOUS
    <2>2. /\ 2^(18 + 1) = 2 * 2^18 /\ 2^(19 + 1) = 2 * 2^19 /\ 2^(20 + 1) = 2 * 2^20
          /\ 2^(21 + 1) = 2 * 2^21 /\ 2^(22 + 1) = 2 * 2^22 /\ 2^(23 + 1) = 2 * 2^23
          /\ 2^18 \in Nat \ {0} /\ 2^19 \in Nat \ {0} /\ 2^20 \in Nat \ {0}
          /\ 2^21 \in Nat \ {0} /\ 2^22 \in Nat \ {0} /\ 2^23 \in Nat \ {0}
        BY SMT
    <2> QED BY <2>1, <2>2
<1>5. ASSUME NEW i \in 24 .. 29 PROVE 2^i \in Nat \ {0} /\ 2^(i + 1) = 2 * 2^i
    <2>1. i = 24 \/ i = 25 \/ i = 26 \/ i = 27 \/ i = 28 \/ i = 29
        OBVIOUS
    <2>2. /\ 2^(24 + 1) = 2 * 2^24 /\ 2^(25 + 1) = 2 * 2^25 /\ 2^(26 + 1) = 2 * 2^26
          /\ 2^(27 + 1) = 2 * 2^27 /\ 2^(28 + 1) = 2 * 2^28 /\ 2^(29 + 1) = 2 * 2^29
          /\ 2^24 \in Nat \ {0} /\ 2^25 \in Nat \ {0} /\ 2^26 \in Nat \ {0}
          /\ 2^27 \in Nat \ {0} /\ 2^28 \in Nat \ {0} /\ 2^29 \in Nat \ {0}
        BY SMT
    <2> QED BY <2>1, <2>2
<1>6. \A i \in 0 .. 29 : \/ i \in 0 .. 5 \/ i \in 6 .. 11 \/ i \in 12 .. 17 \/ i \in 18 .. 23
                          \/ i \in 24 .. 29
    OBVIOUS
<1> QED BY <1>1, <1>2, <1>3, <1>4, <1>5, <1>6

\* The powers as a table, which the prover reads more easily.
Power == [i \in 0 .. 30 |-> 2^i]

LEMMA PowerTable ==
    /\ \A i \in 0 .. 30 : Power[i] = 2^i /\ Power[i] \in Nat \ {0}
    /\ \A i \in 0 .. 29 : Power[i + 1] = 2 * Power[i]
    /\ \A i \in 0 .. 30, j \in 0 .. 30 : i <= j => Power[i] <= Power[j]
<1>1. \A i \in 0 .. 30 : Power[i] = 2^i /\ Power[i] \in Nat \ {0}
    <2>1. \A i \in 0 .. 30 : i \in 0 .. 29 \/ i = 30
        OBVIOUS
    <2>2. 2^30 \in Nat \ {0}
        BY SMT
    <2>3. ASSUME NEW i \in 0 .. 30 PROVE Power[i] = 2^i /\ 2^i \in Nat \ {0}
        <3>1. CASE i \in 0 .. 29
            BY <3>1, PowerDoubles DEF Power
        <3>2. CASE i = 30
            BY <3>2, <2>2 DEF Power
        <3> QED BY <2>1, <3>1, <3>2
    <2> QED BY <2>3
<1>2. ASSUME NEW i \in 0 .. 29 PROVE Power[i + 1] = 2 * Power[i]
    <2>1. i \in 0 .. 30 /\ i + 1 \in 0 .. 30
        OBVIOUS
    <2> QED BY <2>1, PowerDoubles DEF Power
<1>3. ASSUME NEW i \in 0 .. 30 PROVE \A j \in 0 .. 30 : i <= j => Power[i] <= Power[j]
    <2> DEFINE T == {n \in Nat : i + n \in 0 .. 30 => Power[i] <= Power[i + n]}
    <2>1. 0 \in T
        BY <1>1
    <2>2. ASSUME NEW n \in Nat, n \in T PROVE n + 1 \in T
        <3> SUFFICES ASSUME i + (n + 1) \in 0 .. 30 PROVE Power[i] <= Power[i + (n + 1)]
            OBVIOUS
        <3> DEFINE k == i + n
        <3>1. k \in 0 .. 29 /\ k \in 0 .. 30 /\ i + (n + 1) = k + 1
            OBVIOUS
        <3>2. Power[i] <= Power[k]
            BY <2>2, <3>1
        <3> HIDE DEF k
        <3> QED BY <1>1, <1>2, <3>1, <3>2
    <2> HIDE DEF T
    <2>3. Nat \subseteq T
        BY <2>1, <2>2, NaturalInduction
    <2>4. ASSUME NEW j \in 0 .. 30, i <= j PROVE Power[i] <= Power[j]
        <3>1. j - i \in Nat /\ i + (j - i) = j
            BY <2>4
        <3> QED BY <2>3, <3>1 DEF T
    <2> QED BY <2>4
<1> QED BY <1>1, <1>2, <1>3

-----------------------------------------------------------------------------
(* Numbers in bits.                                                          *)

LEMMA BitLengthIs ==
    ASSUME NEW n \in Small
    PROVE  /\ BitLength(n) \in 1 .. 30
           /\ n < Power[BitLength(n)]
           /\ BitLength(n) = 1 \/ n >= Power[BitLength(n) - 1]
<1> DEFINE T == {k \in 1 .. 30 : n < Power[k]}
<1>1. 30 \in T /\ T \subseteq Nat
    BY PowerTable DEF Small
<1>2. PICK m \in T : \A k \in T : m <= k
    <2> HIDE DEF T
    <2> QED BY <1>1, LeastNumber
<1>3. m \in 1 .. 30 /\ n < Power[m]
    OBVIOUS
<1>4. m = 1 \/ n >= Power[m - 1]
    <2> SUFFICES ASSUME m # 1 PROVE n >= Power[m - 1]
        OBVIOUS
    <2>1. m - 1 \in 1 .. 30 /\ m - 1 \in 0 .. 30 /\ ~(m <= m - 1)
        BY <1>3
    <2>2. m - 1 \notin T
        BY <1>2, <2>1
    <2>3. ~(n < Power[m - 1])
        BY <2>1, <2>2
    <2> QED BY <2>1, <2>3, PowerTable DEF Small
<1> DEFINE Is(k) == n < 2^k /\ (k = 1 \/ n >= 2^(k - 1))
<1>5. \A k \in 1 .. 30 : Is(k) <=> n < Power[k] /\ (k = 1 \/ n >= Power[k - 1])
    <2>1. \A k \in 1 .. 30 : k \in 0 .. 30 /\ k - 1 \in 0 .. 30
        OBVIOUS
    <2> HIDE DEF T
    <2> QED BY <2>1, PowerTable
<1>6. BitLength(n) = CHOOSE k \in 1 .. 30 : Is(k)
    BY DEF BitLength
<1> HIDE DEF T, Is
<1>7. Is(m)
    BY <1>3, <1>4, <1>5
<1>8. BitLength(n) \in 1 .. 30 /\ Is(BitLength(n))
    BY <1>3, <1>6, <1>7
<1> QED BY <1>5, <1>8

\* The length is the only one of which this is true.
LEMMA BitLengthUnique ==
    ASSUME NEW n \in Small, NEW w \in 1 .. 30, n < Power[w], w = 1 \/ n >= Power[w - 1]
    PROVE  BitLength(n) = w
<1> DEFINE k == BitLength(n)
<1>1. k \in 1 .. 30 /\ n < Power[k] /\ (k = 1 \/ n >= Power[k - 1])
    BY BitLengthIs
<1> HIDE DEF k
<1>2. n \in Int /\ w - 1 \in 0 .. 30 /\ k - 1 \in 0 .. 30 /\ w \in 0 .. 30 /\ k \in 0 .. 30
    BY <1>1 DEF Small
<1>3. /\ Power[k] \in Int /\ Power[w] \in Int /\ Power[k - 1] \in Int /\ Power[w - 1] \in Int
    BY <1>2, PowerTable
<1>4. ~(k < w)
    <2> SUFFICES ASSUME k < w PROVE FALSE
        OBVIOUS
    <2>1. w # 1 /\ k <= w - 1
        BY <1>1
    <2>2. Power[k] <= Power[w - 1]
        BY <1>2, <2>1, PowerTable
    <2> QED BY <1>1, <1>2, <1>3, <2>1, <2>2
<1>5. ~(w < k)
    <2> SUFFICES ASSUME w < k PROVE FALSE
        OBVIOUS
    <2>1. k # 1 /\ w <= k - 1
        BY <1>1
    <2>2. Power[w] <= Power[k - 1]
        BY <1>2, <2>1, PowerTable
    <2> QED BY <1>1, <1>2, <1>3, <2>1, <2>2
<1>6. k = w
    BY <1>1, <1>4, <1>5
<1> QED BY <1>6 DEF k

\* A digit of two is a bit.
LEMMA DigitIsBit ==
    ASSUME NEW n \in Nat, NEW p \in Nat \ {0} PROVE (n \div p) % 2 \in Bit
<1>1. n \div p \in Int
    OBVIOUS
<1> DEFINE q == n \div p
<1> HIDE DEF q
<1>2. q \in Int => q % 2 \in Bit
    BY DEF Bit
<1> QED BY <1>1, <1>2 DEF q

LEMMA DigitsAre ==
    ASSUME NEW n \in Small
    PROVE  Digits(n) \in Seq(Bit) /\ Len(Digits(n)) = BitLength(n)
<1> DEFINE k == BitLength(n)
           d == [i \in 1 .. k |-> (n \div 2^(k - i)) % 2]
<1>1. k \in 1 .. 30 /\ k \in Nat
    BY BitLengthIs
<1>2. Digits(n) = d
    BY DEF Digits
<1> HIDE DEF k
<1>3. ASSUME NEW i \in 1 .. k PROVE (n \div 2^(k - i)) % 2 \in Bit
    <2>1. k - i \in 0 .. 30
        BY <1>1
    <2> DEFINE p == 2^(k - i)
    <2>2. p \in Nat \ {0}
        BY <2>1, PowerTable
    <2> HIDE DEF p
    <2>3. (n \div p) % 2 \in Bit
        BY <2>2, DigitIsBit DEF Small
    <2> QED BY <2>3 DEF p
<1>4. d \in [1 .. k -> Bit]
    BY <1>3
<1> HIDE DEF d
<1>5. d \in Seq(Bit) /\ Len(d) = k
    BY <1>1, <1>4
<1> QED BY <1>2, <1>5 DEF k

LEMMA LastOfIs ==
    ASSUME NEW s \in Seq(Bit \cup {LetterB}), NEW w \in Nat
    PROVE  LastOf(s, w) \in Seq(Bit \cup {LetterB})
           /\ (Len(s) >= w => /\ Len(LastOf(s, w)) = w
                             /\ \A i \in 1 .. w : LastOf(s, w)[i] = s[Len(s) - w + i])
<1> DEFINE S == Bit \cup {LetterB}
<1>1. Len(s) \in Nat
    OBVIOUS
<1>2. CASE Len(s) <= w
    <2>1. LastOf(s, w) = s
        BY <1>2 DEF LastOf
    <2>2. Len(s) >= w => Len(s) = w /\ \A i \in 1 .. w : Len(s) - w + i = i
        BY <1>1, <1>2
    <2> QED BY <2>1, <2>2
<1>3. CASE ~(Len(s) <= w)
    <2> DEFINE m == Len(s) - w + 1
               n == Len(s)
    <2>1. LastOf(s, w) = SubSeq(s, m, n)
        BY <1>3 DEF LastOf
    <2>2. m \in 1 .. n + 1 /\ n \in Nat /\ n <= Len(s) /\ n - m + 1 = w
        BY <1>1, <1>3
    <2>3. SubSeq(s, m, n) \in Seq(S) /\ Len(SubSeq(s, m, n)) = n - m + 1
          /\ \A i \in 1 .. n - m + 1 : SubSeq(s, m, n)[i] = s[m + i - 1]
        <3> HIDE DEF m, n, S
        <3>1. s \in Seq(S)
            BY DEF S
        <3>2. m \in 1 .. n + 1 /\ n \in m - 1 .. Len(s)
            BY <2>2
        <3> QED BY <2>2, <3>1, <3>2, SubSeqProperties
    <2>4. \A i \in 1 .. w : m + i - 1 = Len(s) - w + i
        BY <1>1
    <2> HIDE DEF m, n
    <2> QED BY <2>1, <2>2, <2>3, <2>4
<1> QED BY <1>2, <1>3

\* Whatever it is, a number from 0 takes the width it is padded to.
LEMMA PaddedIs ==
    ASSUME NEW n \in Small, NEW w \in Nat
    PROVE  Padded(n, w) \in Seq(Bit) /\ Len(Padded(n, w)) = w
<1> DEFINE z == Zeros(w)
           d == Digits(n)
           s == z \o d
<1>1. z \in Seq(Bit) /\ Len(z) = w
    BY DEF Zeros, Bit
<1>2. d \in Seq(Bit) /\ Len(d) \in Nat
    BY DigitsAre, LenProperties
<1> HIDE DEF z, d
<1>3. s \in Seq(Bit) /\ Len(s) = w + Len(d)
    BY <1>1, <1>2, ConcatProperties
<1>4. Padded(n, w) = LastOf(s, w)
    BY DEF Padded, Bin, Small, z, d
<1> HIDE DEF s
<1>5. s \in Seq(Bit \cup {LetterB}) /\ Len(s) >= w
    BY <1>2, <1>3
<1>6. /\ LastOf(s, w) \in Seq(Bit \cup {LetterB}) /\ Len(LastOf(s, w)) = w
      /\ \A i \in 1 .. w : LastOf(s, w)[i] = s[Len(s) - w + i]
    BY <1>5, LastOfIs
<1>7. \A i \in 1 .. w : Len(s) - w + i \in 1 .. Len(s)
    BY <1>2, <1>3
<1>8. \A i \in 1 .. w : LastOf(s, w)[i] \in Bit
    BY <1>3, <1>6, <1>7
<1> QED BY <1>4, <1>6, <1>8

\* A complement of down to half of the width has the digits of its positive
\* counterpart: the letter is cut off.
LEMMA ComplementIs ==
    ASSUME NEW w \in 1 .. 27, NEW n \in Int, n < 0, -Power[w - 1] <= n
    PROVE  /\ Complement(n, w) = Digits(n + Power[w])
           /\ n + Power[w] \in Small
           /\ Complement(n, w) \in Seq(Bit) /\ Len(Complement(n, w)) = w
<1> DEFINE m == n + Power[w]
           d == Digits(m)
           s == <<LetterB>> \o d
<1>1. /\ Power[w] = 2 * Power[w - 1] /\ Power[w] \in Nat \ {0} /\ Power[w - 1] \in Nat \ {0}
      /\ Power[w] <= Power[30] /\ Power[30] \in Nat /\ Power[30] = 2^30 /\ Power[w] = 2^w
    <2>1. w - 1 \in 0 .. 29 /\ w - 1 \in 0 .. 30 /\ w \in 0 .. 30 /\ 30 \in 0 .. 30 /\ (w - 1) + 1 = w
        OBVIOUS
    <2>2. Power[(w - 1) + 1] = 2 * Power[w - 1]
        BY <2>1, PowerTable
    <2>3. Power[w] \in Nat \ {0} /\ Power[w - 1] \in Nat \ {0} /\ Power[w] = 2^w
        BY <2>1, PowerTable
    <2>4. Power[30] \in Nat /\ Power[30] = 2^30
        BY <2>1, PowerTable
    <2>5. Power[w] <= Power[30]
        BY <2>1, PowerTable
    <2> QED BY <2>1, <2>2, <2>3, <2>4, <2>5
<1>2. m \in Small /\ m >= Power[w - 1] /\ m < Power[w]
    BY <1>1 DEF Small
<1> HIDE DEF m
<1>3. w \in 1 .. 30 /\ BitLength(m) = w
    BY <1>2, BitLengthUnique
<1>4. d \in Seq(Bit) /\ Len(d) = w
    BY <1>2, <1>3, DigitsAre
<1>5. Complement(n, w) = LastOf(s, w)
    <2>1. -n - 2^w = -m /\ -m < 0 /\ -(-m) = m
        BY <1>1, <1>2 DEF m, Small
    <2> QED BY <2>1 DEF Complement, Bin
<1> HIDE DEF d
<1>6. s \in Seq(Bit \cup {LetterB}) /\ Len(s) = 1 + w /\ \A i \in 1 .. w : s[1 + i] = d[i]
    <2>1. d \in Seq(Bit \cup {LetterB}) /\ <<LetterB>> \in Seq(Bit \cup {LetterB})
          /\ Len(<<LetterB>>) = 1
        BY <1>4
    <2>2. s \in Seq(Bit \cup {LetterB}) /\ Len(s) = 1 + Len(d)
          /\ \A i \in 1 .. Len(s) : s[i] = IF i <= 1 THEN <<LetterB>>[i] ELSE d[i - 1]
        <3> DEFINE a == <<LetterB>>
        <3> HIDE DEF a
        <3>1. a \in Seq(Bit \cup {LetterB}) /\ Len(a) = 1
            BY <2>1 DEF a
        <3>2. a \o d \in Seq(Bit \cup {LetterB}) /\ Len(a \o d) = Len(a) + Len(d)
              /\ \A i \in 1 .. Len(a) + Len(d) : (a \o d)[i] = IF i <= Len(a) THEN a[i] ELSE d[i - Len(a)]
            BY <2>1, <3>1, ConcatProperties
        <3> QED BY <3>1, <3>2 DEF a
    <2>3. \A i \in 1 .. w : 1 + i \in 1 .. Len(s) /\ ~(1 + i <= 1) /\ (1 + i) - 1 = i
        BY <1>4, <2>2
    <2> QED BY <1>4, <2>2, <2>3
<1> HIDE DEF s
<1>7. /\ LastOf(s, w) \in Seq(Bit \cup {LetterB}) /\ Len(LastOf(s, w)) = w
      /\ \A i \in 1 .. w : LastOf(s, w)[i] = s[Len(s) - w + i]
    <2>1. w \in Nat /\ Len(s) >= w
        BY <1>6
    <2> QED BY <1>6, <2>1, LastOfIs
<1>8. \A i \in 1 .. w : LastOf(s, w)[i] = d[i]
    <2>1. \A i \in 1 .. w : Len(s) - w + i = 1 + i
        BY <1>6
    <2> QED BY <1>6, <1>7, <2>1
<1>9. LastOf(s, w) = d
    BY <1>4, <1>7, <1>8, SeqEqual
<1> QED BY <1>2, <1>4, <1>5, <1>9 DEF d, m

-----------------------------------------------------------------------------
(* Parts and layouts.                                                        *)

FieldNames ==
    {"rA", "rB", "rC", "UF", "Immediate", "Offset", "Location", "RegCount", "AdjustRb", "MemOffset",
     "MemoryFlags"}
Kinds == {"fixed", "condition", "unsigned", "signed"}
NoName == ""
Names == FieldNames \cup {NoName, "Condition"}
Parts ==
    {part \in [kind : Kinds, name : Names, width : 1 .. 27, value : Small] :
       /\ part.kind = "condition" <=> part.name = "Condition"
       /\ part.kind = "fixed" <=> part.name = NoName
       /\ part.kind = "condition" => part.width = 4}

\* What a part takes of the arguments: a number that is wide enough, or a condition.
Takes(part, args) ==
    /\ part.kind = "condition" =>
         args.Condition \in DOMAIN Conditions /\ ~ Shadowed(args.Condition)
    /\ part.kind = "unsigned" => args[part.name] \in Small
    /\ part.kind = "signed" =>
         args[part.name] \in Int /\ -Power[part.width - 1] <= args[part.name] /\ args[part.name] < 2^30

LEMMA PartsAre ==
    \A p \in Parts : p.kind \in Kinds /\ p.name \in Names /\ p.width \in 1 .. 27 /\ p.value \in Small
                       /\ (p.kind = "condition" <=> p.name = "Condition")
                       /\ (p.kind = "fixed" <=> p.name = NoName)
                       /\ (p.kind = "condition" => p.width = 4)
<1> TAKE p \in Parts
<1>1. /\ p \in [kind : Kinds, name : Names, width : 1 .. 27, value : Small]
      /\ (p.kind = "condition" <=> p.name = "Condition")
      /\ (p.kind = "fixed" <=> p.name = NoName)
      /\ (p.kind = "condition" => p.width = 4)
    BY DEF Parts
<1> QED BY <1>1

LEMMA SmallNumbers == \A n \in 0 .. 2^17 - 1 : n \in Small
BY SMT DEF Small

LEMMA ConditionsAre ==
    /\ \A c \in DOMAIN Conditions : Conditions[c] \in 0 .. 15
    /\ \A c \in DOMAIN Conditions : Conditions[c] \in Small
BY SMT DEF Conditions, Small

\* A part takes its width, whatever it is given.
LEMMA PartIs ==
    ASSUME NEW part \in Parts, NEW args, Takes(part, args)
    PROVE  PartBits(part, args) \in Seq(Bit) /\ Len(PartBits(part, args)) = part.width
<1> DEFINE w == part.width
           n == args[part.name]
<1>1. w \in 1 .. 27 /\ w \in Nat /\ part.value \in Small
      /\ part.kind \in {"fixed", "condition", "unsigned", "signed"}
    BY PartsAre DEF Kinds
<1>2. CASE part.kind = "fixed"
    <2>1. PartBits(part, args) = Padded(part.value, w)
        BY <1>2 DEF PartBits
    <2> QED BY <1>1, <2>1, PaddedIs
<1>3. CASE part.kind = "condition"
    <2>1. PartBits(part, args) = Padded(Conditions[args.Condition], w)
        BY <1>3 DEF PartBits
    <2>2. Conditions[args.Condition] \in Small
        BY <1>3, ConditionsAre DEF Takes
    <2> QED BY <1>1, <2>1, <2>2, PaddedIs
<1>4. CASE part.kind = "unsigned"
    <2>1. PartBits(part, args) = Padded(n, w)
        BY <1>4 DEF PartBits
    <2> QED BY <1>1, <1>4, <2>1, PaddedIs DEF Takes
<1>5. CASE part.kind = "signed" /\ n < 0
    <2>1. PartBits(part, args) = Complement(n, w)
        BY <1>5 DEF PartBits
    <2>2. n \in Int /\ -Power[w - 1] <= n /\ n < 0
        BY <1>5 DEF Takes
    <2> HIDE DEF n, w
    <2> QED BY <1>1, <2>1, <2>2, ComplementIs DEF w
<1>6. CASE part.kind = "signed" /\ ~(n < 0)
    <2>1. PartBits(part, args) = Padded(n, w)
        BY <1>6 DEF PartBits
    <2>2. n \in Small
        BY <1>6 DEF Takes, Small
    <2> QED BY <1>1, <2>1, <2>2, PaddedIs
<1> QED BY <1>1, <1>2, <1>3, <1>4, <1>5, <1>6

\* g is where the parts of a layout begin, and its width the last of it.
Widths(g, layout) ==
    /\ g[0] = 0
    /\ \A i \in 1 .. Len(layout) : g[i] = g[i - 1] + layout[i].width
Sound(layout, total) ==
    /\ layout \in Seq(Parts)
    /\ \E g : Widths(g, layout) /\ g[Len(layout)] = total

BitsOfLayout(layout, args) == FlattenSeq([i \in DOMAIN layout |-> PartBits(layout[i], args)])

LEMMA LayoutIs ==
    ASSUME NEW layout, NEW total \in Nat, Sound(layout, total),
           NEW args, \A i \in DOMAIN layout : Takes(layout[i], args)
    PROVE  BitsOfLayout(layout, args) \in Seq(Bit) /\ Len(BitsOfLayout(layout, args)) = total
<1> DEFINE seqs == [i \in DOMAIN layout |-> PartBits(layout[i], args)]
<1>1. layout \in Seq(Parts) /\ DOMAIN layout = 1 .. Len(layout) /\ Len(layout) \in Nat
    BY DEF Sound
<1>2. \A i \in 1 .. Len(layout) : layout[i] \in Parts
    BY <1>1
<1>3. \A i \in 1 .. Len(layout) : seqs[i] \in Seq(Bit) /\ Len(seqs[i]) = layout[i].width
    BY <1>1, <1>2, PartIs
<1>4. seqs \in [1 .. Len(layout) -> Seq(Bit)]
    BY <1>1, <1>3
<1> HIDE DEF seqs
<1>5. seqs \in Seq(Seq(Bit)) /\ Len(seqs) = Len(layout)
    BY <1>1, <1>4
<1>6. PICK g : Widths(g, layout) /\ g[Len(layout)] = total
    BY DEF Sound
<1>7. Begins(g, seqs)
    BY <1>3, <1>5, <1>6 DEF Widths, Begins
<1>8. Len(FlattenSeq(seqs)) = g[Len(seqs)]
    BY <1>5, <1>7, FlattenPlaces
<1>9. FlattenSeq(seqs) \in Seq(Bit)
    BY <1>5, FlattenType
<1> QED BY <1>5, <1>6, <1>8, <1>9 DEF seqs, BitsOfLayout

\* One part more.
LEMMA SoundAppend ==
    ASSUME NEW layout, NEW total \in Nat, Sound(layout, total), NEW p \in Parts
    PROVE  Sound(Append(layout, p), total + p.width)
<1> DEFINE v == Append(layout, p)
           n == Len(layout)
<1>1. layout \in Seq(Parts)
    BY DEF Sound
<1>2. v \in Seq(Parts) /\ n \in Nat /\ Len(v) = n + 1 /\ v[n + 1] = p /\ \A i \in 1 .. n : v[i] = layout[i]
    BY <1>1, AppendProperties, LenProperties
<1> HIDE DEF v
<1>3. PICK g : Widths(g, layout) /\ g[n] = total
    BY DEF Sound
<1> DEFINE h == [i \in 0 .. n + 1 |-> IF i <= n THEN g[i] ELSE total + p.width]
<1>4. /\ \A i \in 0 .. n : h[i] = g[i]
      /\ h[n + 1] = total + p.width
    BY <1>2
<1> HIDE DEF h
<1>5. h[0] = 0
    BY <1>2, <1>3, <1>4 DEF Widths
<1>6. ASSUME NEW i \in 1 .. n PROVE h[i] = h[i - 1] + v[i].width
    <2>1. i \in 0 .. n /\ i - 1 \in 0 .. n
        BY <1>2
    <2>2. g[i] = g[i - 1] + layout[i].width
        BY <1>3 DEF Widths
    <2> QED BY <1>2, <1>4, <2>1, <2>2
<1>7. h[n + 1] = h[n] + v[n + 1].width
    <2>1. n \in 0 .. n
        BY <1>2
    <2> QED BY <1>2, <1>3, <1>4, <2>1
<1>8. \A i \in 1 .. n + 1 : i \in 1 .. n \/ (i = n + 1 /\ i - 1 = n)
    BY <1>2
<1>9. Widths(h, v)
    BY <1>2, <1>5, <1>6, <1>7, <1>8 DEF Widths
<1> QED BY <1>2, <1>4, <1>9 DEF Sound, v

LEMMA NoParts == Sound(<<>>, 0)
<1> DEFINE g == [i \in {0} |-> 0]
<1>1. <<>> \in Seq(Parts) /\ Len(<<>>) = 0
    BY EmptySeq
<1>2. Widths(g, <<>>) /\ g[0] = 0
    BY <1>1 DEF Widths
<1> HIDE DEF g
<1> QED BY <1>1, <1>2 DEF Sound

LEMMA PartWidths == \A p \in Parts : p.width \in Nat
BY PartsAre

LEMMA OnePart ==
    ASSUME NEW a \in Parts
    PROVE  Sound(<<a>>, a.width)
<1>1. Sound(<<>>, 0) /\ 0 \in Nat
    BY NoParts
<1>2. Sound(Append(<<>>, a), (0) + a.width)
    BY <1>1, SoundAppend
<1>3. Append(<<>>, a) = <<a>>
    OBVIOUS
<1> QED BY <1>2, <1>3, PartWidths

LEMMA TwoParts ==
    ASSUME NEW a \in Parts, NEW b \in Parts
    PROVE  Sound(<<a, b>>, a.width + b.width)
<1>1. Sound(<<a>>, a.width) /\ a.width \in Nat
    BY OnePart, PartWidths
<1>2. Sound(Append(<<a>>, b), (a.width) + b.width)
    BY <1>1, SoundAppend
<1>3. Append(<<a>>, b) = <<a, b>>
    <2> DEFINE s == <<a>>
               t == <<a, b>>
    <2>1. /\ s \in Seq(Parts) /\ Len(s) = 1 /\ t \in Seq(Parts) /\ Len(t) = 2 /\ t[2] = b
          /\ \A i \in 1 .. 1 : t[i] = s[i]
        OBVIOUS
    <2> HIDE DEF s, t
    <2>2. Len(t) = Len(s) + 1 /\ t[Len(t)] = b /\ \A i \in 1 .. Len(s) : t[i] = s[i]
        BY <2>1
    <2>3. Append(s, b) = t
        BY <2>1, <2>2, Longer
    <2> QED BY <2>3 DEF s, t
<1> QED BY <1>2, <1>3

LEMMA ThreeParts ==
    ASSUME NEW a \in Parts, NEW b \in Parts, NEW c \in Parts
    PROVE  Sound(<<a, b, c>>, a.width + b.width + c.width)
<1>1. Sound(<<a, b>>, a.width + b.width) /\ a.width + b.width \in Nat
    BY TwoParts, PartWidths
<1>2. Sound(Append(<<a, b>>, c), (a.width + b.width) + c.width)
    BY <1>1, SoundAppend
<1>3. Append(<<a, b>>, c) = <<a, b, c>>
    <2> DEFINE s == <<a, b>>
               t == <<a, b, c>>
    <2>1. /\ s \in Seq(Parts) /\ Len(s) = 2 /\ t \in Seq(Parts) /\ Len(t) = 3 /\ t[3] = c
          /\ \A i \in 1 .. 2 : t[i] = s[i]
        OBVIOUS
    <2> HIDE DEF s, t
    <2>2. Len(t) = Len(s) + 1 /\ t[Len(t)] = c /\ \A i \in 1 .. Len(s) : t[i] = s[i]
        BY <2>1
    <2>3. Append(s, c) = t
        BY <2>1, <2>2, Longer
    <2> QED BY <2>3 DEF s, t
<1> QED BY <1>2, <1>3

LEMMA FourParts ==
    ASSUME NEW a \in Parts, NEW b \in Parts, NEW c \in Parts, NEW d \in Parts
    PROVE  Sound(<<a, b, c, d>>, a.width + b.width + c.width + d.width)
<1>1. Sound(<<a, b, c>>, a.width + b.width + c.width) /\ a.width + b.width + c.width \in Nat
    BY ThreeParts, PartWidths
<1>2. Sound(Append(<<a, b, c>>, d), (a.width + b.width + c.width) + d.width)
    BY <1>1, SoundAppend
<1>3. Append(<<a, b, c>>, d) = <<a, b, c, d>>
    <2> DEFINE s == <<a, b, c>>
               t == <<a, b, c, d>>
    <2>1. /\ s \in Seq(Parts) /\ Len(s) = 3 /\ t \in Seq(Parts) /\ Len(t) = 4 /\ t[4] = d
          /\ \A i \in 1 .. 3 : t[i] = s[i]
        OBVIOUS
    <2> HIDE DEF s, t
    <2>2. Len(t) = Len(s) + 1 /\ t[Len(t)] = d /\ \A i \in 1 .. Len(s) : t[i] = s[i]
        BY <2>1
    <2>3. Append(s, d) = t
        BY <2>1, <2>2, Longer
    <2> QED BY <2>3 DEF s, t
<1> QED BY <1>2, <1>3

LEMMA FiveParts ==
    ASSUME NEW a \in Parts, NEW b \in Parts, NEW c \in Parts, NEW d \in Parts, NEW e \in Parts
    PROVE  Sound(<<a, b, c, d, e>>, a.width + b.width + c.width + d.width + e.width)
<1>1. Sound(<<a, b, c, d>>, a.width + b.width + c.width + d.width) /\ a.width + b.width + c.width + d.width \in Nat
    BY FourParts, PartWidths
<1>2. Sound(Append(<<a, b, c, d>>, e), (a.width + b.width + c.width + d.width) + e.width)
    BY <1>1, SoundAppend
<1>3. Append(<<a, b, c, d>>, e) = <<a, b, c, d, e>>
    <2> DEFINE s == <<a, b, c, d>>
               t == <<a, b, c, d, e>>
    <2>1. /\ s \in Seq(Parts) /\ Len(s) = 4 /\ t \in Seq(Parts) /\ Len(t) = 5 /\ t[5] = e
          /\ \A i \in 1 .. 4 : t[i] = s[i]
        OBVIOUS
    <2> HIDE DEF s, t
    <2>2. Len(t) = Len(s) + 1 /\ t[Len(t)] = e /\ \A i \in 1 .. Len(s) : t[i] = s[i]
        BY <2>1
    <2>3. Append(s, e) = t
        BY <2>1, <2>2, Longer
    <2> QED BY <2>3 DEF s, t
<1> QED BY <1>2, <1>3

LEMMA SixParts ==
    ASSUME NEW a \in Parts, NEW b \in Parts, NEW c \in Parts, NEW d \in Parts, NEW e \in Parts, NEW f \in Parts
    PROVE  Sound(<<a, b, c, d, e, f>>, a.width + b.width + c.width + d.width + e.width + f.width)
<1>1. Sound(<<a, b, c, d, e>>, a.width + b.width + c.width + d.width + e.width) /\ a.width + b.width + c.width + d.width + e.width \in Nat
    BY FiveParts, PartWidths
<1>2. Sound(Append(<<a, b, c, d, e>>, f), (a.width + b.width + c.width + d.width + e.width) + f.width)
    BY <1>1, SoundAppend
<1>3. Append(<<a, b, c, d, e>>, f) = <<a, b, c, d, e, f>>
    <2> DEFINE s == <<a, b, c, d, e>>
               t == <<a, b, c, d, e, f>>
    <2>1. /\ s \in Seq(Parts) /\ Len(s) = 5 /\ t \in Seq(Parts) /\ Len(t) = 6 /\ t[6] = f
          /\ \A i \in 1 .. 5 : t[i] = s[i]
        OBVIOUS
    <2> HIDE DEF s, t
    <2>2. Len(t) = Len(s) + 1 /\ t[Len(t)] = f /\ \A i \in 1 .. Len(s) : t[i] = s[i]
        BY <2>1
    <2>3. Append(s, f) = t
        BY <2>1, <2>2, Longer
    <2> QED BY <2>3 DEF s, t
<1> QED BY <1>2, <1>3

LEMMA SevenParts ==
    ASSUME NEW a \in Parts, NEW b \in Parts, NEW c \in Parts, NEW d \in Parts, NEW e \in Parts, NEW f \in Parts, NEW g \in Parts
    PROVE  Sound(<<a, b, c, d, e, f, g>>, a.width + b.width + c.width + d.width + e.width + f.width + g.width)
<1>1. Sound(<<a, b, c, d, e, f>>, a.width + b.width + c.width + d.width + e.width + f.width) /\ a.width + b.width + c.width + d.width + e.width + f.width \in Nat
    BY SixParts, PartWidths
<1>2. Sound(Append(<<a, b, c, d, e, f>>, g), (a.width + b.width + c.width + d.width + e.width + f.width) + g.width)
    BY <1>1, SoundAppend
<1>3. Append(<<a, b, c, d, e, f>>, g) = <<a, b, c, d, e, f, g>>
    <2> DEFINE s == <<a, b, c, d, e, f>>
               t == <<a, b, c, d, e, f, g>>
    <2>1. /\ s \in Seq(Parts) /\ Len(s) = 6 /\ t \in Seq(Parts) /\ Len(t) = 7 /\ t[7] = g
          /\ \A i \in 1 .. 6 : t[i] = s[i]
        OBVIOUS
    <2> HIDE DEF s, t
    <2>2. Len(t) = Len(s) + 1 /\ t[Len(t)] = g /\ \A i \in 1 .. Len(s) : t[i] = s[i]
        BY <2>1
    <2>3. Append(s, g) = t
        BY <2>1, <2>2, Longer
    <2> QED BY <2>3 DEF s, t
<1> QED BY <1>2, <1>3

\* No two parts that are not fixed have one name.
Named(layout) ==
    \A i \in 1 .. Len(layout), j \in 1 .. Len(layout) :
        i # j /\ layout[i].kind # "fixed" /\ layout[j].kind # "fixed" => layout[i].name # layout[j].name
\* The names are among those.
Within(layout, names) == \A i \in 1 .. Len(layout) : layout[i].kind # "fixed" => layout[i].name \in names
WellFormed(layout, total, names) == Sound(layout, total) /\ Named(layout) /\ Within(layout, names)

LEMMA Unnameable == NoName # "Condition" /\ \A n \in FieldNames : n # NoName
BY DEF FieldNames, NoName

LEMMA ZeroOne == 0 \in Small /\ 1 \in Small
BY SMT DEF Small

LEMMA IsPart ==
    ASSUME NEW k \in Kinds, NEW n \in Names, NEW w \in 1 .. 27, NEW v \in Small,
           k = "condition" <=> n = "Condition", k = "fixed" <=> n = NoName, k = "condition" => w = 4,
           NEW p, p = [kind |-> k, name |-> n, width |-> w, value |-> v]
    PROVE  p \in Parts /\ p.kind = k /\ p.name = n /\ p.width = w
<1>1. p \in [kind : Kinds, name : Names, width : 1 .. 27, value : Small]
    OBVIOUS
<1>2. p.kind = k /\ p.name = n /\ p.width = w
    OBVIOUS
<1>3. /\ p.kind = "condition" <=> p.name = "Condition"
      /\ p.kind = "fixed" <=> p.name = NoName
      /\ p.kind = "condition" => p.width = 4
    BY <1>2
<1> QED BY <1>1, <1>2, <1>3 DEF Parts

LEMMA FixedIs ==
    ASSUME NEW w \in 1 .. 27, NEW n \in Small
    PROVE  Fixed(w, n) \in Parts /\ Fixed(w, n).kind = "fixed" /\ Fixed(w, n).width = w
<1> DEFINE p == Fixed(w, n)
<1>1. p = [kind |-> "fixed", name |-> NoName, width |-> w, value |-> n]
    BY DEF Fixed, NoName
<1>2. NoName \in Names /\ "fixed" \in Kinds
    BY DEF Names, Kinds
<1>3. "fixed" # "condition" /\ NoName # "Condition"
    BY Unnameable
<1> DEFINE k == "fixed"
           e == NoName
<1> HIDE DEF p, k, e
<1>4. p = [kind |-> k, name |-> e, width |-> w, value |-> n] /\ e \in Names /\ k \in Kinds
    BY <1>1, <1>2 DEF k, e
<1>5. (k = "condition" <=> e = "Condition") /\ (k = "fixed" <=> e = NoName) /\ k # "condition"
    BY <1>3 DEF k, e
<1>6. p \in Parts /\ p.kind = k /\ p.name = e /\ p.width = w
    BY <1>4, <1>5, IsPart
<1> QED BY <1>6 DEF p, k

LEMMA FieldIs ==
    ASSUME NEW k \in {"unsigned", "signed"}, NEW n \in FieldNames, NEW w \in 1 .. 27
    PROVE  /\ Field(k, n, w) \in Parts
           /\ Field(k, n, w).kind = k /\ Field(k, n, w).name = n /\ Field(k, n, w).width = w
<1> DEFINE p == Field(k, n, w)
<1>1. p = [kind |-> k, name |-> n, width |-> w, value |-> 0]
    BY DEF Field
<1>2. n \in Names /\ k \in Kinds
    BY DEF Names, Kinds
<1>3. (k = "condition" <=> n = "Condition") /\ (k = "fixed" <=> n = NoName) /\ k # "condition"
    <2>1. n # "Condition"
        BY DEF FieldNames
    <2> QED BY <2>1, Unnameable
<1> HIDE DEF p
<1>4. p \in Parts /\ p.kind = k /\ p.name = n /\ p.width = w
    BY <1>1, <1>2, <1>3, IsPart, ZeroOne
<1> QED BY <1>4 DEF p

LEMMA ConditionIs ==
    /\ Condition \in Parts /\ Condition.kind = "condition" /\ Condition.name = "Condition"
    /\ Condition.width = 4
<1>1. Condition = [kind |-> "condition", name |-> "Condition", width |-> 4, value |-> 0]
    BY DEF Condition, Field
<1>2. "Condition" \in Names /\ "condition" \in Kinds /\ 4 \in 1 .. 27
    BY DEF Names, Kinds
<1>3. ("condition" = "condition" <=> "Condition" = "Condition") /\ ("condition" = "fixed" <=> "Condition" = NoName)
    BY Unnameable
<1> DEFINE p == Condition
<1> HIDE DEF p
<1>4. p = [kind |-> "condition", name |-> "Condition", width |-> 4, value |-> 0]
    BY <1>1 DEF p
<1>5. p \in Parts /\ p.kind = "condition" /\ p.name = "Condition" /\ p.width = 4
    BY <1>2, <1>3, <1>4, IsPart, ZeroOne
<1> QED BY <1>5 DEF p

LEMMA ThreeRegistersIs ==
    ASSUME NEW op \in Small, NEW tail \in Small, NEW names, {"rA", "rB", "rC", "UF"} \subseteq names
    PROVE  WellFormed(ThreeRegisters(op, tail), 27, names)
<1> DEFINE a == Fixed(7, op)
           b == Field("unsigned", "rA", 5)
           c == Field("unsigned", "rB", 5)
           d == Field("unsigned", "rC", 5)
           e == Fixed(4, tail)
           f == Field("unsigned", "UF", 1)
<1>1. /\ a \in Parts /\ a.kind = "fixed" /\ a.width = 7
      /\ b \in Parts /\ b.kind = "unsigned" /\ b.name = "rA" /\ b.width = 5
      /\ c \in Parts /\ c.kind = "unsigned" /\ c.name = "rB" /\ c.width = 5
      /\ d \in Parts /\ d.kind = "unsigned" /\ d.name = "rC" /\ d.width = 5
      /\ e \in Parts /\ e.kind = "fixed" /\ e.width = 4
      /\ f \in Parts /\ f.kind = "unsigned" /\ f.name = "UF" /\ f.width = 1
    <2>1. a \in Parts /\ a.kind = "fixed" /\ a.width = 7
        BY FixedIs
    <2>2. b \in Parts /\ b.kind = "unsigned" /\ b.name = "rA" /\ b.width = 5
        BY FieldIs DEF FieldNames
    <2>3. c \in Parts /\ c.kind = "unsigned" /\ c.name = "rB" /\ c.width = 5
        BY FieldIs DEF FieldNames
    <2>4. d \in Parts /\ d.kind = "unsigned" /\ d.name = "rC" /\ d.width = 5
        BY FieldIs DEF FieldNames
    <2>5. e \in Parts /\ e.kind = "fixed" /\ e.width = 4
        BY FixedIs
    <2>6. f \in Parts /\ f.kind = "unsigned" /\ f.name = "UF" /\ f.width = 1
        BY FieldIs DEF FieldNames
    <2> QED BY <2>1, <2>2, <2>3, <2>4, <2>5, <2>6
<1>2. ThreeRegisters(op, tail) = <<a, b, c, d, e, f>>
    BY DEF ThreeRegisters, Register, Unsigned, UpdateFlags
<1> HIDE DEF a, b, c, d, e, f
<1>3. Sound(<<a, b, c, d, e, f>>, a.width + b.width + c.width + d.width + e.width + f.width)
    BY <1>1, SixParts
<1>4. a.width + b.width + c.width + d.width + e.width + f.width = 27
    BY <1>1
<1>5. Named(<<a, b, c, d, e, f>>)
    BY <1>1 DEF Named
<1>6. Within(<<a, b, c, d, e, f>>, names)
    BY <1>1 DEF Within
<1> QED BY <1>2, <1>3, <1>4, <1>5, <1>6 DEF WellFormed

LEMMA WithImmediateIs ==
    ASSUME NEW op \in Small, NEW tail \in Small, NEW names, {"rA", "rB", "Immediate", "UF"} \subseteq names
    PROVE  WellFormed(WithImmediate(op, tail), 27, names)
<1> DEFINE a == Fixed(7, op)
           b == Field("unsigned", "rA", 5)
           c == Field("unsigned", "rB", 5)
           d == Field("signed", "Immediate", 7)
           e == Fixed(2, tail)
           f == Field("unsigned", "UF", 1)
<1>1. /\ a \in Parts /\ a.kind = "fixed" /\ a.width = 7
      /\ b \in Parts /\ b.kind = "unsigned" /\ b.name = "rA" /\ b.width = 5
      /\ c \in Parts /\ c.kind = "unsigned" /\ c.name = "rB" /\ c.width = 5
      /\ d \in Parts /\ d.kind = "signed" /\ d.name = "Immediate" /\ d.width = 7
      /\ e \in Parts /\ e.kind = "fixed" /\ e.width = 2
      /\ f \in Parts /\ f.kind = "unsigned" /\ f.name = "UF" /\ f.width = 1
    <2>1. a \in Parts /\ a.kind = "fixed" /\ a.width = 7
        BY FixedIs
    <2>2. b \in Parts /\ b.kind = "unsigned" /\ b.name = "rA" /\ b.width = 5
        BY FieldIs DEF FieldNames
    <2>3. c \in Parts /\ c.kind = "unsigned" /\ c.name = "rB" /\ c.width = 5
        BY FieldIs DEF FieldNames
    <2>4. d \in Parts /\ d.kind = "signed" /\ d.name = "Immediate" /\ d.width = 7
        BY FieldIs DEF FieldNames
    <2>5. e \in Parts /\ e.kind = "fixed" /\ e.width = 2
        BY FixedIs
    <2>6. f \in Parts /\ f.kind = "unsigned" /\ f.name = "UF" /\ f.width = 1
        BY FieldIs DEF FieldNames
    <2> QED BY <2>1, <2>2, <2>3, <2>4, <2>5, <2>6
<1>2. WithImmediate(op, tail) = <<a, b, c, d, e, f>>
    BY DEF WithImmediate, Register, Signed, Unsigned, UpdateFlags
<1> HIDE DEF a, b, c, d, e, f
<1>3. Sound(<<a, b, c, d, e, f>>, a.width + b.width + c.width + d.width + e.width + f.width)
    BY <1>1, SixParts
<1>4. a.width + b.width + c.width + d.width + e.width + f.width = 27
    BY <1>1
<1>5. Named(<<a, b, c, d, e, f>>)
    BY <1>1 DEF Named
<1>6. Within(<<a, b, c, d, e, f>>, names)
    BY <1>1 DEF Within
<1> QED BY <1>2, <1>3, <1>4, <1>5, <1>6 DEF WellFormed

LEMMA WithUnsignedIs ==
    ASSUME NEW op \in Small, NEW tail \in Small, NEW names, {"rA", "rB", "Immediate", "UF"} \subseteq names
    PROVE  WellFormed(WithUnsigned(op, tail), 27, names)
<1> DEFINE a == Fixed(7, op)
           b == Field("unsigned", "rA", 5)
           c == Field("unsigned", "rB", 5)
           d == Field("unsigned", "Immediate", 7)
           e == Fixed(2, tail)
           f == Field("unsigned", "UF", 1)
<1>1. /\ a \in Parts /\ a.kind = "fixed" /\ a.width = 7
      /\ b \in Parts /\ b.kind = "unsigned" /\ b.name = "rA" /\ b.width = 5
      /\ c \in Parts /\ c.kind = "unsigned" /\ c.name = "rB" /\ c.width = 5
      /\ d \in Parts /\ d.kind = "unsigned" /\ d.name = "Immediate" /\ d.width = 7
      /\ e \in Parts /\ e.kind = "fixed" /\ e.width = 2
      /\ f \in Parts /\ f.kind = "unsigned" /\ f.name = "UF" /\ f.width = 1
    <2>1. a \in Parts /\ a.kind = "fixed" /\ a.width = 7
        BY FixedIs
    <2>2. b \in Parts /\ b.kind = "unsigned" /\ b.name = "rA" /\ b.width = 5
        BY FieldIs DEF FieldNames
    <2>3. c \in Parts /\ c.kind = "unsigned" /\ c.name = "rB" /\ c.width = 5
        BY FieldIs DEF FieldNames
    <2>4. d \in Parts /\ d.kind = "unsigned" /\ d.name = "Immediate" /\ d.width = 7
        BY FieldIs DEF FieldNames
    <2>5. e \in Parts /\ e.kind = "fixed" /\ e.width = 2
        BY FixedIs
    <2>6. f \in Parts /\ f.kind = "unsigned" /\ f.name = "UF" /\ f.width = 1
        BY FieldIs DEF FieldNames
    <2> QED BY <2>1, <2>2, <2>3, <2>4, <2>5, <2>6
<1>2. WithUnsigned(op, tail) = <<a, b, c, d, e, f>>
    BY DEF WithUnsigned, Register, Unsigned, UpdateFlags
<1> HIDE DEF a, b, c, d, e, f
<1>3. Sound(<<a, b, c, d, e, f>>, a.width + b.width + c.width + d.width + e.width + f.width)
    BY <1>1, SixParts
<1>4. a.width + b.width + c.width + d.width + e.width + f.width = 27
    BY <1>1
<1>5. Named(<<a, b, c, d, e, f>>)
    BY <1>1 DEF Named
<1>6. Within(<<a, b, c, d, e, f>>, names)
    BY <1>1 DEF Within
<1> QED BY <1>2, <1>3, <1>4, <1>5, <1>6 DEF WellFormed

LEMMA TwoRegistersIs ==
    ASSUME NEW op \in Small, NEW tail \in Small, NEW names, {"rA", "rB", "UF"} \subseteq names
    PROVE  WellFormed(TwoRegisters(op, tail), 27, names)
<1> DEFINE a == Fixed(9, op)
           b == Field("unsigned", "rA", 5)
           c == Field("unsigned", "rB", 5)
           d == Fixed(7, tail)
           e == Field("unsigned", "UF", 1)
<1>1. /\ a \in Parts /\ a.kind = "fixed" /\ a.width = 9
      /\ b \in Parts /\ b.kind = "unsigned" /\ b.name = "rA" /\ b.width = 5
      /\ c \in Parts /\ c.kind = "unsigned" /\ c.name = "rB" /\ c.width = 5
      /\ d \in Parts /\ d.kind = "fixed" /\ d.width = 7
      /\ e \in Parts /\ e.kind = "unsigned" /\ e.name = "UF" /\ e.width = 1
    <2>1. a \in Parts /\ a.kind = "fixed" /\ a.width = 9
        BY FixedIs
    <2>2. b \in Parts /\ b.kind = "unsigned" /\ b.name = "rA" /\ b.width = 5
        BY FieldIs DEF FieldNames
    <2>3. c \in Parts /\ c.kind = "unsigned" /\ c.name = "rB" /\ c.width = 5
        BY FieldIs DEF FieldNames
    <2>4. d \in Parts /\ d.kind = "fixed" /\ d.width = 7
        BY FixedIs
    <2>5. e \in Parts /\ e.kind = "unsigned" /\ e.name = "UF" /\ e.width = 1
        BY FieldIs DEF FieldNames
    <2> QED BY <2>1, <2>2, <2>3, <2>4, <2>5
<1>2. TwoRegisters(op, tail) = <<a, b, c, d, e>>
    BY DEF TwoRegisters, Register, Unsigned, UpdateFlags
<1> HIDE DEF a, b, c, d, e
<1>3. Sound(<<a, b, c, d, e>>, a.width + b.width + c.width + d.width + e.width)
    BY <1>1, FiveParts
<1>4. a.width + b.width + c.width + d.width + e.width = 27
    BY <1>1
<1>5. Named(<<a, b, c, d, e>>)
    BY <1>1 DEF Named
<1>6. Within(<<a, b, c, d, e>>, names)
    BY <1>1 DEF Within
<1> QED BY <1>2, <1>3, <1>4, <1>5, <1>6 DEF WellFormed

LEMMA MoveImmediateIs ==
    ASSUME NEW op \in Small, NEW names, {"rA", "Immediate"} \subseteq names
    PROVE  WellFormed(MoveImmediate(op), 27, names)
<1> DEFINE a == Fixed(5, op)
           b == Field("unsigned", "rA", 5)
           c == Field("signed", "Immediate", 17)
<1>1. /\ a \in Parts /\ a.kind = "fixed" /\ a.width = 5
      /\ b \in Parts /\ b.kind = "unsigned" /\ b.name = "rA" /\ b.width = 5
      /\ c \in Parts /\ c.kind = "signed" /\ c.name = "Immediate" /\ c.width = 17
    <2>1. a \in Parts /\ a.kind = "fixed" /\ a.width = 5
        BY FixedIs
    <2>2. b \in Parts /\ b.kind = "unsigned" /\ b.name = "rA" /\ b.width = 5
        BY FieldIs DEF FieldNames
    <2>3. c \in Parts /\ c.kind = "signed" /\ c.name = "Immediate" /\ c.width = 17
        BY FieldIs DEF FieldNames
    <2> QED BY <2>1, <2>2, <2>3
<1>2. MoveImmediate(op) = <<a, b, c>>
    BY DEF MoveImmediate, Register, Signed, Unsigned
<1> HIDE DEF a, b, c
<1>3. Sound(<<a, b, c>>, a.width + b.width + c.width)
    BY <1>1, ThreeParts
<1>4. a.width + b.width + c.width = 27
    BY <1>1
<1>5. Named(<<a, b, c>>)
    BY <1>1 DEF Named
<1>6. Within(<<a, b, c>>, names)
    BY <1>1 DEF Within
<1> QED BY <1>2, <1>3, <1>4, <1>5, <1>6 DEF WellFormed

LEMMA BranchIs ==
    ASSUME NEW op \in Small, NEW names, {"Condition", "Offset"} \subseteq names
    PROVE  WellFormed(Branch(op), 27, names)
<1> DEFINE a == Fixed(6, op)
           b == Condition
           c == Field("signed", "Offset", 17)
<1>1. /\ a \in Parts /\ a.kind = "fixed" /\ a.width = 6
      /\ b \in Parts /\ b.kind = "condition" /\ b.name = "Condition" /\ b.width = 4
      /\ c \in Parts /\ c.kind = "signed" /\ c.name = "Offset" /\ c.width = 17
    <2>1. a \in Parts /\ a.kind = "fixed" /\ a.width = 6
        BY FixedIs
    <2>2. b \in Parts /\ b.kind = "condition" /\ b.name = "Condition" /\ b.width = 4
        BY ConditionIs
    <2>3. c \in Parts /\ c.kind = "signed" /\ c.name = "Offset" /\ c.width = 17
        BY FieldIs DEF FieldNames
    <2> QED BY <2>1, <2>2, <2>3
<1>2. Branch(op) = <<a, b, c>>
    BY DEF Branch, Signed
<1> HIDE DEF a, b, c
<1>3. Sound(<<a, b, c>>, a.width + b.width + c.width)
    BY <1>1, ThreeParts
<1>4. a.width + b.width + c.width = 27
    BY <1>1
<1>5. Named(<<a, b, c>>)
    BY <1>1 DEF Named
<1>6. Within(<<a, b, c>>, names)
    BY <1>1 DEF Within
<1> QED BY <1>2, <1>3, <1>4, <1>5, <1>6 DEF WellFormed

LEMMA CallingIs ==
    ASSUME NEW op \in Small, NEW names, {"Condition", "Offset"} \subseteq names
    PROVE  WellFormed(Calling(op), 27, names)
<1> DEFINE a == Fixed(6, op)
           b == Condition
           c == Field("unsigned", "Offset", 17)
<1>1. /\ a \in Parts /\ a.kind = "fixed" /\ a.width = 6
      /\ b \in Parts /\ b.kind = "condition" /\ b.name = "Condition" /\ b.width = 4
      /\ c \in Parts /\ c.kind = "unsigned" /\ c.name = "Offset" /\ c.width = 17
    <2>1. a \in Parts /\ a.kind = "fixed" /\ a.width = 6
        BY FixedIs
    <2>2. b \in Parts /\ b.kind = "condition" /\ b.name = "Condition" /\ b.width = 4
        BY ConditionIs
    <2>3. c \in Parts /\ c.kind = "unsigned" /\ c.name = "Offset" /\ c.width = 17
        BY FieldIs DEF FieldNames
    <2> QED BY <2>1, <2>2, <2>3
<1>2. Calling(op) = <<a, b, c>>
    BY DEF Calling, Unsigned
<1> HIDE DEF a, b, c
<1>3. Sound(<<a, b, c>>, a.width + b.width + c.width)
    BY <1>1, ThreeParts
<1>4. a.width + b.width + c.width = 27
    BY <1>1
<1>5. Named(<<a, b, c>>)
    BY <1>1 DEF Named
<1>6. Within(<<a, b, c>>, names)
    BY <1>1 DEF Within
<1> QED BY <1>2, <1>3, <1>4, <1>5, <1>6 DEF WellFormed

LEMMA ToRegisterIs ==
    ASSUME NEW op \in Small, NEW width \in 3 .. 4, NEW tail \in Small, NEW names, {"Condition", "rA"} \subseteq names
    PROVE  WellFormed(ToRegister(op, width, tail), 15 + width, names)
<1> DEFINE a == Fixed(6, op)
           b == Condition
           c == Field("unsigned", "rA", 5)
           d == Fixed(width, tail)
<1>1. /\ a \in Parts /\ a.kind = "fixed" /\ a.width = 6
      /\ b \in Parts /\ b.kind = "condition" /\ b.name = "Condition" /\ b.width = 4
      /\ c \in Parts /\ c.kind = "unsigned" /\ c.name = "rA" /\ c.width = 5
      /\ d \in Parts /\ d.kind = "fixed" /\ d.width = width
    <2>1. a \in Parts /\ a.kind = "fixed" /\ a.width = 6
        BY FixedIs
    <2>2. b \in Parts /\ b.kind = "condition" /\ b.name = "Condition" /\ b.width = 4
        BY ConditionIs
    <2>3. c \in Parts /\ c.kind = "unsigned" /\ c.name = "rA" /\ c.width = 5
        BY FieldIs DEF FieldNames
    <2>4. d \in Parts /\ d.kind = "fixed" /\ d.width = width
        BY FixedIs
    <2> QED BY <2>1, <2>2, <2>3, <2>4
<1>2. ToRegister(op, width, tail) = <<a, b, c, d>>
    BY DEF ToRegister, Register, Unsigned
<1> HIDE DEF a, b, c, d
<1>3. Sound(<<a, b, c, d>>, a.width + b.width + c.width + d.width)
    BY <1>1, FourParts
<1>4. a.width + b.width + c.width + d.width = 15 + width
    BY <1>1
<1>5. Named(<<a, b, c, d>>)
    BY <1>1 DEF Named
<1>6. Within(<<a, b, c, d>>, names)
    BY <1>1 DEF Within
<1> QED BY <1>2, <1>3, <1>4, <1>5, <1>6 DEF WellFormed

LEMMA FarIs ==
    ASSUME NEW op \in Small, NEW name \in {"Location", "Offset"}, NEW names, {name} \subseteq names
    PROVE  WellFormed(Far(op, name), 36, names)
<1> DEFINE a == Fixed(9, op)
           b == Field("unsigned", name, 27)
<1>0. name \in FieldNames
    BY DEF FieldNames
<1>1. /\ a \in Parts /\ a.kind = "fixed" /\ a.width = 9
      /\ b \in Parts /\ b.kind = "unsigned" /\ b.name = name /\ b.width = 27
    <2>1. a \in Parts /\ a.kind = "fixed" /\ a.width = 9
        BY FixedIs
    <2>2. b \in Parts /\ b.kind = "unsigned" /\ b.name = name /\ b.width = 27
        BY <1>0, FieldIs
    <2> QED BY <2>1, <2>2
<1>2. Far(op, name) = <<a, b>>
    BY DEF Far, Unsigned
<1> HIDE DEF a, b
<1>3. Sound(<<a, b>>, a.width + b.width)
    BY <1>1, TwoParts
<1>4. a.width + b.width = 36
    BY <1>1
<1>5. Named(<<a, b>>)
    BY <1>1 DEF Named
<1>6. Within(<<a, b>>, names)
    BY <1>1 DEF Within
<1> QED BY <1>2, <1>3, <1>4, <1>5, <1>6 DEF WellFormed

LEMMA CompareIs ==
    ASSUME NEW op \in Small, NEW names, {"rA", "rB"} \subseteq names
    PROVE  WellFormed(Compare(op), 18, names)
<1> DEFINE a == Fixed(8, op)
           b == Field("unsigned", "rA", 5)
           c == Field("unsigned", "rB", 5)
<1>1. /\ a \in Parts /\ a.kind = "fixed" /\ a.width = 8
      /\ b \in Parts /\ b.kind = "unsigned" /\ b.name = "rA" /\ b.width = 5
      /\ c \in Parts /\ c.kind = "unsigned" /\ c.name = "rB" /\ c.width = 5
    <2>1. a \in Parts /\ a.kind = "fixed" /\ a.width = 8
        BY FixedIs
    <2>2. b \in Parts /\ b.kind = "unsigned" /\ b.name = "rA" /\ b.width = 5
        BY FieldIs DEF FieldNames
    <2>3. c \in Parts /\ c.kind = "unsigned" /\ c.name = "rB" /\ c.width = 5
        BY FieldIs DEF FieldNames
    <2> QED BY <2>1, <2>2, <2>3
<1>2. Compare(op) = <<a, b, c>>
    BY DEF Compare, Register, Unsigned
<1> HIDE DEF a, b, c
<1>3. Sound(<<a, b, c>>, a.width + b.width + c.width)
    BY <1>1, ThreeParts
<1>4. a.width + b.width + c.width = 18
    BY <1>1
<1>5. Named(<<a, b, c>>)
    BY <1>1 DEF Named
<1>6. Within(<<a, b, c>>, names)
    BY <1>1 DEF Within
<1> QED BY <1>2, <1>3, <1>4, <1>5, <1>6 DEF WellFormed

LEMMA CompareImmediateIs ==
    ASSUME NEW op \in Small, NEW names, {"rA", "Immediate"} \subseteq names
    PROVE  WellFormed(CompareImmediate(op), 27, names)
<1> DEFINE a == Fixed(8, op)
           b == Field("unsigned", "rA", 5)
           c == Field("signed", "Immediate", 14)
<1>1. /\ a \in Parts /\ a.kind = "fixed" /\ a.width = 8
      /\ b \in Parts /\ b.kind = "unsigned" /\ b.name = "rA" /\ b.width = 5
      /\ c \in Parts /\ c.kind = "signed" /\ c.name = "Immediate" /\ c.width = 14
    <2>1. a \in Parts /\ a.kind = "fixed" /\ a.width = 8
        BY FixedIs
    <2>2. b \in Parts /\ b.kind = "unsigned" /\ b.name = "rA" /\ b.width = 5
        BY FieldIs DEF FieldNames
    <2>3. c \in Parts /\ c.kind = "signed" /\ c.name = "Immediate" /\ c.width = 14
        BY FieldIs DEF FieldNames
    <2> QED BY <2>1, <2>2, <2>3
<1>2. CompareImmediate(op) = <<a, b, c>>
    BY DEF CompareImmediate, Register, Signed, Unsigned
<1> HIDE DEF a, b, c
<1>3. Sound(<<a, b, c>>, a.width + b.width + c.width)
    BY <1>1, ThreeParts
<1>4. a.width + b.width + c.width = 27
    BY <1>1
<1>5. Named(<<a, b, c>>)
    BY <1>1 DEF Named
<1>6. Within(<<a, b, c>>, names)
    BY <1>1 DEF Within
<1> QED BY <1>2, <1>3, <1>4, <1>5, <1>6 DEF WellFormed

LEMMA StoreIs ==
    ASSUME NEW op \in Small, NEW names, {"rA", "rB", "RegCount", "AdjustRb", "MemOffset"} \subseteq names
    PROVE  WellFormed(Store(op), 54, names)
<1> DEFINE a == Fixed(7, op)
           b == Field("unsigned", "rA", 5)
           c == Field("unsigned", "rB", 5)
           d == Field("unsigned", "RegCount", 5)
           e == Field("unsigned", "AdjustRb", 2)
           f == Field("unsigned", "MemOffset", 27)
           g == Fixed(3, 0)
<1>1. /\ a \in Parts /\ a.kind = "fixed" /\ a.width = 7
      /\ b \in Parts /\ b.kind = "unsigned" /\ b.name = "rA" /\ b.width = 5
      /\ c \in Parts /\ c.kind = "unsigned" /\ c.name = "rB" /\ c.width = 5
      /\ d \in Parts /\ d.kind = "unsigned" /\ d.name = "RegCount" /\ d.width = 5
      /\ e \in Parts /\ e.kind = "unsigned" /\ e.name = "AdjustRb" /\ e.width = 2
      /\ f \in Parts /\ f.kind = "unsigned" /\ f.name = "MemOffset" /\ f.width = 27
      /\ g \in Parts /\ g.kind = "fixed" /\ g.width = 3
    <2>1. a \in Parts /\ a.kind = "fixed" /\ a.width = 7
        BY FixedIs
    <2>2. b \in Parts /\ b.kind = "unsigned" /\ b.name = "rA" /\ b.width = 5
        BY FieldIs DEF FieldNames
    <2>3. c \in Parts /\ c.kind = "unsigned" /\ c.name = "rB" /\ c.width = 5
        BY FieldIs DEF FieldNames
    <2>4. d \in Parts /\ d.kind = "unsigned" /\ d.name = "RegCount" /\ d.width = 5
        BY FieldIs DEF FieldNames
    <2>5. e \in Parts /\ e.kind = "unsigned" /\ e.name = "AdjustRb" /\ e.width = 2
        BY FieldIs DEF FieldNames
    <2>6. f \in Parts /\ f.kind = "unsigned" /\ f.name = "MemOffset" /\ f.width = 27
        BY FieldIs DEF FieldNames
    <2>7. g \in Parts /\ g.kind = "fixed" /\ g.width = 3
        BY FixedIs, ZeroOne
    <2> QED BY <2>1, <2>2, <2>3, <2>4, <2>5, <2>6, <2>7
<1>2. Store(op) = <<a, b, c, d, e, f, g>>
    BY DEF Store, Register, Unsigned, Memory
<1> HIDE DEF a, b, c, d, e, f, g
<1>3. Sound(<<a, b, c, d, e, f, g>>, a.width + b.width + c.width + d.width + e.width + f.width + g.width)
    BY <1>1, SevenParts
<1>4. a.width + b.width + c.width + d.width + e.width + f.width + g.width = 54
    BY <1>1
<1>5. Named(<<a, b, c, d, e, f, g>>)
    BY <1>1 DEF Named
<1>6. Within(<<a, b, c, d, e, f, g>>, names)
    BY <1>1 DEF Within
<1> QED BY <1>2, <1>3, <1>4, <1>5, <1>6 DEF WellFormed

LEMMA TransferIs ==
    ASSUME NEW op \in Small, NEW names, {"rA", "rB", "rC"} \subseteq names
    PROVE  WellFormed(Transfer(op), 27, names)
<1> DEFINE a == Fixed(7, op)
           b == Field("unsigned", "rA", 5)
           c == Field("unsigned", "rB", 5)
           d == Field("unsigned", "rC", 5)
           e == Fixed(5, 0)
<1>1. /\ a \in Parts /\ a.kind = "fixed" /\ a.width = 7
      /\ b \in Parts /\ b.kind = "unsigned" /\ b.name = "rA" /\ b.width = 5
      /\ c \in Parts /\ c.kind = "unsigned" /\ c.name = "rB" /\ c.width = 5
      /\ d \in Parts /\ d.kind = "unsigned" /\ d.name = "rC" /\ d.width = 5
      /\ e \in Parts /\ e.kind = "fixed" /\ e.width = 5
    <2>1. a \in Parts /\ a.kind = "fixed" /\ a.width = 7
        BY FixedIs
    <2>2. b \in Parts /\ b.kind = "unsigned" /\ b.name = "rA" /\ b.width = 5
        BY FieldIs DEF FieldNames
    <2>3. c \in Parts /\ c.kind = "unsigned" /\ c.name = "rB" /\ c.width = 5
        BY FieldIs DEF FieldNames
    <2>4. d \in Parts /\ d.kind = "unsigned" /\ d.name = "rC" /\ d.width = 5
        BY FieldIs DEF FieldNames
    <2>5. e \in Parts /\ e.kind = "fixed" /\ e.width = 5
        BY FixedIs, ZeroOne
    <2> QED BY <2>1, <2>2, <2>3, <2>4, <2>5
<1>2. Transfer(op) = <<a, b, c, d, e>>
    BY DEF Transfer, Register, Unsigned
<1> HIDE DEF a, b, c, d, e
<1>3. Sound(<<a, b, c, d, e>>, a.width + b.width + c.width + d.width + e.width)
    BY <1>1, FiveParts
<1>4. a.width + b.width + c.width + d.width + e.width = 27
    BY <1>1
<1>5. Named(<<a, b, c, d, e>>)
    BY <1>1 DEF Named
<1>6. Within(<<a, b, c, d, e>>, names)
    BY <1>1 DEF Within
<1> QED BY <1>2, <1>3, <1>4, <1>5, <1>6 DEF WellFormed

LEMMA SetProtectionIs ==
    ASSUME NEW op \in Small, NEW names, {"rA", "rB", "MemoryFlags"} \subseteq names
    PROVE  WellFormed(SetProtection(op), 27, names)
<1> DEFINE a == Fixed(7, op)
           b == Field("unsigned", "rA", 5)
           c == Field("unsigned", "rB", 5)
           d == Fixed(1, 1)
           e == Field("unsigned", "MemoryFlags", 2)
           f == Fixed(7, 0)
<1>1. /\ a \in Parts /\ a.kind = "fixed" /\ a.width = 7
      /\ b \in Parts /\ b.kind = "unsigned" /\ b.name = "rA" /\ b.width = 5
      /\ c \in Parts /\ c.kind = "unsigned" /\ c.name = "rB" /\ c.width = 5
      /\ d \in Parts /\ d.kind = "fixed" /\ d.width = 1
      /\ e \in Parts /\ e.kind = "unsigned" /\ e.name = "MemoryFlags" /\ e.width = 2
      /\ f \in Parts /\ f.kind = "fixed" /\ f.width = 7
    <2>1. a \in Parts /\ a.kind = "fixed" /\ a.width = 7
        BY FixedIs
    <2>2. b \in Parts /\ b.kind = "unsigned" /\ b.name = "rA" /\ b.width = 5
        BY FieldIs DEF FieldNames
    <2>3. c \in Parts /\ c.kind = "unsigned" /\ c.name = "rB" /\ c.width = 5
        BY FieldIs DEF FieldNames
    <2>4. d \in Parts /\ d.kind = "fixed" /\ d.width = 1
        BY FixedIs, ZeroOne
    <2>5. e \in Parts /\ e.kind = "unsigned" /\ e.name = "MemoryFlags" /\ e.width = 2
        BY FieldIs DEF FieldNames
    <2>6. f \in Parts /\ f.kind = "fixed" /\ f.width = 7
        BY FixedIs, ZeroOne
    <2> QED BY <2>1, <2>2, <2>3, <2>4, <2>5, <2>6
<1>2. SetProtection(op) = <<a, b, c, d, e, f>>
    BY DEF SetProtection, Register, Unsigned
<1> HIDE DEF a, b, c, d, e, f
<1>3. Sound(<<a, b, c, d, e, f>>, a.width + b.width + c.width + d.width + e.width + f.width)
    BY <1>1, SixParts
<1>4. a.width + b.width + c.width + d.width + e.width + f.width = 27
    BY <1>1
<1>5. Named(<<a, b, c, d, e, f>>)
    BY <1>1 DEF Named
<1>6. Within(<<a, b, c, d, e, f>>, names)
    BY <1>1 DEF Within
<1> QED BY <1>2, <1>3, <1>4, <1>5, <1>6 DEF WellFormed

LEMMA ReadProtectionIs ==
    ASSUME NEW op \in Small, NEW names, {"rA", "rB"} \subseteq names
    PROVE  WellFormed(ReadProtection(op), 27, names)
<1> DEFINE a == Fixed(7, op)
           b == Field("unsigned", "rA", 5)
           c == Field("unsigned", "rB", 5)
           d == Fixed(10, 0)
<1>1. /\ a \in Parts /\ a.kind = "fixed" /\ a.width = 7
      /\ b \in Parts /\ b.kind = "unsigned" /\ b.name = "rA" /\ b.width = 5
      /\ c \in Parts /\ c.kind = "unsigned" /\ c.name = "rB" /\ c.width = 5
      /\ d \in Parts /\ d.kind = "fixed" /\ d.width = 10
    <2>1. a \in Parts /\ a.kind = "fixed" /\ a.width = 7
        BY FixedIs
    <2>2. b \in Parts /\ b.kind = "unsigned" /\ b.name = "rA" /\ b.width = 5
        BY FieldIs DEF FieldNames
    <2>3. c \in Parts /\ c.kind = "unsigned" /\ c.name = "rB" /\ c.width = 5
        BY FieldIs DEF FieldNames
    <2>4. d \in Parts /\ d.kind = "fixed" /\ d.width = 10
        BY FixedIs, ZeroOne
    <2> QED BY <2>1, <2>2, <2>3, <2>4
<1>2. ReadProtection(op) = <<a, b, c, d>>
    BY DEF ReadProtection, Register, Unsigned
<1> HIDE DEF a, b, c, d
<1>3. Sound(<<a, b, c, d>>, a.width + b.width + c.width + d.width)
    BY <1>1, FourParts
<1>4. a.width + b.width + c.width + d.width = 27
    BY <1>1
<1>5. Named(<<a, b, c, d>>)
    BY <1>1 DEF Named
<1>6. Within(<<a, b, c, d>>, names)
    BY <1>1 DEF Within
<1> QED BY <1>2, <1>3, <1>4, <1>5, <1>6 DEF WellFormed

LEMMA ConvertIs ==
    ASSUME NEW op \in Small, NEW names, {"rA", "rB"} \subseteq names
    PROVE  WellFormed(Convert(op), 27, names)
<1> DEFINE a == Fixed(9, op)
           b == Field("unsigned", "rA", 5)
           c == Field("unsigned", "rB", 5)
           d == Fixed(8, 0)
<1>1. /\ a \in Parts /\ a.kind = "fixed" /\ a.width = 9
      /\ b \in Parts /\ b.kind = "unsigned" /\ b.name = "rA" /\ b.width = 5
      /\ c \in Parts /\ c.kind = "unsigned" /\ c.name = "rB" /\ c.width = 5
      /\ d \in Parts /\ d.kind = "fixed" /\ d.width = 8
    <2>1. a \in Parts /\ a.kind = "fixed" /\ a.width = 9
        BY FixedIs
    <2>2. b \in Parts /\ b.kind = "unsigned" /\ b.name = "rA" /\ b.width = 5
        BY FieldIs DEF FieldNames
    <2>3. c \in Parts /\ c.kind = "unsigned" /\ c.name = "rB" /\ c.width = 5
        BY FieldIs DEF FieldNames
    <2>4. d \in Parts /\ d.kind = "fixed" /\ d.width = 8
        BY FixedIs, ZeroOne
    <2> QED BY <2>1, <2>2, <2>3, <2>4
<1>2. Convert(op) = <<a, b, c, d>>
    BY DEF Convert, Register, Unsigned
<1> HIDE DEF a, b, c, d
<1>3. Sound(<<a, b, c, d>>, a.width + b.width + c.width + d.width)
    BY <1>1, FourParts
<1>4. a.width + b.width + c.width + d.width = 27
    BY <1>1
<1>5. Named(<<a, b, c, d>>)
    BY <1>1 DEF Named
<1>6. Within(<<a, b, c, d>>, names)
    BY <1>1 DEF Within
<1> QED BY <1>2, <1>3, <1>4, <1>5, <1>6 DEF WellFormed

LEMMA ExtendIs ==
    ASSUME NEW op \in Small, NEW names, {"rA", "rB"} \subseteq names
    PROVE  WellFormed(Extend(op), 27, names)
<1> DEFINE a == Fixed(12, op)
           b == Field("unsigned", "rA", 5)
           c == Field("unsigned", "rB", 5)
           d == Fixed(5, 0)
<1>1. /\ a \in Parts /\ a.kind = "fixed" /\ a.width = 12
      /\ b \in Parts /\ b.kind = "unsigned" /\ b.name = "rA" /\ b.width = 5
      /\ c \in Parts /\ c.kind = "unsigned" /\ c.name = "rB" /\ c.width = 5
      /\ d \in Parts /\ d.kind = "fixed" /\ d.width = 5
    <2>1. a \in Parts /\ a.kind = "fixed" /\ a.width = 12
        BY FixedIs
    <2>2. b \in Parts /\ b.kind = "unsigned" /\ b.name = "rA" /\ b.width = 5
        BY FieldIs DEF FieldNames
    <2>3. c \in Parts /\ c.kind = "unsigned" /\ c.name = "rB" /\ c.width = 5
        BY FieldIs DEF FieldNames
    <2>4. d \in Parts /\ d.kind = "fixed" /\ d.width = 5
        BY FixedIs, ZeroOne
    <2> QED BY <2>1, <2>2, <2>3, <2>4
<1>2. Extend(op) = <<a, b, c, d>>
    BY DEF Extend, Register, Unsigned
<1> HIDE DEF a, b, c, d
<1>3. Sound(<<a, b, c, d>>, a.width + b.width + c.width + d.width)
    BY <1>1, FourParts
<1>4. a.width + b.width + c.width + d.width = 27
    BY <1>1
<1>5. Named(<<a, b, c, d>>)
    BY <1>1 DEF Named
<1>6. Within(<<a, b, c, d>>, names)
    BY <1>1 DEF Within
<1> QED BY <1>2, <1>3, <1>4, <1>5, <1>6 DEF WellFormed

LEMMA RandomIs ==
    ASSUME NEW op \in Small, NEW tail \in Small, NEW names, {"rA", "UF"} \subseteq names
    PROVE  WellFormed(Random(op, tail), 27, names)
<1> DEFINE a == Fixed(9, op)
           b == Field("unsigned", "rA", 5)
           c == Fixed(12, tail)
           d == Field("unsigned", "UF", 1)
<1>1. /\ a \in Parts /\ a.kind = "fixed" /\ a.width = 9
      /\ b \in Parts /\ b.kind = "unsigned" /\ b.name = "rA" /\ b.width = 5
      /\ c \in Parts /\ c.kind = "fixed" /\ c.width = 12
      /\ d \in Parts /\ d.kind = "unsigned" /\ d.name = "UF" /\ d.width = 1
    <2>1. a \in Parts /\ a.kind = "fixed" /\ a.width = 9
        BY FixedIs
    <2>2. b \in Parts /\ b.kind = "unsigned" /\ b.name = "rA" /\ b.width = 5
        BY FieldIs DEF FieldNames
    <2>3. c \in Parts /\ c.kind = "fixed" /\ c.width = 12
        BY FixedIs
    <2>4. d \in Parts /\ d.kind = "unsigned" /\ d.name = "UF" /\ d.width = 1
        BY FieldIs DEF FieldNames
    <2> QED BY <2>1, <2>2, <2>3, <2>4
<1>2. Random(op, tail) = <<a, b, c, d>>
    BY DEF Random, Register, Unsigned, UpdateFlags
<1> HIDE DEF a, b, c, d
<1>3. Sound(<<a, b, c, d>>, a.width + b.width + c.width + d.width)
    BY <1>1, FourParts
<1>4. a.width + b.width + c.width + d.width = 27
    BY <1>1
<1>5. Named(<<a, b, c, d>>)
    BY <1>1 DEF Named
<1>6. Within(<<a, b, c, d>>, names)
    BY <1>1 DEF Within
<1> QED BY <1>2, <1>3, <1>4, <1>5, <1>6 DEF WellFormed

LEMMA FlagsIs ==
    ASSUME NEW op \in Small, NEW names, {"rA"} \subseteq names
    PROVE  WellFormed(Flags(op), 18, names)
<1> DEFINE a == Fixed(12, op)
           b == Field("unsigned", "rA", 5)
           c == Fixed(1, 0)
<1>1. /\ a \in Parts /\ a.kind = "fixed" /\ a.width = 12
      /\ b \in Parts /\ b.kind = "unsigned" /\ b.name = "rA" /\ b.width = 5
      /\ c \in Parts /\ c.kind = "fixed" /\ c.width = 1
    <2>1. a \in Parts /\ a.kind = "fixed" /\ a.width = 12
        BY FixedIs
    <2>2. b \in Parts /\ b.kind = "unsigned" /\ b.name = "rA" /\ b.width = 5
        BY FieldIs DEF FieldNames
    <2>3. c \in Parts /\ c.kind = "fixed" /\ c.width = 1
        BY FixedIs, ZeroOne
    <2> QED BY <2>1, <2>2, <2>3
<1>2. Flags(op) = <<a, b, c>>
    BY DEF Flags, Register, Unsigned
<1> HIDE DEF a, b, c
<1>3. Sound(<<a, b, c>>, a.width + b.width + c.width)
    BY <1>1, ThreeParts
<1>4. a.width + b.width + c.width = 18
    BY <1>1
<1>5. Named(<<a, b, c>>)
    BY <1>1 DEF Named
<1>6. Within(<<a, b, c>>, names)
    BY <1>1 DEF Within
<1> QED BY <1>2, <1>3, <1>4, <1>5, <1>6 DEF WellFormed

LEMMA PlainIs ==
    ASSUME NEW width \in 1 .. 27, NEW op \in Small, NEW names
    PROVE  WellFormed(Plain(width, op), width, names)
<1> DEFINE a == Fixed(width, op)
<1>1. /\ a \in Parts /\ a.kind = "fixed" /\ a.width = width
    <2>1. a \in Parts /\ a.kind = "fixed" /\ a.width = width
        BY FixedIs
    <2> QED BY <2>1
<1>2. Plain(width, op) = <<a>>
    BY DEF Plain
<1> HIDE DEF a
<1>3. Sound(<<a>>, a.width)
    BY <1>1, OnePart
<1>4. a.width = width
    BY <1>1
<1>5. Named(<<a>>)
    BY <1>1 DEF Named
<1>6. Within(<<a>>, names)
    BY <1>1 DEF Within
<1> QED BY <1>2, <1>3, <1>4, <1>5, <1>6 DEF WellFormed

-----------------------------------------------------------------------------
(* The instructions.                                                         *)

Narrow == {"CM", "CMF", "CMFM", "CMM", "CR", "DI", "EI", "RF", "SF", "HT", "IR", "RE", "WT"}
Unnamed == {"LDS", "LDT", "LDW"}

\* How long an instruction is, in bits.
TotalOf(name) ==
    CASE name \in {"STS", "STT", "STW"} -> 54
      [] name \in Narrow -> 18
      [] name \in {"BRA", "BRR", "CAA", "CAR"} -> 36
      [] name = "BR" -> 19
      [] name = "DBRK" -> 17
      [] OTHER -> 27

\* The arguments of those that the tests of rubix are composed of.
NamesOf(name) ==
    CASE name \in DrawnThree -> {"rA", "rB", "rC", "UF"}
      [] name \in DrawnWith \cup {"DVI", "MDI"} -> {"rA", "rB", "Immediate", "UF"}
      [] name \in {"NG", "NT"} -> {"rA", "rB", "UF"}
      [] name = "CM" -> {"rA", "rB"}
      [] name \in {"CMI"} \cup DrawnMove -> {"rA", "Immediate"}
      [] name \in {"STS", "STT"} -> {"rA", "rB", "RegCount", "AdjustRb", "MemOffset"}
      [] name = "B" -> {"Condition", "Offset"}
      [] name = "HT" -> {}
      [] OTHER -> Names

\* Some of the instructions, each of them as long as that, or with a part that is never bound.
Group(f) ==
    \A name \in DOMAIN f :
        /\ name \in DOMAIN Conditions => name = "SL"
        /\ IF name \in Unnamed THEN \E i \in DOMAIN f[name] : f[name][i].kind = "unbound"
           ELSE WellFormed(f[name], TotalOf(name), NamesOf(name))

LEMMA LoadIs ==
    ASSUME NEW op
    PROVE  \E i \in DOMAIN Load(op) : Load(op)[i].kind = "unbound"
<1> DEFINE p == Unbound("RegCount", 5)
<1>1. p.kind = "unbound"
    BY DEF Unbound, Field
<1> HIDE DEF p
<1>2. Load(op) = <<Fixed(7, op), Register("rA"), Register("rB"), p, Unsigned("AdjustRb", 2),
                   Signed("MemoryOffset", 27), Fixed(3, 0)>>
    BY DEF Load, Memory, p
<1>3. 4 \in DOMAIN Load(op) /\ Load(op)[4] = p
    BY <1>2
<1> QED BY <1>1, <1>3

LEMMA GroupA == Group(InstructionsA)
<1>1. /\ {"rA", "rB", "Immediate", "UF"} \subseteq Names
      /\ {"rA", "rB", "rC", "UF"} \subseteq Names
    BY DEF Names, FieldNames
<1>2. /\ 0 \in Small /\ 1 \in Small /\ 2 \in Small /\ 3 \in Small /\ 20 \in Small /\ 22 \in Small
      /\ 32 \in Small /\ 34 \in Small
    BY SMT DEF Small
<1>3. /\ WellFormed(ThreeRegisters(0, 0), 27, {"rA", "rB", "rC", "UF"})
      /\ WellFormed(ThreeRegisters(32, 0), 27, {"rA", "rB", "rC", "UF"})
      /\ WellFormed(WithImmediate(32, 1), 27, {"rA", "rB", "Immediate", "UF"})
      /\ WellFormed(WithImmediate(34, 1), 27, Names)
      /\ WellFormed(ThreeRegisters(34, 0), 27, Names)
      /\ WellFormed(ThreeRegisters(1, 0), 27, Names) /\ WellFormed(ThreeRegisters(3, 0), 27, Names)
      /\ WellFormed(WithImmediate(0, 1), 27, {"rA", "rB", "Immediate", "UF"})
      /\ WellFormed(WithImmediate(2, 1), 27, Names) /\ WellFormed(ThreeRegisters(2, 0), 27, Names)
      /\ WellFormed(ThreeRegisters(20, 0), 27, {"rA", "rB", "rC", "UF"})
      /\ WellFormed(WithImmediate(20, 1), 27, {"rA", "rB", "Immediate", "UF"})
      /\ WellFormed(ThreeRegisters(22, 0), 27, Names)
    BY <1>2, <1>1, ThreeRegistersIs, WithImmediateIs, SMT
<1>4. /\ InstructionsA.AD = ThreeRegisters(0, 0) /\ InstructionsA.ADC = ThreeRegisters(32, 0)
      /\ InstructionsA.ADCI = WithImmediate(32, 1) /\ InstructionsA.ADCIM = WithImmediate(34, 1)
      /\ InstructionsA.ADCM = ThreeRegisters(34, 0) /\ InstructionsA.ADF = ThreeRegisters(1, 0)
      /\ InstructionsA.ADFM = ThreeRegisters(3, 0) /\ InstructionsA.ADI = WithImmediate(0, 1)
      /\ InstructionsA.ADIM = WithImmediate(2, 1) /\ InstructionsA.ADM = ThreeRegisters(2, 0)
      /\ InstructionsA.AN = ThreeRegisters(20, 0) /\ InstructionsA.ANI = WithImmediate(20, 1)
      /\ InstructionsA.ANM = ThreeRegisters(22, 0)
    BY SMT DEF InstructionsA
<1>5. /\ TotalOf("AD") = 27 /\ TotalOf("ADC") = 27 /\ TotalOf("ADCI") = 27 /\ TotalOf("ADCIM") = 27
      /\ TotalOf("ADCM") = 27 /\ TotalOf("ADF") = 27 /\ TotalOf("ADFM") = 27 /\ TotalOf("ADI") = 27
      /\ TotalOf("ADIM") = 27 /\ TotalOf("ADM") = 27 /\ TotalOf("AN") = 27 /\ TotalOf("ANI") = 27
      /\ TotalOf("ANM") = 27
    BY DEF TotalOf, Narrow
<1>6. /\ NamesOf("AD") = {"rA", "rB", "rC", "UF"} /\ NamesOf("ADC") = {"rA", "rB", "rC", "UF"}
       /\ NamesOf("ADCI") = {"rA", "rB", "Immediate", "UF"} /\ NamesOf("ADCIM") = Names
       /\ NamesOf("ADCM") = Names /\ NamesOf("ADF") = Names /\ NamesOf("ADFM") = Names
       /\ NamesOf("ADI") = {"rA", "rB", "Immediate", "UF"} /\ NamesOf("ADIM") = Names
       /\ NamesOf("ADM") = Names /\ NamesOf("AN") = {"rA", "rB", "rC", "UF"}
       /\ NamesOf("ANI") = {"rA", "rB", "Immediate", "UF"} /\ NamesOf("ANM") = Names
    BY DEF NamesOf, DrawnThree, DrawnWith, DrawnMove
<1>7. DOMAIN InstructionsA =
        {"AD", "ADC", "ADCI", "ADCIM", "ADCM", "ADF", "ADFM", "ADI", "ADIM", "ADM", "AN", "ANI",
         "ANM"}
    BY DEF InstructionsA
<1>8. \A name \in DOMAIN InstructionsA : name \in DOMAIN Conditions => name = "SL"
    BY <1>7 DEF Conditions
<1>9. \A name \in DOMAIN InstructionsA : name \notin Unnamed
    BY <1>7 DEF Unnamed
<1>10. \A name \in DOMAIN InstructionsA : WellFormed(InstructionsA[name], TotalOf(name), NamesOf(name))
    BY <1>3, <1>4, <1>5, <1>7, <1>6
<1> QED BY <1>8, <1>9, <1>10 DEF Group

LEMMA GroupBC == Group(InstructionsBC)
<1>1. /\ {"Condition", "Offset"} \subseteq Names /\ {"Condition", "rA"} \subseteq Names
      /\ {"Location"} \subseteq Names /\ {"Offset"} \subseteq Names
      /\ {"rA", "Immediate"} \subseteq Names /\ {"rA", "rB", "UF"} \subseteq Names
      /\ {"rA", "rB"} \subseteq Names
    BY DEF Names, FieldNames
<1>2. /\ 0 \in Small /\ 48 \in Small /\ 50 \in Small /\ 53 \in Small /\ 55 \in Small
      /\ 64 \in Small /\ 184 \in Small /\ 185 \in Small /\ 186 \in Small /\ 188 \in Small
      /\ 189 \in Small /\ 190 \in Small /\ 332 \in Small /\ 334 \in Small /\ 448 \in Small
      /\ 452 \in Small /\ 456 \in Small /\ 460 \in Small
    BY SMT DEF Small
<1>3. /\ WellFormed(Branch(48), 27, {"Condition", "Offset"})
      /\ WellFormed(TwoRegisters(332, 64), 27, Names)
      /\ WellFormed(TwoRegisters(334, 64), 27, Names)
      /\ WellFormed(ToRegister(50, 4, 0), 19, Names) /\ WellFormed(Far(452, "Location"), 36, Names)
      /\ WellFormed(Far(448, "Offset"), 36, Names) /\ WellFormed(Calling(53), 27, Names)
      /\ WellFormed(Far(460, "Location"), 36, Names) /\ WellFormed(Far(456, "Offset"), 36, Names)
      /\ WellFormed(Compare(184), 18, {"rA", "rB"}) /\ WellFormed(Compare(186), 18, Names)
      /\ WellFormed(Compare(190), 18, Names)
      /\ WellFormed(CompareImmediate(185), 27, {"rA", "Immediate"})
      /\ WellFormed(CompareImmediate(189), 27, Names) /\ WellFormed(Compare(188), 18, Names)
      /\ WellFormed(ToRegister(55, 3, 0), 18, Names)
    BY <1>2, <1>1, BranchIs, CallingIs, CompareImmediateIs, CompareIs, FarIs, ToRegisterIs, TwoRegistersIs, SMT
<1>4. /\ InstructionsBC.B = Branch(48) /\ InstructionsBC.BF = TwoRegisters(332, 64)
      /\ InstructionsBC.BFM = TwoRegisters(334, 64) /\ InstructionsBC.BR = ToRegister(50, 4, 0)
      /\ InstructionsBC.BRA = Far(452, "Location") /\ InstructionsBC.BRR = Far(448, "Offset")
      /\ InstructionsBC.C = Calling(53) /\ InstructionsBC.CAA = Far(460, "Location")
      /\ InstructionsBC.CAR = Far(456, "Offset") /\ InstructionsBC.CM = Compare(184)
      /\ InstructionsBC.CMF = Compare(186) /\ InstructionsBC.CMFM = Compare(190)
      /\ InstructionsBC.CMI = CompareImmediate(185) /\ InstructionsBC.CMIM = CompareImmediate(189)
      /\ InstructionsBC.CMM = Compare(188) /\ InstructionsBC.CR = ToRegister(55, 3, 0)
    BY SMT DEF InstructionsBC
<1>5. /\ TotalOf("B") = 27 /\ TotalOf("BF") = 27 /\ TotalOf("BFM") = 27 /\ TotalOf("BR") = 19
      /\ TotalOf("BRA") = 36 /\ TotalOf("BRR") = 36 /\ TotalOf("C") = 27 /\ TotalOf("CAA") = 36
      /\ TotalOf("CAR") = 36 /\ TotalOf("CM") = 18 /\ TotalOf("CMF") = 18 /\ TotalOf("CMFM") = 18
      /\ TotalOf("CMI") = 27 /\ TotalOf("CMIM") = 27 /\ TotalOf("CMM") = 18 /\ TotalOf("CR") = 18
    BY DEF TotalOf, Narrow
<1>6. /\ NamesOf("B") = {"Condition", "Offset"} /\ NamesOf("BF") = Names /\ NamesOf("BFM") = Names
       /\ NamesOf("BR") = Names /\ NamesOf("BRA") = Names /\ NamesOf("BRR") = Names
       /\ NamesOf("C") = Names /\ NamesOf("CAA") = Names /\ NamesOf("CAR") = Names
       /\ NamesOf("CM") = {"rA", "rB"} /\ NamesOf("CMF") = Names /\ NamesOf("CMFM") = Names
       /\ NamesOf("CMI") = {"rA", "Immediate"} /\ NamesOf("CMIM") = Names /\ NamesOf("CMM") = Names
       /\ NamesOf("CR") = Names
    BY DEF NamesOf, DrawnThree, DrawnWith, DrawnMove
<1>7. DOMAIN InstructionsBC =
        {"B", "BF", "BFM", "BR", "BRA", "BRR", "C", "CAA", "CAR", "CM", "CMF", "CMFM", "CMI",
         "CMIM", "CMM", "CR"}
    BY DEF InstructionsBC
<1>8. \A name \in DOMAIN InstructionsBC : name \in DOMAIN Conditions => name = "SL"
    BY <1>7 DEF Conditions
<1>9. \A name \in DOMAIN InstructionsBC : name \notin Unnamed
    BY <1>7 DEF Unnamed
<1>10. \A name \in DOMAIN InstructionsBC : WellFormed(InstructionsBC[name], TotalOf(name), NamesOf(name))
    BY <1>3, <1>4, <1>5, <1>7, <1>6
<1> QED BY <1>8, <1>9, <1>10 DEF Group

LEMMA GroupDE == Group(InstructionsDE)
<1>1. /\ {"rA", "rB", "Immediate", "UF"} \subseteq Names
      /\ {"rA", "rB", "rC", "UF"} \subseteq Names /\ {"rA", "rB", "rC"} \subseteq Names
      /\ {"rA"} \subseteq Names
    BY DEF Names, FieldNames
<1>2. /\ 0 \in Small /\ 1 \in Small /\ 2 \in Small /\ 3 \in Small /\ 12 \in Small /\ 13 \in Small
      /\ 14 \in Small /\ 15 \in Small /\ 52 \in Small /\ 2564 \in Small /\ 2565 \in Small
      /\ 131071 \in Small
    BY SMT DEF Small
<1>3. /\ WellFormed(Plain(17, 131071), 17, Names) /\ WellFormed(Flags(2565), 18, Names)
      /\ WellFormed(Transfer(52), 27, Names) /\ WellFormed(ThreeRegisters(12, 0), 27, Names)
      /\ WellFormed(ThreeRegisters(13, 0), 27, Names)
      /\ WellFormed(ThreeRegisters(15, 0), 27, Names)
      /\ WellFormed(WithImmediate(12, 1), 27, {"rA", "rB", "Immediate", "UF"})
      /\ WellFormed(WithImmediate(14, 1), 27, Names) /\ WellFormed(WithImmediate(12, 3), 27, Names)
      /\ WellFormed(WithImmediate(14, 3), 27, Names)
      /\ WellFormed(ThreeRegisters(14, 0), 27, Names)
      /\ WellFormed(ThreeRegisters(12, 2), 27, Names)
      /\ WellFormed(ThreeRegisters(14, 2), 27, Names) /\ WellFormed(Flags(2564), 18, Names)
    BY <1>2, <1>1, FlagsIs, PlainIs, ThreeRegistersIs, TransferIs, WithImmediateIs, SMT
<1>4. /\ InstructionsDE.DBRK = Plain(17, 131071) /\ InstructionsDE.DI = Flags(2565)
      /\ InstructionsDE.DMT = Transfer(52) /\ InstructionsDE.DV = ThreeRegisters(12, 0)
      /\ InstructionsDE.DVF = ThreeRegisters(13, 0) /\ InstructionsDE.DVFM = ThreeRegisters(15, 0)
      /\ InstructionsDE.DVI = WithImmediate(12, 1) /\ InstructionsDE.DVIM = WithImmediate(14, 1)
      /\ InstructionsDE.DVIS = WithImmediate(12, 3) /\ InstructionsDE.DVISM = WithImmediate(14, 3)
      /\ InstructionsDE.DVM = ThreeRegisters(14, 0) /\ InstructionsDE.DVS = ThreeRegisters(12, 2)
      /\ InstructionsDE.DVSM = ThreeRegisters(14, 2) /\ InstructionsDE.EI = Flags(2564)
    BY SMT DEF InstructionsDE
<1>5. /\ TotalOf("DBRK") = 17 /\ TotalOf("DI") = 18 /\ TotalOf("DMT") = 27 /\ TotalOf("DV") = 27
      /\ TotalOf("DVF") = 27 /\ TotalOf("DVFM") = 27 /\ TotalOf("DVI") = 27 /\ TotalOf("DVIM") = 27
      /\ TotalOf("DVIS") = 27 /\ TotalOf("DVISM") = 27 /\ TotalOf("DVM") = 27
      /\ TotalOf("DVS") = 27 /\ TotalOf("DVSM") = 27 /\ TotalOf("EI") = 18
    BY DEF TotalOf, Narrow
<1>6. /\ NamesOf("DBRK") = Names /\ NamesOf("DI") = Names /\ NamesOf("DMT") = Names
       /\ NamesOf("DV") = Names /\ NamesOf("DVF") = Names /\ NamesOf("DVFM") = Names
       /\ NamesOf("DVI") = {"rA", "rB", "Immediate", "UF"} /\ NamesOf("DVIM") = Names
       /\ NamesOf("DVIS") = Names /\ NamesOf("DVISM") = Names /\ NamesOf("DVM") = Names
       /\ NamesOf("DVS") = Names /\ NamesOf("DVSM") = Names /\ NamesOf("EI") = Names
    BY DEF NamesOf, DrawnThree, DrawnWith, DrawnMove
<1>7. DOMAIN InstructionsDE =
        {"DBRK", "DI", "DMT", "DV", "DVF", "DVFM", "DVI", "DVIM", "DVIS", "DVISM", "DVM", "DVS",
         "DVSM", "EI"}
    BY DEF InstructionsDE
<1>8. \A name \in DOMAIN InstructionsDE : name \in DOMAIN Conditions => name = "SL"
    BY <1>7 DEF Conditions
<1>9. \A name \in DOMAIN InstructionsDE : name \notin Unnamed
    BY <1>7 DEF Unnamed
<1>10. \A name \in DOMAIN InstructionsDE : WellFormed(InstructionsDE[name], TotalOf(name), NamesOf(name))
    BY <1>3, <1>4, <1>5, <1>7, <1>6
<1> QED BY <1>8, <1>9, <1>10 DEF Group

LEMMA GroupFtoL == Group(InstructionsFtoL)
<1>1. /\ {"rA", "rB"} \subseteq Names
    BY DEF Names, FieldNames
<1>2. /\ 324 \in Small /\ 325 \in Small /\ 326 \in Small /\ 327 \in Small /\ 163904 \in Small
      /\ 164032 \in Small
    BY SMT DEF Small
<1>3. /\ WellFormed(Convert(325), 27, Names) /\ WellFormed(Convert(327), 27, Names)
      /\ WellFormed(Plain(18, 164032), 18, {}) /\ WellFormed(Plain(18, 163904), 18, Names)
      /\ WellFormed(Convert(324), 27, Names) /\ WellFormed(Convert(326), 27, Names)
    BY <1>2, <1>1, ConvertIs, PlainIs, SMT
<1>4. /\ InstructionsFtoL.FTI = Convert(325) /\ InstructionsFtoL.FTIM = Convert(327)
      /\ InstructionsFtoL.HT = Plain(18, 164032) /\ InstructionsFtoL.IR = Plain(18, 163904)
      /\ InstructionsFtoL.ITF = Convert(324) /\ InstructionsFtoL.ITFM = Convert(326)
      /\ InstructionsFtoL.LDS = Load(84) /\ InstructionsFtoL.LDT = Load(86)
      /\ InstructionsFtoL.LDW = Load(85)
    BY SMT DEF InstructionsFtoL
<1>5. /\ TotalOf("FTI") = 27 /\ TotalOf("FTIM") = 27 /\ TotalOf("HT") = 18 /\ TotalOf("IR") = 18
      /\ TotalOf("ITF") = 27 /\ TotalOf("ITFM") = 27
    BY DEF TotalOf, Narrow
<1>6. /\ NamesOf("FTI") = Names /\ NamesOf("FTIM") = Names /\ NamesOf("HT") = {}
       /\ NamesOf("IR") = Names /\ NamesOf("ITF") = Names /\ NamesOf("ITFM") = Names
    BY DEF NamesOf, DrawnThree, DrawnWith, DrawnMove
<1>7. DOMAIN InstructionsFtoL =
        {"FTI", "FTIM", "HT", "IR", "ITF", "ITFM", "LDS", "LDT", "LDW"}
    BY DEF InstructionsFtoL
<1>8. \A name \in DOMAIN InstructionsFtoL : name \in DOMAIN Conditions => name = "SL"
    BY <1>7 DEF Conditions
<1>9. \A name \in DOMAIN InstructionsFtoL : name \in Unnamed <=> name \in {"LDS", "LDT", "LDW"}
    BY <1>7 DEF Unnamed
<1>10. \A name \in DOMAIN InstructionsFtoL : name \notin Unnamed => WellFormed(InstructionsFtoL[name], TotalOf(name), NamesOf(name))
    BY <1>3, <1>4, <1>5, <1>7, <1>9, <1>6
<1>11. \A name \in Unnamed : \E i \in DOMAIN InstructionsFtoL[name] : InstructionsFtoL[name][i].kind = "unbound"
    BY <1>4, LoadIs DEF Unnamed
<1> QED BY <1>8, <1>10, <1>11 DEF Group

LEMMA GroupMD == Group(InstructionsMD)
<1>1. /\ {"rA", "rB", "Immediate", "UF"} \subseteq Names
      /\ {"rA", "rB", "rC", "UF"} \subseteq Names
    BY DEF Names, FieldNames
<1>2. /\ 0 \in Small /\ 1 \in Small /\ 2 \in Small /\ 3 \in Small /\ 16 \in Small /\ 17 \in Small
      /\ 18 \in Small /\ 19 \in Small
    BY SMT DEF Small
<1>3. /\ WellFormed(ThreeRegisters(16, 0), 27, Names)
      /\ WellFormed(ThreeRegisters(17, 0), 27, Names)
      /\ WellFormed(ThreeRegisters(19, 0), 27, Names)
      /\ WellFormed(WithImmediate(16, 1), 27, {"rA", "rB", "Immediate", "UF"})
      /\ WellFormed(WithImmediate(18, 1), 27, Names) /\ WellFormed(WithImmediate(16, 3), 27, Names)
      /\ WellFormed(WithImmediate(18, 3), 27, Names)
      /\ WellFormed(ThreeRegisters(18, 0), 27, Names)
      /\ WellFormed(ThreeRegisters(16, 2), 27, Names)
      /\ WellFormed(ThreeRegisters(18, 2), 27, Names)
    BY <1>2, <1>1, ThreeRegistersIs, WithImmediateIs, SMT
<1>4. /\ InstructionsMD.MD = ThreeRegisters(16, 0) /\ InstructionsMD.MDF = ThreeRegisters(17, 0)
      /\ InstructionsMD.MDFM = ThreeRegisters(19, 0) /\ InstructionsMD.MDI = WithImmediate(16, 1)
      /\ InstructionsMD.MDIM = WithImmediate(18, 1) /\ InstructionsMD.MDIS = WithImmediate(16, 3)
      /\ InstructionsMD.MDISM = WithImmediate(18, 3) /\ InstructionsMD.MDM = ThreeRegisters(18, 0)
      /\ InstructionsMD.MDS = ThreeRegisters(16, 2) /\ InstructionsMD.MDSM = ThreeRegisters(18, 2)
    BY SMT DEF InstructionsMD
<1>5. /\ TotalOf("MD") = 27 /\ TotalOf("MDF") = 27 /\ TotalOf("MDFM") = 27 /\ TotalOf("MDI") = 27
      /\ TotalOf("MDIM") = 27 /\ TotalOf("MDIS") = 27 /\ TotalOf("MDISM") = 27
      /\ TotalOf("MDM") = 27 /\ TotalOf("MDS") = 27 /\ TotalOf("MDSM") = 27
    BY DEF TotalOf, Narrow
<1>6. /\ NamesOf("MD") = Names /\ NamesOf("MDF") = Names /\ NamesOf("MDFM") = Names
       /\ NamesOf("MDI") = {"rA", "rB", "Immediate", "UF"} /\ NamesOf("MDIM") = Names
       /\ NamesOf("MDIS") = Names /\ NamesOf("MDISM") = Names /\ NamesOf("MDM") = Names
       /\ NamesOf("MDS") = Names /\ NamesOf("MDSM") = Names
    BY DEF NamesOf, DrawnThree, DrawnWith, DrawnMove
<1>7. DOMAIN InstructionsMD =
        {"MD", "MDF", "MDFM", "MDI", "MDIM", "MDIS", "MDISM", "MDM", "MDS", "MDSM"}
    BY DEF InstructionsMD
<1>8. \A name \in DOMAIN InstructionsMD : name \in DOMAIN Conditions => name = "SL"
    BY <1>7 DEF Conditions
<1>9. \A name \in DOMAIN InstructionsMD : name \notin Unnamed
    BY <1>7 DEF Unnamed
<1>10. \A name \in DOMAIN InstructionsMD : WellFormed(InstructionsMD[name], TotalOf(name), NamesOf(name))
    BY <1>3, <1>4, <1>5, <1>7, <1>6
<1> QED BY <1>8, <1>9, <1>10 DEF Group

LEMMA GroupMHtoMU == Group(InstructionsMHtoMU)
<1>1. /\ {"rA", "rB", "Immediate", "UF"} \subseteq Names
      /\ {"rA", "rB", "rC", "UF"} \subseteq Names
    BY DEF Names, FieldNames
<1>2. /\ 0 \in Small /\ 1 \in Small /\ 2 \in Small /\ 3 \in Small /\ 8 \in Small /\ 9 \in Small
      /\ 10 \in Small /\ 11 \in Small /\ 17 \in Small /\ 18 \in Small /\ 19 \in Small
    BY SMT DEF Small
<1>3. /\ WellFormed(MoveImmediate(17), 27, {"rA", "Immediate"})
      /\ WellFormed(MoveImmediate(18), 27, {"rA", "Immediate"})
      /\ WellFormed(MoveImmediate(19), 27, {"rA", "Immediate"})
      /\ WellFormed(ThreeRegisters(8, 0), 27, {"rA", "rB", "rC", "UF"})
      /\ WellFormed(ThreeRegisters(9, 0), 27, Names)
      /\ WellFormed(ThreeRegisters(11, 0), 27, Names)
      /\ WellFormed(WithImmediate(8, 1), 27, {"rA", "rB", "Immediate", "UF"})
      /\ WellFormed(WithImmediate(10, 1), 27, Names) /\ WellFormed(WithUnsigned(8, 3), 27, Names)
      /\ WellFormed(WithImmediate(10, 3), 27, Names)
      /\ WellFormed(ThreeRegisters(10, 0), 27, Names)
      /\ WellFormed(ThreeRegisters(8, 2), 27, {"rA", "rB", "rC", "UF"})
      /\ WellFormed(ThreeRegisters(10, 2), 27, Names)
    BY <1>2, <1>1, MoveImmediateIs, ThreeRegistersIs, WithImmediateIs, WithUnsignedIs, SMT
<1>4. /\ InstructionsMHtoMU.MH = MoveImmediate(17) /\ InstructionsMHtoMU.ML = MoveImmediate(18)
      /\ InstructionsMHtoMU.MS = MoveImmediate(19) /\ InstructionsMHtoMU.MU = ThreeRegisters(8, 0)
      /\ InstructionsMHtoMU.MUF = ThreeRegisters(9, 0)
      /\ InstructionsMHtoMU.MUFM = ThreeRegisters(11, 0)
      /\ InstructionsMHtoMU.MUI = WithImmediate(8, 1)
      /\ InstructionsMHtoMU.MIUM = WithImmediate(10, 1)
      /\ InstructionsMHtoMU.MUIS = WithUnsigned(8, 3)
      /\ InstructionsMHtoMU.MUISM = WithImmediate(10, 3)
      /\ InstructionsMHtoMU.MUM = ThreeRegisters(10, 0)
      /\ InstructionsMHtoMU.MUS = ThreeRegisters(8, 2)
      /\ InstructionsMHtoMU.MUSM = ThreeRegisters(10, 2)
    BY SMT DEF InstructionsMHtoMU
<1>5. /\ TotalOf("MH") = 27 /\ TotalOf("ML") = 27 /\ TotalOf("MS") = 27 /\ TotalOf("MU") = 27
      /\ TotalOf("MUF") = 27 /\ TotalOf("MUFM") = 27 /\ TotalOf("MUI") = 27 /\ TotalOf("MIUM") = 27
      /\ TotalOf("MUIS") = 27 /\ TotalOf("MUISM") = 27 /\ TotalOf("MUM") = 27
      /\ TotalOf("MUS") = 27 /\ TotalOf("MUSM") = 27
    BY DEF TotalOf, Narrow
<1>6. /\ NamesOf("MH") = {"rA", "Immediate"} /\ NamesOf("ML") = {"rA", "Immediate"}
       /\ NamesOf("MS") = {"rA", "Immediate"} /\ NamesOf("MU") = {"rA", "rB", "rC", "UF"}
       /\ NamesOf("MUF") = Names /\ NamesOf("MUFM") = Names
       /\ NamesOf("MUI") = {"rA", "rB", "Immediate", "UF"} /\ NamesOf("MIUM") = Names
       /\ NamesOf("MUIS") = Names /\ NamesOf("MUISM") = Names /\ NamesOf("MUM") = Names
       /\ NamesOf("MUS") = {"rA", "rB", "rC", "UF"} /\ NamesOf("MUSM") = Names
    BY DEF NamesOf, DrawnThree, DrawnWith, DrawnMove
<1>7. DOMAIN InstructionsMHtoMU =
        {"MH", "ML", "MS", "MU", "MUF", "MUFM", "MUI", "MIUM", "MUIS", "MUISM", "MUM", "MUS", "MUSM"}
    BY DEF InstructionsMHtoMU
<1>8. \A name \in DOMAIN InstructionsMHtoMU : name \in DOMAIN Conditions => name = "SL"
    BY <1>7 DEF Conditions
<1>9. \A name \in DOMAIN InstructionsMHtoMU : name \notin Unnamed
    BY <1>7 DEF Unnamed
<1>10. \A name \in DOMAIN InstructionsMHtoMU : WellFormed(InstructionsMHtoMU[name], TotalOf(name), NamesOf(name))
    BY <1>3, <1>4, <1>5, <1>7, <1>6
<1> QED BY <1>8, <1>9, <1>10 DEF Group

LEMMA GroupNO == Group(InstructionsNO)
<1>1. /\ {"rA", "rB", "UF"} \subseteq Names /\ {"rA", "rB", "rC", "UF"} \subseteq Names
    BY DEF Names, FieldNames
<1>2. /\ 0 \in Small /\ 1 \in Small /\ 24 \in Small /\ 26 \in Small /\ 32 \in Small
      /\ 332 \in Small /\ 333 \in Small /\ 334 \in Small /\ 335 \in Small
    BY SMT DEF Small
<1>3. /\ WellFormed(TwoRegisters(332, 0), 27, {"rA", "rB", "UF"})
      /\ WellFormed(TwoRegisters(333, 0), 27, Names) /\ WellFormed(TwoRegisters(335, 0), 27, Names)
      /\ WellFormed(TwoRegisters(334, 0), 27, Names)
      /\ WellFormed(TwoRegisters(332, 32), 27, {"rA", "rB", "UF"})
      /\ WellFormed(TwoRegisters(334, 32), 27, Names)
      /\ WellFormed(ThreeRegisters(24, 0), 27, {"rA", "rB", "rC", "UF"})
      /\ WellFormed(WithImmediate(24, 1), 27, {"rA", "rB", "Immediate", "UF"})
      /\ WellFormed(ThreeRegisters(26, 0), 27, Names)
    BY <1>2, <1>1, ThreeRegistersIs, TwoRegistersIs, WithImmediateIs, SMT
<1>4. /\ InstructionsNO.NG = TwoRegisters(332, 0) /\ InstructionsNO.NGF = TwoRegisters(333, 0)
      /\ InstructionsNO.NGFM = TwoRegisters(335, 0) /\ InstructionsNO.NGM = TwoRegisters(334, 0)
      /\ InstructionsNO.NT = TwoRegisters(332, 32) /\ InstructionsNO.NTM = TwoRegisters(334, 32)
      /\ InstructionsNO.OR = ThreeRegisters(24, 0) /\ InstructionsNO.ORI = WithImmediate(24, 1)
      /\ InstructionsNO.ORM = ThreeRegisters(26, 0)
    BY SMT DEF InstructionsNO
<1>5. /\ TotalOf("NG") = 27 /\ TotalOf("NGF") = 27 /\ TotalOf("NGFM") = 27 /\ TotalOf("NGM") = 27
      /\ TotalOf("NT") = 27 /\ TotalOf("NTM") = 27 /\ TotalOf("OR") = 27 /\ TotalOf("ORI") = 27
      /\ TotalOf("ORM") = 27
    BY DEF TotalOf, Narrow
<1>6. /\ NamesOf("NG") = {"rA", "rB", "UF"} /\ NamesOf("NGF") = Names /\ NamesOf("NGFM") = Names
       /\ NamesOf("NGM") = Names /\ NamesOf("NT") = {"rA", "rB", "UF"} /\ NamesOf("NTM") = Names
       /\ NamesOf("OR") = {"rA", "rB", "rC", "UF"}
       /\ NamesOf("ORI") = {"rA", "rB", "Immediate", "UF"} /\ NamesOf("ORM") = Names
    BY DEF NamesOf, DrawnThree, DrawnWith, DrawnMove
<1>7. DOMAIN InstructionsNO =
        {"NG", "NGF", "NGFM", "NGM", "NT", "NTM", "OR", "ORI", "ORM"}
    BY DEF InstructionsNO
<1>8. \A name \in DOMAIN InstructionsNO : name \in DOMAIN Conditions => name = "SL"
    BY <1>7 DEF Conditions
<1>9. \A name \in DOMAIN InstructionsNO : name \notin Unnamed
    BY <1>7 DEF Unnamed
<1>10. \A name \in DOMAIN InstructionsNO : WellFormed(InstructionsNO[name], TotalOf(name), NamesOf(name))
    BY <1>3, <1>4, <1>5, <1>7, <1>6
<1> QED BY <1>8, <1>9, <1>10 DEF Group

LEMMA GroupR == Group(InstructionsR)
<1>1. /\ {"rA", "UF"} \subseteq Names /\ {"rA", "rB", "Immediate", "UF"} \subseteq Names
      /\ {"rA", "rB", "rC", "UF"} \subseteq Names /\ {"rA", "rB"} \subseteq Names
      /\ {"rA"} \subseteq Names
    BY DEF Names, FieldNames
<1>2. /\ 0 \in Small /\ 48 \in Small /\ 49 \in Small /\ 50 \in Small /\ 51 \in Small
      /\ 64 \in Small /\ 65 \in Small /\ 66 \in Small /\ 67 \in Small /\ 82 \in Small
      /\ 96 \in Small /\ 332 \in Small /\ 334 \in Small /\ 2572 \in Small /\ 163840 \in Small
    BY SMT DEF Small
<1>3. /\ WellFormed(Plain(18, 163840), 18, Names) /\ WellFormed(Flags(2572), 18, Names)
      /\ WellFormed(ThreeRegisters(48, 0), 27, {"rA", "rB", "rC", "UF"})
      /\ WellFormed(WithImmediate(64, 0), 27, {"rA", "rB", "Immediate", "UF"})
      /\ WellFormed(WithImmediate(66, 0), 27, Names)
      /\ WellFormed(ThreeRegisters(50, 0), 27, Names) /\ WellFormed(ReadProtection(82), 27, Names)
      /\ WellFormed(Random(332, 96), 27, Names) /\ WellFormed(Random(334, 96), 27, Names)
      /\ WellFormed(ThreeRegisters(49, 0), 27, {"rA", "rB", "rC", "UF"})
      /\ WellFormed(WithImmediate(65, 0), 27, {"rA", "rB", "Immediate", "UF"})
      /\ WellFormed(WithImmediate(67, 0), 27, Names)
      /\ WellFormed(ThreeRegisters(51, 0), 27, Names)
    BY <1>2, <1>1, FlagsIs, PlainIs, RandomIs, ReadProtectionIs, ThreeRegistersIs, WithImmediateIs, SMT
<1>4. /\ InstructionsR.RE = Plain(18, 163840) /\ InstructionsR.RF = Flags(2572)
      /\ InstructionsR.RL = ThreeRegisters(48, 0) /\ InstructionsR.RLI = WithImmediate(64, 0)
      /\ InstructionsR.RLIM = WithImmediate(66, 0) /\ InstructionsR.RLM = ThreeRegisters(50, 0)
      /\ InstructionsR.RMP = ReadProtection(82) /\ InstructionsR.RND = Random(332, 96)
      /\ InstructionsR.RNDM = Random(334, 96) /\ InstructionsR.RR = ThreeRegisters(49, 0)
      /\ InstructionsR.RRI = WithImmediate(65, 0) /\ InstructionsR.RRIM = WithImmediate(67, 0)
      /\ InstructionsR.RRM = ThreeRegisters(51, 0)
    BY SMT DEF InstructionsR
<1>5. /\ TotalOf("RE") = 18 /\ TotalOf("RF") = 18 /\ TotalOf("RL") = 27 /\ TotalOf("RLI") = 27
      /\ TotalOf("RLIM") = 27 /\ TotalOf("RLM") = 27 /\ TotalOf("RMP") = 27 /\ TotalOf("RND") = 27
      /\ TotalOf("RNDM") = 27 /\ TotalOf("RR") = 27 /\ TotalOf("RRI") = 27 /\ TotalOf("RRIM") = 27
      /\ TotalOf("RRM") = 27
    BY DEF TotalOf, Narrow
<1>6. /\ NamesOf("RE") = Names /\ NamesOf("RF") = Names
       /\ NamesOf("RL") = {"rA", "rB", "rC", "UF"}
       /\ NamesOf("RLI") = {"rA", "rB", "Immediate", "UF"} /\ NamesOf("RLIM") = Names
       /\ NamesOf("RLM") = Names /\ NamesOf("RMP") = Names /\ NamesOf("RND") = Names
       /\ NamesOf("RNDM") = Names /\ NamesOf("RR") = {"rA", "rB", "rC", "UF"}
       /\ NamesOf("RRI") = {"rA", "rB", "Immediate", "UF"} /\ NamesOf("RRIM") = Names
       /\ NamesOf("RRM") = Names
    BY DEF NamesOf, DrawnThree, DrawnWith, DrawnMove
<1>7. DOMAIN InstructionsR =
        {"RE", "RF", "RL", "RLI", "RLIM", "RLM", "RMP", "RND", "RNDM", "RR", "RRI", "RRIM", "RRM"}
    BY DEF InstructionsR
<1>8. \A name \in DOMAIN InstructionsR : name \in DOMAIN Conditions => name = "SL"
    BY <1>7 DEF Conditions
<1>9. \A name \in DOMAIN InstructionsR : name \notin Unnamed
    BY <1>7 DEF Unnamed
<1>10. \A name \in DOMAIN InstructionsR : WellFormed(InstructionsR[name], TotalOf(name), NamesOf(name))
    BY <1>3, <1>4, <1>5, <1>7, <1>6
<1> QED BY <1>8, <1>9, <1>10 DEF Group

LEMMA GroupSAtoSBI == Group(InstructionsSAtoSBI)
<1>1. /\ {"rA", "rB", "Immediate", "UF"} \subseteq Names
      /\ {"rA", "rB", "rC", "UF"} \subseteq Names
    BY DEF Names, FieldNames
<1>2. /\ 0 \in Small /\ 1 \in Small /\ 4 \in Small /\ 5 \in Small /\ 7 \in Small /\ 36 \in Small
      /\ 38 \in Small /\ 45 \in Small /\ 47 \in Small /\ 61 \in Small /\ 63 \in Small
    BY SMT DEF Small
<1>3. /\ WellFormed(ThreeRegisters(45, 0), 27, {"rA", "rB", "rC", "UF"})
      /\ WellFormed(WithImmediate(61, 0), 27, {"rA", "rB", "Immediate", "UF"})
      /\ WellFormed(WithImmediate(63, 0), 27, Names)
      /\ WellFormed(ThreeRegisters(47, 0), 27, Names)
      /\ WellFormed(ThreeRegisters(4, 0), 27, {"rA", "rB", "rC", "UF"})
      /\ WellFormed(ThreeRegisters(36, 0), 27, Names)
      /\ WellFormed(WithImmediate(36, 1), 27, Names) /\ WellFormed(WithImmediate(38, 1), 27, Names)
      /\ WellFormed(ThreeRegisters(38, 0), 27, Names)
      /\ WellFormed(ThreeRegisters(5, 0), 27, Names) /\ WellFormed(ThreeRegisters(7, 0), 27, Names)
      /\ WellFormed(WithImmediate(4, 1), 27, {"rA", "rB", "Immediate", "UF"})
    BY <1>2, <1>1, ThreeRegistersIs, WithImmediateIs, SMT
<1>4. /\ InstructionsSAtoSBI.SA = ThreeRegisters(45, 0)
      /\ InstructionsSAtoSBI.SAI = WithImmediate(61, 0)
      /\ InstructionsSAtoSBI.SAIM = WithImmediate(63, 0)
      /\ InstructionsSAtoSBI.SAM = ThreeRegisters(47, 0)
      /\ InstructionsSAtoSBI.SB = ThreeRegisters(4, 0)
      /\ InstructionsSAtoSBI.SBC = ThreeRegisters(36, 0)
      /\ InstructionsSAtoSBI.SBCI = WithImmediate(36, 1)
      /\ InstructionsSAtoSBI.SBCIM = WithImmediate(38, 1)
      /\ InstructionsSAtoSBI.SBCM = ThreeRegisters(38, 0)
      /\ InstructionsSAtoSBI.SBF = ThreeRegisters(5, 0)
      /\ InstructionsSAtoSBI.SBFM = ThreeRegisters(7, 0)
      /\ InstructionsSAtoSBI.SBI = WithImmediate(4, 1)
    BY SMT DEF InstructionsSAtoSBI
<1>5. /\ TotalOf("SA") = 27 /\ TotalOf("SAI") = 27 /\ TotalOf("SAIM") = 27 /\ TotalOf("SAM") = 27
      /\ TotalOf("SB") = 27 /\ TotalOf("SBC") = 27 /\ TotalOf("SBCI") = 27 /\ TotalOf("SBCIM") = 27
      /\ TotalOf("SBCM") = 27 /\ TotalOf("SBF") = 27 /\ TotalOf("SBFM") = 27 /\ TotalOf("SBI") = 27
    BY DEF TotalOf, Narrow
<1>6. /\ NamesOf("SA") = {"rA", "rB", "rC", "UF"}
       /\ NamesOf("SAI") = {"rA", "rB", "Immediate", "UF"} /\ NamesOf("SAIM") = Names
       /\ NamesOf("SAM") = Names /\ NamesOf("SB") = {"rA", "rB", "rC", "UF"}
       /\ NamesOf("SBC") = Names /\ NamesOf("SBCI") = Names /\ NamesOf("SBCIM") = Names
       /\ NamesOf("SBCM") = Names /\ NamesOf("SBF") = Names /\ NamesOf("SBFM") = Names
       /\ NamesOf("SBI") = {"rA", "rB", "Immediate", "UF"}
    BY DEF NamesOf, DrawnThree, DrawnWith, DrawnMove
<1>7. DOMAIN InstructionsSAtoSBI =
        {"SA", "SAI", "SAIM", "SAM", "SB", "SBC", "SBCI", "SBCIM", "SBCM", "SBF", "SBFM", "SBI"}
    BY DEF InstructionsSAtoSBI
<1>8. \A name \in DOMAIN InstructionsSAtoSBI : name \in DOMAIN Conditions => name = "SL"
    BY <1>7 DEF Conditions
<1>9. \A name \in DOMAIN InstructionsSAtoSBI : name \notin Unnamed
    BY <1>7 DEF Unnamed
<1>10. \A name \in DOMAIN InstructionsSAtoSBI : WellFormed(InstructionsSAtoSBI[name], TotalOf(name), NamesOf(name))
    BY <1>3, <1>4, <1>5, <1>7, <1>6
<1> QED BY <1>8, <1>9, <1>10 DEF Group

LEMMA GroupSBIMtoSRIM == Group(InstructionsSBIMtoSRIM)
<1>1. /\ {"rA", "rB", "Immediate", "UF"} \subseteq Names
      /\ {"rA", "rB", "MemoryFlags"} \subseteq Names /\ {"rA", "rB", "rC", "UF"} \subseteq Names
      /\ {"rA", "rB"} \subseteq Names /\ {"rA"} \subseteq Names
    BY DEF Names, FieldNames
<1>2. /\ 0 \in Small /\ 1 \in Small /\ 6 \in Small /\ 40 \in Small /\ 41 \in Small /\ 42 \in Small
      /\ 56 \in Small /\ 57 \in Small /\ 58 \in Small /\ 59 \in Small /\ 82 \in Small
      /\ 2567 \in Small /\ 2568 \in Small /\ 2571 \in Small
    BY SMT DEF Small
<1>3. /\ WellFormed(WithImmediate(6, 1), 27, Names) /\ WellFormed(ThreeRegisters(6, 0), 27, Names)
      /\ WellFormed(Extend(2567), 27, Names) /\ WellFormed(Extend(2568), 27, Names)
      /\ WellFormed(Flags(2571), 18, Names)
      /\ WellFormed(ThreeRegisters(40, 0), 27, {"rA", "rB", "rC", "UF"})
      /\ WellFormed(WithImmediate(56, 0), 27, {"rA", "rB", "Immediate", "UF"})
      /\ WellFormed(WithImmediate(58, 0), 27, Names)
      /\ WellFormed(ThreeRegisters(42, 0), 27, Names) /\ WellFormed(SetProtection(82), 27, Names)
      /\ WellFormed(ThreeRegisters(41, 0), 27, {"rA", "rB", "rC", "UF"})
      /\ WellFormed(WithImmediate(57, 0), 27, {"rA", "rB", "Immediate", "UF"})
      /\ WellFormed(WithImmediate(59, 0), 27, Names)
    BY <1>2, <1>1, ExtendIs, FlagsIs, SetProtectionIs, ThreeRegistersIs, WithImmediateIs, SMT
<1>4. /\ InstructionsSBIMtoSRIM.SBIM = WithImmediate(6, 1)
      /\ InstructionsSBIMtoSRIM.SBM = ThreeRegisters(6, 0)
      /\ InstructionsSBIMtoSRIM.SES = Extend(2567) /\ InstructionsSBIMtoSRIM.SEW = Extend(2568)
      /\ InstructionsSBIMtoSRIM.SF = Flags(2571)
      /\ InstructionsSBIMtoSRIM.SL = ThreeRegisters(40, 0)
      /\ InstructionsSBIMtoSRIM.SLI = WithImmediate(56, 0)
      /\ InstructionsSBIMtoSRIM.SLIM = WithImmediate(58, 0)
      /\ InstructionsSBIMtoSRIM.SLM = ThreeRegisters(42, 0)
      /\ InstructionsSBIMtoSRIM.SMP = SetProtection(82)
      /\ InstructionsSBIMtoSRIM.SR = ThreeRegisters(41, 0)
      /\ InstructionsSBIMtoSRIM.SRI = WithImmediate(57, 0)
      /\ InstructionsSBIMtoSRIM.SRIM = WithImmediate(59, 0)
    BY SMT DEF InstructionsSBIMtoSRIM
<1>5. /\ TotalOf("SBIM") = 27 /\ TotalOf("SBM") = 27 /\ TotalOf("SES") = 27 /\ TotalOf("SEW") = 27
      /\ TotalOf("SF") = 18 /\ TotalOf("SL") = 27 /\ TotalOf("SLI") = 27 /\ TotalOf("SLIM") = 27
      /\ TotalOf("SLM") = 27 /\ TotalOf("SMP") = 27 /\ TotalOf("SR") = 27 /\ TotalOf("SRI") = 27
      /\ TotalOf("SRIM") = 27
    BY DEF TotalOf, Narrow
<1>6. /\ NamesOf("SBIM") = Names /\ NamesOf("SBM") = Names /\ NamesOf("SES") = Names
       /\ NamesOf("SEW") = Names /\ NamesOf("SF") = Names
       /\ NamesOf("SL") = {"rA", "rB", "rC", "UF"}
       /\ NamesOf("SLI") = {"rA", "rB", "Immediate", "UF"} /\ NamesOf("SLIM") = Names
       /\ NamesOf("SLM") = Names /\ NamesOf("SMP") = Names
       /\ NamesOf("SR") = {"rA", "rB", "rC", "UF"}
       /\ NamesOf("SRI") = {"rA", "rB", "Immediate", "UF"} /\ NamesOf("SRIM") = Names
    BY DEF NamesOf, DrawnThree, DrawnWith, DrawnMove
<1>7. DOMAIN InstructionsSBIMtoSRIM =
        {"SBIM", "SBM", "SES", "SEW", "SF", "SL", "SLI", "SLIM", "SLM", "SMP", "SR", "SRI", "SRIM"}
    BY DEF InstructionsSBIMtoSRIM
<1>8. \A name \in DOMAIN InstructionsSBIMtoSRIM : name \in DOMAIN Conditions => name = "SL"
    BY <1>7 DEF Conditions
<1>9. \A name \in DOMAIN InstructionsSBIMtoSRIM : name \notin Unnamed
    BY <1>7 DEF Unnamed
<1>10. \A name \in DOMAIN InstructionsSBIMtoSRIM : WellFormed(InstructionsSBIMtoSRIM[name], TotalOf(name), NamesOf(name))
    BY <1>3, <1>4, <1>5, <1>7, <1>6
<1> QED BY <1>8, <1>9, <1>10 DEF Group

LEMMA GroupSRMtoZEW == Group(InstructionsSRMtoZEW)
<1>1. /\ {"rA", "rB", "RegCount", "AdjustRb", "MemOffset"} \subseteq Names
      /\ {"rA", "rB", "rC", "UF"} \subseteq Names /\ {"rA", "rB"} \subseteq Names
    BY DEF Names, FieldNames
<1>2. /\ 0 \in Small /\ 1 \in Small /\ 28 \in Small /\ 30 \in Small /\ 43 \in Small /\ 88 \in Small
      /\ 89 \in Small /\ 90 \in Small /\ 2569 \in Small /\ 2570 \in Small /\ 163968 \in Small
    BY SMT DEF Small
<1>3. /\ WellFormed(ThreeRegisters(43, 0), 27, Names)
      /\ WellFormed(Store(88), 54, {"rA", "rB", "RegCount", "AdjustRb", "MemOffset"})
      /\ WellFormed(Store(90), 54, {"rA", "rB", "RegCount", "AdjustRb", "MemOffset"})
      /\ WellFormed(Store(89), 54, Names) /\ WellFormed(Plain(18, 163968), 18, Names)
      /\ WellFormed(ThreeRegisters(28, 0), 27, {"rA", "rB", "rC", "UF"})
      /\ WellFormed(WithImmediate(28, 1), 27, {"rA", "rB", "Immediate", "UF"})
      /\ WellFormed(ThreeRegisters(30, 0), 27, Names) /\ WellFormed(Extend(2569), 27, Names)
      /\ WellFormed(Extend(2570), 27, Names)
    BY <1>2, <1>1, ExtendIs, PlainIs, StoreIs, ThreeRegistersIs, WithImmediateIs, SMT
<1>4. /\ InstructionsSRMtoZEW.SRM = ThreeRegisters(43, 0) /\ InstructionsSRMtoZEW.STS = Store(88)
      /\ InstructionsSRMtoZEW.STT = Store(90) /\ InstructionsSRMtoZEW.STW = Store(89)
      /\ InstructionsSRMtoZEW.WT = Plain(18, 163968)
      /\ InstructionsSRMtoZEW.XR = ThreeRegisters(28, 0)
      /\ InstructionsSRMtoZEW.XRI = WithImmediate(28, 1)
      /\ InstructionsSRMtoZEW.XRM = ThreeRegisters(30, 0)
      /\ InstructionsSRMtoZEW.ZES = Extend(2569) /\ InstructionsSRMtoZEW.ZEW = Extend(2570)
    BY SMT DEF InstructionsSRMtoZEW
<1>5. /\ TotalOf("SRM") = 27 /\ TotalOf("STS") = 54 /\ TotalOf("STT") = 54 /\ TotalOf("STW") = 54
      /\ TotalOf("WT") = 18 /\ TotalOf("XR") = 27 /\ TotalOf("XRI") = 27 /\ TotalOf("XRM") = 27
      /\ TotalOf("ZES") = 27 /\ TotalOf("ZEW") = 27
    BY DEF TotalOf, Narrow
<1>6. /\ NamesOf("SRM") = Names
       /\ NamesOf("STS") = {"rA", "rB", "RegCount", "AdjustRb", "MemOffset"}
       /\ NamesOf("STT") = {"rA", "rB", "RegCount", "AdjustRb", "MemOffset"}
       /\ NamesOf("STW") = Names /\ NamesOf("WT") = Names
       /\ NamesOf("XR") = {"rA", "rB", "rC", "UF"}
       /\ NamesOf("XRI") = {"rA", "rB", "Immediate", "UF"} /\ NamesOf("XRM") = Names
       /\ NamesOf("ZES") = Names /\ NamesOf("ZEW") = Names
    BY DEF NamesOf, DrawnThree, DrawnWith, DrawnMove
<1>7. DOMAIN InstructionsSRMtoZEW =
        {"SRM", "STS", "STT", "STW", "WT", "XR", "XRI", "XRM", "ZES", "ZEW"}
    BY DEF InstructionsSRMtoZEW
<1>8. \A name \in DOMAIN InstructionsSRMtoZEW : name \in DOMAIN Conditions => name = "SL"
    BY <1>7 DEF Conditions
<1>9. \A name \in DOMAIN InstructionsSRMtoZEW : name \notin Unnamed
    BY <1>7 DEF Unnamed
<1>10. \A name \in DOMAIN InstructionsSRMtoZEW : WellFormed(InstructionsSRMtoZEW[name], TotalOf(name), NamesOf(name))
    BY <1>3, <1>4, <1>5, <1>7, <1>6
<1> QED BY <1>8, <1>9, <1>10 DEF Group

LEMMA Merged ==
    ASSUME NEW f, NEW g
    PROVE  /\ DOMAIN Over(f, g) = (DOMAIN f) \cup DOMAIN g
           /\ \A x \in DOMAIN f : Over(f, g)[x] = f[x]
           /\ \A x \in (DOMAIN g) \ DOMAIN f : Over(f, g)[x] = g[x]
BY DEF Over

LEMMA MergedGroup ==
    ASSUME NEW f, NEW g, Group(f), Group(g)
    PROVE  Group(Over(f, g))
<1> DEFINE h == Over(f, g)
<1>1. /\ DOMAIN h = (DOMAIN f) \cup DOMAIN g
      /\ \A x \in DOMAIN f : h[x] = f[x]
      /\ \A x \in (DOMAIN g) \ DOMAIN f : h[x] = g[x]
    BY Merged
<1> HIDE DEF h
<1>2. ASSUME NEW x \in DOMAIN h PROVE (x \in DOMAIN f /\ h[x] = f[x]) \/ (x \in DOMAIN g /\ h[x] = g[x])
    BY <1>1
<1>3. Group(h)
    BY <1>2 DEF Group
<1> QED BY <1>3 DEF h

LEMMA InstructionsAre ==
    /\ Group(Instructions)
    /\ DOMAIN InstructionsA \subseteq DOMAIN Instructions
    /\ DOMAIN InstructionsBC \subseteq DOMAIN Instructions
    /\ DOMAIN InstructionsDE \subseteq DOMAIN Instructions
    /\ DOMAIN InstructionsFtoL \subseteq DOMAIN Instructions
    /\ DOMAIN InstructionsMD \subseteq DOMAIN Instructions
    /\ DOMAIN InstructionsMHtoMU \subseteq DOMAIN Instructions
    /\ DOMAIN InstructionsNO \subseteq DOMAIN Instructions
    /\ DOMAIN InstructionsR \subseteq DOMAIN Instructions
    /\ DOMAIN InstructionsSAtoSBI \subseteq DOMAIN Instructions
    /\ DOMAIN InstructionsSBIMtoSRIM \subseteq DOMAIN Instructions
    /\ DOMAIN InstructionsSRMtoZEW \subseteq DOMAIN Instructions
<1> DEFINE f1 == InstructionsSRMtoZEW
           f2 == Over(InstructionsSBIMtoSRIM, f1)
           f3 == Over(InstructionsSAtoSBI, f2)
           f4 == Over(InstructionsR, f3)
           f5 == Over(InstructionsNO, f4)
           f6 == Over(InstructionsMHtoMU, f5)
           f7 == Over(InstructionsMD, f6)
           f8 == Over(InstructionsFtoL, f7)
           f9 == Over(InstructionsDE, f8)
           f10 == Over(InstructionsBC, f9)
           f11 == Over(InstructionsA, f10)
<1>1. Instructions = f11
    BY DEF Instructions
<1> HIDE DEF f1, f2, f3, f4, f5, f6, f7, f8, f9, f10, f11
<1>2. Group(f1) /\ DOMAIN InstructionsSRMtoZEW \subseteq DOMAIN f1
    BY GroupSRMtoZEW DEF f1
<1>3. Group(f2) /\ DOMAIN f1 \subseteq DOMAIN f2 /\ DOMAIN InstructionsSBIMtoSRIM \subseteq DOMAIN f2
    <2>1. Group(f1) /\ Group(InstructionsSBIMtoSRIM)
        BY <1>2, GroupSBIMtoSRIM
    <2> QED BY <2>1, Merged, MergedGroup DEF f2
<1>4. Group(f3) /\ DOMAIN f2 \subseteq DOMAIN f3 /\ DOMAIN InstructionsSAtoSBI \subseteq DOMAIN f3
    <2>1. Group(f2) /\ Group(InstructionsSAtoSBI)
        BY <1>3, GroupSAtoSBI
    <2> QED BY <2>1, Merged, MergedGroup DEF f3
<1>5. Group(f4) /\ DOMAIN f3 \subseteq DOMAIN f4 /\ DOMAIN InstructionsR \subseteq DOMAIN f4
    <2>1. Group(f3) /\ Group(InstructionsR)
        BY <1>4, GroupR
    <2> QED BY <2>1, Merged, MergedGroup DEF f4
<1>6. Group(f5) /\ DOMAIN f4 \subseteq DOMAIN f5 /\ DOMAIN InstructionsNO \subseteq DOMAIN f5
    <2>1. Group(f4) /\ Group(InstructionsNO)
        BY <1>5, GroupNO
    <2> QED BY <2>1, Merged, MergedGroup DEF f5
<1>7. Group(f6) /\ DOMAIN f5 \subseteq DOMAIN f6 /\ DOMAIN InstructionsMHtoMU \subseteq DOMAIN f6
    <2>1. Group(f5) /\ Group(InstructionsMHtoMU)
        BY <1>6, GroupMHtoMU
    <2> QED BY <2>1, Merged, MergedGroup DEF f6
<1>8. Group(f7) /\ DOMAIN f6 \subseteq DOMAIN f7 /\ DOMAIN InstructionsMD \subseteq DOMAIN f7
    <2>1. Group(f6) /\ Group(InstructionsMD)
        BY <1>7, GroupMD
    <2> QED BY <2>1, Merged, MergedGroup DEF f7
<1>9. Group(f8) /\ DOMAIN f7 \subseteq DOMAIN f8 /\ DOMAIN InstructionsFtoL \subseteq DOMAIN f8
    <2>1. Group(f7) /\ Group(InstructionsFtoL)
        BY <1>8, GroupFtoL
    <2> QED BY <2>1, Merged, MergedGroup DEF f8
<1>10. Group(f9) /\ DOMAIN f8 \subseteq DOMAIN f9 /\ DOMAIN InstructionsDE \subseteq DOMAIN f9
    <2>1. Group(f8) /\ Group(InstructionsDE)
        BY <1>9, GroupDE
    <2> QED BY <2>1, Merged, MergedGroup DEF f9
<1>11. Group(f10) /\ DOMAIN f9 \subseteq DOMAIN f10 /\ DOMAIN InstructionsBC \subseteq DOMAIN f10
    <2>1. Group(f9) /\ Group(InstructionsBC)
        BY <1>10, GroupBC
    <2> QED BY <2>1, Merged, MergedGroup DEF f10
<1>12. Group(f11) /\ DOMAIN f10 \subseteq DOMAIN f11 /\ DOMAIN InstructionsA \subseteq DOMAIN f11
    <2>1. Group(f10) /\ Group(InstructionsA)
        BY <1>11, GroupA
    <2> QED BY <2>1, Merged, MergedGroup DEF f11
<1> QED BY <1>1, <1>2, <1>3, <1>4, <1>5, <1>6, <1>7, <1>8, <1>9, <1>10, <1>11, <1>12

-----------------------------------------------------------------------------
(* Into hexadecimal.                                                         *)

LEMMA FourBits ==
    ASSUME NEW n \in Nat
    PROVE  n % 4 \in 0 .. 3 /\ n \div 4 \in Nat /\ n = 4 * (n \div 4) + (n % 4)
BY SMT

LEMMA ChunksAre ==
    ASSUME NEW bits \in Seq(Bit)
    PROVE  /\ Chunks(bits) \in Seq(Seq(Bit))
           /\ Len(Chunks(bits)) = 1 + Len(bits) \div 4
<1> DEFINE n == Len(bits)
           first == n % 4
           q == n \div 4
           head == SubSeq(bits, 1, first)
           tail == [i \in 1 .. q |-> SubSeq(bits, first + 4 * i - 3, first + 4 * i)]
<1>1. n \in Nat /\ first \in 0 .. 3 /\ q \in Nat /\ n = 4 * q + first
    <2>1. n \in Nat
        OBVIOUS
    <2> QED BY <2>1, FourBits
<1>2. Chunks(bits) = <<head>> \o tail
    BY DEF Chunks
<1> HIDE DEF n, first, q
<1>3. head \in Seq(Bit)
    <2>1. 1 \in 1 .. Len(bits) + 1 /\ first \in 1 - 1 .. Len(bits)
        BY <1>1 DEF n
    <2> QED BY <2>1, SubSeqProperties
<1>4. ASSUME NEW i \in 1 .. q PROVE SubSeq(bits, first + 4 * i - 3, first + 4 * i) \in Seq(Bit)
    <2> DEFINE l == first + 4 * i - 3
               m == first + 4 * i
    <2>1. l \in 1 .. Len(bits) + 1 /\ m \in l - 1 .. Len(bits)
        BY <1>1 DEF n
    <2> HIDE DEF l, m
    <2>2. SubSeq(bits, l, m) \in Seq(Bit)
        BY <2>1, SubSeqProperties
    <2> QED BY <2>2 DEF l, m
<1>5. tail \in [1 .. q -> Seq(Bit)]
    BY <1>4
<1> HIDE DEF head, tail
<1>6. tail \in Seq(Seq(Bit)) /\ Len(tail) = q
    BY <1>1, <1>5
<1> DEFINE one == <<head>>
<1>7. one \in Seq(Seq(Bit)) /\ Len(one) = 1
    BY <1>3
<1> HIDE DEF one
<1>8. one \o tail \in Seq(Seq(Bit)) /\ Len(one \o tail) = 1 + q
    BY <1>6, <1>7, ConcatProperties
<1> QED BY <1>2, <1>8 DEF one, q, n

LEMMA Bin2HexIs ==
    ASSUME NEW bits \in Seq(Bit)
    PROVE  /\ Len(bits) \in {54, 27, 17, 18} =>
                /\ Bin2Hex(bits).result = "code"
                /\ Len(Bin2Hex(bits).hex) = 1 + Len(bits) \div 4
           /\ Len(bits) \notin {54, 27, 17, 18} => Bin2Hex(bits) = Message
<1> DEFINE chunks == Chunks(bits)
<1>1. chunks \in Seq(Seq(Bit)) /\ DOMAIN chunks = 1 .. 1 + Len(bits) \div 4
    BY ChunksAre, LenProperties
<1>2. Bin2Hex(bits) =
        IF Len(bits) \notin {54, 27, 17, 18} THEN Message
        ELSE IF \E i \in DOMAIN chunks : ~ Readable(chunks[i]) THEN Raises
        ELSE Code([i \in DOMAIN chunks |-> Number(chunks[i])])
    BY DEF Bin2Hex
<1> HIDE DEF chunks
<1>3. ASSUME NEW i \in DOMAIN chunks PROVE Readable(chunks[i])
    <2>1. chunks[i] \in Seq(Bit)
        BY <1>1
    <2>2. \A j \in DOMAIN chunks[i] : chunks[i][j] \in Bit
        BY <2>1
    <2>3. 0 # LetterB /\ 1 # LetterB
        BY DEF LetterB
    <2> QED BY <2>2, <2>3 DEF Readable, Bit
<1> DEFINE hex == [i \in DOMAIN chunks |-> Number(chunks[i])]
<1>4. Len(hex) = 1 + Len(bits) \div 4
    <2> DEFINE k == 1 + Len(bits) \div 4
               S == {Number(chunks[i]) : i \in 1 .. k}
    <2>1. k \in Nat
        <3>1. Len(bits) \in Nat
            OBVIOUS
        <3> QED BY <3>1, FourBits
    <2> HIDE DEF k
    <2>2. hex \in [1 .. k -> S]
        BY <1>1 DEF k
    <2> HIDE DEF hex, S
    <2>3. hex \in Seq(S) /\ Len(hex) = k
        BY <2>1, <2>2
    <2> QED BY <2>3 DEF k
<1> HIDE DEF hex
<1>5. Code(hex).result = "code" /\ Code(hex).hex = hex
    BY DEF Code
<1>6. Len(bits) \in {54, 27, 17, 18} => Bin2Hex(bits) = Code(hex)
    BY <1>2, <1>3 DEF hex
<1>7. Len(bits) \notin {54, 27, 17, 18} => Bin2Hex(bits) = Message
    BY <1>2
<1> QED BY <1>4, <1>5, <1>6, <1>7

-----------------------------------------------------------------------------
(* Assembling.                                                               *)

\* The instructions of which the bits are no number of words that Bin2Hex knows.
LEMMA Lengths ==
    \A name \in DOMAIN Instructions : name \notin Unnamed =>
        /\ TotalOf(name) \in Nat
        /\ TotalOf(name) \in {54, 27, 17, 18} <=> name \notin NeverCode
BY DEF TotalOf, Narrow, NeverCode, Unnamed

\* The bits that an instruction is assembled of.
LEMMA AssembledFrom ==
    ASSUME NEW name \in DOMAIN Instructions, Instructions[name] \in Seq(Parts),
           NEW args, \A i \in DOMAIN Instructions[name] : Takes(Instructions[name][i], args)
    PROVE  Assemble(name, args) = Bin2Hex(BitsOfLayout(Instructions[name], args))
<1> DEFINE layout == Instructions[name]
<1> HIDE DEF layout
<1>1. ASSUME NEW i \in DOMAIN layout
      PROVE  ~(\/ layout[i].kind = "unbound"
               \/ layout[i].kind = "condition" /\ Shadowed(args.Condition))
    <2>1. layout[i] \in Parts
        BY DEF layout
    <2>2. layout[i].kind \in Kinds
        BY <2>1, PartsAre
    <2>3. Takes(layout[i], args)
        BY DEF layout
    <2> QED BY <2>2, <2>3 DEF Kinds, Takes
<1> QED BY <1>1 DEF Assemble, BitsOfLayout, layout

\* An instruction that gets what its parts take.
LEMMA AssembleIs ==
    ASSUME NEW name \in DOMAIN Instructions, name \notin Unnamed,
           NEW args, \A i \in DOMAIN Instructions[name] : Takes(Instructions[name][i], args)
    PROVE  /\ name \notin NeverCode =>
                /\ Assemble(name, args).result = "code"
                /\ Len(Assemble(name, args).hex) = 1 + TotalOf(name) \div 4
           /\ name \in NeverCode => Assemble(name, args) = Message
<1> DEFINE layout == Instructions[name]
           total == TotalOf(name)
           bits == BitsOfLayout(layout, args)
<1>1. Sound(layout, total)
    BY InstructionsAre DEF Group, WellFormed
<1>2. total \in Nat /\ (total \in {54, 27, 17, 18} <=> name \notin NeverCode)
    BY Lengths
<1>3. layout \in Seq(Parts)
    BY <1>1 DEF Sound
<1> HIDE DEF layout, total
<1>4. bits \in Seq(Bit) /\ Len(bits) = total
    <2>1. \A i \in DOMAIN layout : Takes(layout[i], args)
        BY DEF layout
    <2> QED BY <1>1, <1>2, <2>1, LayoutIs
<1>5. Assemble(name, args) = Bin2Hex(bits)
    BY <1>3, AssembledFrom DEF layout
<1> HIDE DEF bits
<1> QED BY <1>2, <1>4, <1>5, Bin2HexIs DEF total

\* The loads of more than one register, whose parameter has another name.
LEMMA UnnamedRaise ==
    ASSUME NEW name \in DOMAIN Instructions, name \in Unnamed, NEW args
    PROVE  Assemble(name, args) = Raises
<1>1. PICK i \in DOMAIN Instructions[name] : Instructions[name][i].kind = "unbound"
    BY InstructionsAre DEF Group
<1> QED BY <1>1 DEF Assemble

\* A condition whose constant is replaced.
LEMMA ShadowedRaise ==
    ASSUME NEW name, NEW args,
           NEW i \in DOMAIN Instructions[name], Instructions[name][i].kind = "condition",
           Shadowed(args.Condition)
    PROVE  Assemble(name, args) = Raises
BY DEF Assemble

LEMMA OnlySLShadowed == \A c \in DOMAIN Conditions : Shadowed(c) <=> c = "SL"
<1>1. \A c \in DOMAIN Conditions : Shadowed(c) => c = "SL"
    BY InstructionsAre DEF Group, Shadowed
<1>2. "SL" \in DOMAIN InstructionsSBIMtoSRIM
    BY DEF InstructionsSBIMtoSRIM
<1>3. Shadowed("SL")
    BY <1>2, InstructionsAre DEF Shadowed
<1> QED BY <1>1, <1>3

-----------------------------------------------------------------------------
(* The arguments of a call.                                                  *)

Free(layout, i) == layout[i].kind # "fixed"

\* What one part, and what the first n parts make of the arguments.
Gains(part, S) ==
    IF part.kind = "fixed" THEN S
    ELSE {Over([name \in {part.name} |-> value], args) : value \in Fitting(part), args \in S}
Collects(g, layout, n) ==
    g = [i \in 0 .. n |-> IF i = 0 THEN {<<>>} ELSE Gains(layout[i], g[i - 1])]

LEMMA CollectsExists ==
    ASSUME NEW layout PROVE \A n \in Nat : \E g : Collects(g, layout, n)
<1> DEFINE T == {n \in Nat : \E g : Collects(g, layout, n)}
<1>1. 0 \in T
    <2> DEFINE g == [i \in 0 .. 0 |-> {<<>>}]
    <2>1. g = [i \in 0 .. 0 |-> IF i = 0 THEN {<<>>} ELSE Gains(layout[i], g[i - 1])]
        OBVIOUS
    <2> HIDE DEF g
    <2> QED BY <2>1 DEF Collects
<1>2. ASSUME NEW n \in Nat, n \in T PROVE n + 1 \in T
    <2>1. PICK g : Collects(g, layout, n)
        BY <1>2
    <2>2. g = [i \in 0 .. n |-> IF i = 0 THEN {<<>>} ELSE Gains(layout[i], g[i - 1])]
        BY <2>1 DEF Collects
    <2> DEFINE h == [i \in 0 .. n + 1 |-> IF i <= n THEN g[i] ELSE Gains(layout[n + 1], g[n])]
    <2>3. ASSUME NEW i \in 0 .. n + 1
          PROVE  h[i] = IF i = 0 THEN {<<>>} ELSE Gains(layout[i], h[i - 1])
        <3>1. CASE i = n + 1
            <4>1. h[i] = Gains(layout[n + 1], g[n]) /\ i - 1 = n /\ n \in 0 .. n + 1 /\ n <= n /\ i # 0
                BY <3>1
            <4>2. h[n] = g[n]
                BY <4>1
            <4> HIDE DEF h
            <4> QED BY <3>1, <4>1, <4>2
        <3>2. CASE i \in 0 .. n
            <4>1. h[i] = g[i] /\ (i # 0 => h[i - 1] = g[i - 1])
                BY <3>2
            <4> HIDE DEF h
            <4> QED BY <2>2, <3>2, <4>1
        <3>3. i = n + 1 \/ i \in 0 .. n
            OBVIOUS
        <3> QED BY <3>1, <3>2, <3>3
    <2>4. h = [i \in 0 .. n + 1 |-> h[i]]
        OBVIOUS
    <2> HIDE DEF h
    <2>5. h = [i \in 0 .. n + 1 |-> IF i = 0 THEN {<<>>} ELSE Gains(layout[i], h[i - 1])]
        BY <2>3, <2>4
    <2>6. Collects(h, layout, n + 1)
        BY <2>5 DEF Collects
    <2> QED BY <2>6
<1> HIDE DEF T
<1>3. Nat \subseteq T
    BY <1>1, <1>2, NaturalInduction
<1> QED BY <1>3 DEF T

\* The arguments are those of the parts that are not fixed, each with a value that fits it.
LEMMA ArgumentsAre ==
    ASSUME NEW layout \in Seq(Parts), Named(layout), NEW args \in Arguments(layout)
    PROVE  /\ \A i \in 1 .. Len(layout) : Free(layout, i) =>
                layout[i].name \in DOMAIN args /\ args[layout[i].name] \in Fitting(layout[i])
           /\ \A x \in DOMAIN args : \E i \in 1 .. Len(layout) : Free(layout, i) /\ layout[i].name = x
<1> DEFINE n == Len(layout)
           g == CHOOSE g : Collects(g, layout, n)
<1>1. n \in Nat
    OBVIOUS
<1>2. Collects(g, layout, n)
    BY <1>1, CollectsExists
<1>3. Arguments(layout) = g[n]
    BY DEF Arguments, Collects, Gains
<1> HIDE DEF g
<1> DEFINE Right(a, k) ==
             /\ \A i \in 1 .. k : Free(layout, i) =>
                  layout[i].name \in DOMAIN a /\ a[layout[i].name] \in Fitting(layout[i])
             /\ \A x \in DOMAIN a : \E i \in 1 .. k : Free(layout, i) /\ layout[i].name = x
           T == {k \in Nat : k \in 0 .. n => \A a \in g[k] : Right(a, k)}
<1>4. 0 \in T
    <2>1. 0 \in 0 .. n /\ g[0] = {<<>>}
        BY <1>1, <1>2 DEF Collects
    <2>2. DOMAIN <<>> = {}
        OBVIOUS
    <2>3. \A a \in g[0] : Right(a, 0)
        BY <2>1, <2>2
    <2> HIDE DEF Right
    <2> QED BY <2>3
<1>5. ASSUME NEW k \in Nat, k \in T PROVE k + 1 \in T
    <2> HIDE DEF Right
    <2> SUFFICES ASSUME k + 1 \in 0 .. n, NEW a \in g[k + 1] PROVE Right(a, k + 1)
        OBVIOUS
    <2> DEFINE p == layout[k + 1]
    <2>1. k \in 0 .. n /\ k + 1 # 0 /\ (k + 1) - 1 = k /\ k + 1 \in 1 .. Len(layout)
        BY <1>1
    <2>2. g[k + 1] = Gains(p, g[k])
        BY <1>2, <2>1 DEF Collects
    <2>3. \A b \in g[k] : Right(b, k)
        BY <1>5, <2>1
    <2> HIDE DEF n, p
    <2>4. \A i \in 1 .. k + 1 : i \in 1 .. k \/ i = k + 1
        OBVIOUS
    <2>5. \A i \in 1 .. k : i \in 1 .. k + 1 /\ i # k + 1 /\ i \in 1 .. Len(layout)
        BY <2>1 DEF n
    <2>6. k + 1 \in 1 .. k + 1
        OBVIOUS
    <2>7. CASE p.kind = "fixed"
        <3>1. a \in g[k] /\ ~ Free(layout, k + 1)
            BY <2>2, <2>7 DEF Free, Gains, p
        <3>2. /\ \A i \in 1 .. k : Free(layout, i) =>
                   layout[i].name \in DOMAIN a /\ a[layout[i].name] \in Fitting(layout[i])
              /\ \A x \in DOMAIN a : \E i \in 1 .. k : Free(layout, i) /\ layout[i].name = x
            BY <2>3, <3>1 DEF Right
        <3> QED BY <2>4, <2>5, <3>1, <3>2 DEF Right
    <2>8. CASE p.kind # "fixed"
        <3>1. PICK value \in Fitting(p), b \in g[k] : a = Over([name \in {p.name} |-> value], b)
            BY <2>2, <2>8 DEF Gains
        <3> DEFINE f == [name \in {p.name} |-> value]
        <3>2. DOMAIN f = {p.name} /\ f[p.name] = value
            OBVIOUS
        <3>9. a = Over(f, b)
            BY <3>1
        <3> HIDE DEF f
        <3>3. /\ DOMAIN a = {p.name} \cup DOMAIN b
              /\ a[p.name] = value
              /\ \A x \in DOMAIN b : x # p.name => a[x] = b[x]
            <4>1. /\ DOMAIN Over(f, b) = (DOMAIN f) \cup DOMAIN b
                  /\ \A x \in DOMAIN f : Over(f, b)[x] = f[x]
                  /\ \A x \in (DOMAIN b) \ DOMAIN f : Over(f, b)[x] = b[x]
                BY Merged
            <4> QED BY <3>2, <3>9, <4>1
        <3>4. /\ \A i \in 1 .. k : Free(layout, i) =>
                   layout[i].name \in DOMAIN b /\ b[layout[i].name] \in Fitting(layout[i])
              /\ \A x \in DOMAIN b : \E i \in 1 .. k : Free(layout, i) /\ layout[i].name = x
            BY <2>3 DEF Right
        <3>5. ASSUME NEW i \in 1 .. k, Free(layout, i)
              PROVE  layout[i].name # p.name
            BY <2>1, <2>5, <2>8, <3>5 DEF Named, Free, p
        <3>6. ASSUME NEW i \in 1 .. k + 1, Free(layout, i)
              PROVE  layout[i].name \in DOMAIN a /\ a[layout[i].name] \in Fitting(layout[i])
            <4>1. CASE i = k + 1
                BY <3>1, <3>3, <4>1 DEF p
            <4>2. CASE i \in 1 .. k
                BY <3>3, <3>4, <3>5, <3>6, <4>2
            <4> QED BY <2>4, <4>1, <4>2
        <3>7. ASSUME NEW x \in DOMAIN a
              PROVE  \E i \in 1 .. k + 1 : Free(layout, i) /\ layout[i].name = x
            <4>1. CASE x = p.name
                <5>1. Free(layout, k + 1) /\ layout[k + 1].name = x
                    BY <2>8, <4>1 DEF Free, p
                <5> QED BY <2>6, <5>1
            <4>2. CASE x \in DOMAIN b
                BY <2>5, <3>4, <4>2
            <4> QED BY <3>3, <4>1, <4>2
        <3> QED BY <3>6, <3>7 DEF Right
    <2> QED BY <2>7, <2>8
<1> HIDE DEF T
<1>6. Nat \subseteq T
    BY <1>4, <1>5, NaturalInduction
<1>7. \A a \in g[n] : Right(a, n)
    BY <1>1, <1>6 DEF T
<1> QED BY <1>1, <1>3, <1>7

\* What fits in a part, it takes, but for the condition that is none any more.
LEMMA FittingTaken ==
    ASSUME NEW part \in Parts, NEW args,
           part.kind # "fixed" => args[part.name] \in Fitting(part),
           part.kind = "condition" => args[part.name] # "SL"
    PROVE  Takes(part, args)
<1> DEFINE w == part.width
           n == args[part.name]
<1>1. w \in 1 .. 27 /\ part.kind \in Kinds /\ (part.kind = "condition" <=> part.name = "Condition")
    BY PartsAre
<1>2. /\ Power[w] = 2 * Power[w - 1] /\ Power[w] \in Nat \ {0} /\ Power[w - 1] \in Nat \ {0}
      /\ Power[w] <= Power[30] /\ Power[30] \in Nat /\ Power[30] = 2^30 /\ Power[w] = 2^w
    <2> HIDE DEF w
    <2>1. w - 1 \in 0 .. 29 /\ w - 1 \in 0 .. 30 /\ w \in 0 .. 30 /\ 30 \in 0 .. 30 /\ (w - 1) + 1 = w
        BY <1>1
    <2>2. Power[(w - 1) + 1] = 2 * Power[w - 1]
        BY <2>1, PowerTable
    <2>3. Power[w] \in Nat \ {0} /\ Power[w - 1] \in Nat \ {0} /\ Power[w] = 2^w
        BY <2>1, PowerTable
    <2>4. Power[30] \in Nat /\ Power[30] = 2^30
        BY <2>1, PowerTable
    <2>5. Power[w] <= Power[30]
        BY <2>1, PowerTable
    <2> QED BY <2>1, <2>2, <2>3, <2>4, <2>5
<1>3. CASE part.kind = "condition"
    <2>1. n \in DOMAIN Conditions
        BY <1>3 DEF Fitting
    <2>2. n = args.Condition /\ n # "SL"
        BY <1>1, <1>3
    <2> QED BY <1>3, <2>1, <2>2, OnlySLShadowed DEF Takes
<1>4. CASE part.kind = "signed"
    <2>1. n \in -(2^w \div 2) .. 2^w - 1
        BY <1>4 DEF Fitting
    <2> DEFINE P == Power[w]
               H == Power[w - 1]
    <2>2. n \in -(P \div 2) .. P - 1
        BY <1>2, <2>1
    <2>3. P = 2 * H /\ P \in Nat /\ H \in Nat /\ P <= Power[30] /\ Power[30] \in Nat
        BY <1>2
    <2> HIDE DEF P, H, n
    <2>4. P \div 2 = H
        BY <2>3, SMT
    <2>5. n \in Int /\ -H <= n /\ n < Power[30]
        BY <2>2, <2>3, <2>4
    <2> QED BY <1>2, <1>4, <2>5 DEF Takes, H, n
<1>5. CASE part.kind = "unsigned"
    <2>1. n \in 0 .. 2^w - 1
        BY <1>5 DEF Fitting
    <2>2. n \in 0 .. Power[30] - 1
        <3> DEFINE P == Power[w]
        <3>1. n \in 0 .. P - 1 /\ P <= Power[30] /\ P \in Nat /\ Power[30] \in Nat
            BY <1>2, <2>1
        <3> HIDE DEF P, n
        <3> QED BY <3>1
    <2> QED BY <1>2, <1>5, <2>2 DEF Takes, Small
<1>6. CASE part.kind = "fixed"
    BY <1>6 DEF Takes
<1> QED BY <1>1, <1>3, <1>4, <1>5, <1>6 DEF Kinds

\* Arguments that fit, each part takes, but for the condition that is none any more.
LEMMA FittingTakes ==
    ASSUME NEW layout \in Seq(Parts), Named(layout), NEW args \in Arguments(layout),
           "Condition" \in DOMAIN args => args.Condition # "SL"
    PROVE  \A i \in DOMAIN layout :
             /\ Takes(layout[i], args)
             /\ Free(layout, i) => args[layout[i].name] \in Fitting(layout[i])
<1>1. DOMAIN layout = 1 .. Len(layout) /\ \A i \in DOMAIN layout : layout[i] \in Parts
    OBVIOUS
<1>2. \A i \in DOMAIN layout : Free(layout, i) =>
        layout[i].name \in DOMAIN args /\ args[layout[i].name] \in Fitting(layout[i])
    BY <1>1, ArgumentsAre
<1>3. ASSUME NEW i \in DOMAIN layout PROVE Takes(layout[i], args)
    <2>1. layout[i] \in Parts
        BY <1>1
    <2>2. layout[i].kind = "condition" => layout[i].name = "Condition" /\ layout[i].kind # "fixed"
        BY <2>1, PartsAre
    <2>3. layout[i].kind = "condition" => args[layout[i].name] # "SL"
        BY <1>2, <2>2 DEF Free
    <2>4. layout[i].kind # "fixed" => args[layout[i].name] \in Fitting(layout[i])
        BY <1>2 DEF Free
    <2> QED BY <2>1, <2>3, <2>4, FittingTaken
<1> QED BY <1>2, <1>3

-----------------------------------------------------------------------------
(* Arguments that fit are assembled.                                         *)

\* What a call returned is what assembling it gives, and before the first it is no code.
CallInv ==
    \/ call = NoCall /\ returned = Message
    \/ /\ call.name \in DOMAIN Instructions
       /\ call.args \in Arguments(Instructions[call.name])
       /\ returned = Assemble(call.name, call.args)

LEMMA CallInvHolds == AssemblerSpec => []CallInv
<1>1. InitCall => CallInv
    BY DEF InitCall, CallInv
<1>2. CallInv /\ [NextCall]_callVars => CallInv'
    <2> SUFFICES ASSUME CallInv, [NextCall]_callVars PROVE CallInv'
        OBVIOUS
    <2>1. CASE NextCall
        <3>1. PICK name \in DOMAIN Instructions : \E args \in Arguments(Instructions[name]) : Invoke(name, args)
            BY <2>1 DEF NextCall
        <3>2. PICK args \in Arguments(Instructions[name]) : Invoke(name, args)
            BY <3>1
        <3>3. call'.name = name /\ call'.args = args /\ returned' = Assemble(name, args)
            BY <3>2 DEF Invoke
        <3> QED BY <3>1, <3>2, <3>3 DEF CallInv
    <2>2. CASE UNCHANGED callVars
        BY <2>2 DEF CallInv, callVars
    <2> QED BY <2>1, <2>2
<1> QED BY <1>1, <1>2, PTL DEF AssemblerSpec

\* What comes of one call, of whichever function.
LEMMA FittingAssembles ==
    ASSUME NEW name \in DOMAIN Instructions, NEW args \in Arguments(Instructions[name])
    PROVE  Assemble(name, args).result = "code"
             <=> /\ name \notin NeverCode
                 /\ "Condition" \in DOMAIN args => args.Condition # "SL"
<1> DEFINE layout == Instructions[name]
<1>1. Raises.result # "code" /\ Message.result # "code"
    BY DEF Raises, Message
<1>2. CASE name \in Unnamed
    BY <1>1, <1>2, UnnamedRaise DEF Unnamed, NeverCode
<1>3. CASE name \notin Unnamed
    <2>1. layout \in Seq(Parts) /\ Named(layout)
        BY <1>3, InstructionsAre DEF Group, WellFormed, Sound
    <2>2. args \in Arguments(layout)
        OBVIOUS
    <2>3. DOMAIN layout = 1 .. Len(layout) /\ \A i \in DOMAIN layout : layout[i] \in Parts
        BY <2>1
    <2> HIDE DEF layout
    <2>4. /\ \A i \in DOMAIN layout : Free(layout, i) =>
               layout[i].name \in DOMAIN args /\ args[layout[i].name] \in Fitting(layout[i])
          /\ \A x \in DOMAIN args : \E i \in DOMAIN layout : Free(layout, i) /\ layout[i].name = x
        BY <2>1, <2>2, <2>3, ArgumentsAre
    <2>5. CASE "Condition" \in DOMAIN args /\ args.Condition = "SL"
        <3>1. PICK i \in DOMAIN layout : layout[i].name = "Condition"
            BY <2>4, <2>5
        <3>2. layout[i].kind = "condition"
            BY <2>3, <3>1, PartsAre
        <3>3. Shadowed(args.Condition)
            BY <2>5, OnlySLShadowed DEF Conditions
        <3>4. Assemble(name, args) = Raises
            BY <3>2, <3>3, ShadowedRaise DEF layout
        <3> QED BY <1>1, <2>5, <3>4
    <2>6. CASE "Condition" \in DOMAIN args => args.Condition # "SL"
        <3>1. \A i \in DOMAIN layout : Takes(layout[i], args)
            BY <2>1, <2>2, <2>6, FittingTakes
        <3>2. /\ name \notin NeverCode => Assemble(name, args).result = "code"
              /\ name \in NeverCode => Assemble(name, args) = Message
            BY <1>3, <3>1, AssembleIs DEF layout
        <3> QED BY <1>1, <2>6, <3>2
    <2> QED BY <2>5, <2>6
<1> QED BY <1>2, <1>3

\* Arguments that fit are assembled, whichever they are: every function of
\* cLEMENCy.py returns code for all of them, but the eight that never do, and
\* those on the condition that a function of the same name replaces.
THEOREM EveryFittingCall == AssemblerSpec => []FittingIsAssembled
<1>1. CallInv => FittingIsAssembled
    BY FittingAssembles DEF CallInv, FittingIsAssembled
<1> QED BY <1>1, CallInvHolds, PTL

-----------------------------------------------------------------------------
(* Numbers read back from bits.                                              *)

\* The quotient is the only number with a remainder that is less than the divisor.
LEMMA QuotientUnique ==
    ASSUME NEW n \in Nat, NEW d \in Nat \ {0}, NEW q \in Nat, NEW r \in 0 .. d - 1, n = d * q + r
    PROVE  n \div d = q
<1> DEFINE p == n \div d
           s == n % d
<1>1. p \in Int /\ s \in 0 .. d - 1 /\ n = d * p + s
    OBVIOUS
<1> HIDE DEF p, s
<1>2. d * q + r = d * p + s
    BY <1>1
<1>3. ~ (p < q)
    <2> SUFFICES ASSUME p < q PROVE FALSE
        OBVIOUS
    <2>1. p + 1 <= q
        BY <1>1
    <2>2. d * (p + 1) <= d * q
        BY <1>1, <2>1
    <2>3. d * (p + 1) = d * p + d
        BY <1>1
    <2> DEFINE a == d * p
               b == d * q
    <2>4. a \in Int /\ b \in Int /\ a + d <= b /\ b + r = a + s
        BY <1>1, <1>2, <2>2, <2>3
    <2> HIDE DEF a, b
    <2> QED BY <1>1, <2>4
<1>4. ~ (q < p)
    <2> SUFFICES ASSUME q < p PROVE FALSE
        OBVIOUS
    <2>1. q + 1 <= p
        BY <1>1
    <2>2. d * (q + 1) <= d * p
        BY <1>1, <2>1
    <2>3. d * (q + 1) = d * q + d
        BY <1>1
    <2> DEFINE a == d * p
               b == d * q
    <2>4. a \in Int /\ b \in Int /\ b + d <= a /\ b + r = a + s
        BY <1>1, <1>2, <2>2, <2>3
    <2> HIDE DEF a, b
    <2> QED BY <1>1, <2>4
<1> QED BY <1>1, <1>3, <1>4 DEF p

\* What is left of a number behind a digit, and the digit.
LEMMA DigitAndRest ==
    ASSUME NEW n \in Nat, NEW p \in Nat \ {0}
    PROVE  /\ n \div p \in Nat
           /\ n \div (2 * p) \in Nat
           /\ n \div p = 2 * (n \div (2 * p)) + ((n \div p) % 2)
<1> DEFINE q == n \div p
           r == n % p
           h == q \div 2
           b == q % 2
<1>1. q \in Int /\ r \in 0 .. p - 1 /\ n = p * q + r
    OBVIOUS
<1>2. q \in Nat
    OBVIOUS
<1> HIDE DEF q, r
<1>3. h \in Nat /\ b \in {0, 1} /\ q = 2 * h + b
    BY <1>2
<1> HIDE DEF h, b
<1>4. n = (2 * p) * h + (p * b + r)
    <2>1. p * q = (2 * p) * h + p * b
        BY <1>3
    <2> DEFINE x == p * q
               y == (2 * p) * h
               z == p * b
    <2>2. x \in Int /\ y \in Int /\ z \in Int /\ x = y + z /\ n = x + r
        BY <1>1, <1>2, <1>3, <2>1
    <2> HIDE DEF x, y, z
    <2>3. n = y + (z + r)
        BY <1>1, <2>2
    <2> QED BY <2>3 DEF y, z
<1>5. p * b + r \in 0 .. (2 * p) - 1
    <2>1. p * b \in {0, p}
        BY <1>3
    <2> QED BY <1>1, <2>1
<1>6. n \div (2 * p) = h
    <2> DEFINE d == 2 * p
               s == p * b + r
    <2>1. d \in Nat \ {0} /\ s \in 0 .. d - 1 /\ n = d * h + s
        BY <1>4, <1>5
    <2> HIDE DEF d, s
    <2>2. n \div d = h
        BY <1>3, <2>1, QuotientUnique
    <2> QED BY <2>2 DEF d
<1> QED BY <1>2, <1>3, <1>6 DEF q, b

LEMMA LessThanOne ==
    ASSUME NEW n \in Nat, NEW p \in Nat \ {0}, n < p
    PROVE  n \div p = 0
<1>1. 0 \in Nat /\ n \in 0 .. p - 1 /\ n = p * 0 + n
    OBVIOUS
<1> QED BY <1>1, QuotientUnique

LEMMA SmallIsNat == ASSUME NEW n \in Small PROVE n \in Nat
BY DEF Small

\* The last w digits of a number.
Spells(s, n, w) ==
    /\ s \in Seq(Bit) /\ Len(s) = w
    /\ \A i \in 1 .. w : s[i] = (n \div Power[w - i]) % 2

\* The equation of the recursive function that Number takes.
Counts(g, s) ==
    g = [i \in 0 .. Len(s) |-> CASE i = 0 -> 0
                                 [] i > 0 /\ s[i] = LetterB -> g[i - 1]
                                 [] OTHER -> 2 * g[i - 1] + s[i]]

LEMMA NumberUnfolds ==
    ASSUME NEW s PROVE Number(s) = (CHOOSE g : Counts(g, s))[Len(s)]
BY DEF Number, Counts

LEMMA NumberIs ==
    ASSUME NEW s \in Seq(Bit), NEW h, h[0] = 0, \A i \in 1 .. Len(s) : h[i] = 2 * h[i - 1] + s[i]
    PROVE  Number(s) = h[Len(s)]
<1> DEFINE n == Len(s)
           f == [i \in 0 .. n |-> h[i]]
           g == CHOOSE g : Counts(g, s)
<1>1. n \in Nat /\ \A i \in 1 .. n : s[i] # LetterB
    <2>1. \A i \in 1 .. n : s[i] \in Bit
        OBVIOUS
    <2> QED BY <2>1 DEF Bit, LetterB
<1>2. Counts(f, s)
    <2>1. ASSUME NEW i \in 0 .. n
          PROVE  f[i] = CASE i = 0 -> 0
                          [] i > 0 /\ s[i] = LetterB -> f[i - 1]
                          [] OTHER -> 2 * f[i - 1] + s[i]
        <3>1. CASE i = 0
            <4>1. f[i] = 0
                BY <3>1
            <4> HIDE DEF f
            <4> QED BY <3>1, <4>1
        <3>2. CASE i \in 1 .. n
            <4>1. i - 1 \in 0 .. n /\ i # 0 /\ s[i] # LetterB
                BY <1>1, <3>2
            <4>2. f[i] = h[i] /\ f[i - 1] = h[i - 1]
                BY <4>1
            <4>3. h[i] = 2 * h[i - 1] + s[i]
                BY <3>2
            <4> HIDE DEF f
            <4> QED BY <4>1, <4>2, <4>3
        <3>3. i = 0 \/ i \in 1 .. n
            BY <1>1
        <3> QED BY <3>1, <3>2, <3>3
    <2>2. f = [i \in 0 .. n |-> f[i]]
        OBVIOUS
    <2> HIDE DEF f
    <2>3. f = [i \in 0 .. n |-> CASE i = 0 -> 0
                                 [] i > 0 /\ s[i] = LetterB -> f[i - 1]
                                 [] OTHER -> 2 * f[i - 1] + s[i]]
        BY <2>1, <2>2
    <2> QED BY <2>3 DEF Counts
<1>3. Counts(g, s)
    <2> HIDE DEF f
    <2> QED BY <1>2
<1> HIDE DEF g, f
<1> DEFINE T == {i \in Nat : i \in 0 .. n => g[i] = h[i]}
<1>4. 0 \in T
    BY <1>3 DEF Counts
<1>5. ASSUME NEW i \in Nat, i \in T PROVE i + 1 \in T
    <2> SUFFICES ASSUME i + 1 \in 0 .. n PROVE g[i + 1] = h[i + 1]
        OBVIOUS
    <2>1. i + 1 \in 1 .. n /\ (i + 1) - 1 = i /\ i \in 0 .. n /\ i + 1 # 0 /\ i + 1 > 0
        BY <1>1
    <2>2. g[i + 1] = 2 * g[i] + s[i + 1]
        <3>1. g[i + 1] = CASE i + 1 = 0 -> 0
                           [] i + 1 > 0 /\ s[i + 1] = LetterB -> g[(i + 1) - 1]
                           [] OTHER -> 2 * g[(i + 1) - 1] + s[i + 1]
            BY <1>3 DEF Counts
        <3>2. s[i + 1] # LetterB
            BY <1>1, <2>1
        <3> QED BY <2>1, <3>1, <3>2
    <2>3. h[i + 1] = 2 * h[i] + s[i + 1]
        BY <2>1
    <2>4. g[i] = h[i]
        BY <1>5, <2>1
    <2> QED BY <2>2, <2>3, <2>4
<1> HIDE DEF T
<1>6. Nat \subseteq T
    BY <1>4, <1>5, NaturalInduction
<1>7. g[n] = h[n]
    BY <1>1, <1>6 DEF T
<1>8. Number(s) = g[n]
    BY NumberUnfolds DEF g
<1> QED BY <1>7, <1>8

LEMMA NumberSpelt ==
    ASSUME NEW n \in Nat, NEW w \in 0 .. 30, n < Power[w], NEW s, Spells(s, n, w)
    PROVE  Number(s) = n
<1> DEFINE h == [i \in 0 .. w |-> n \div Power[w - i]]
<1>1. s \in Seq(Bit) /\ Len(s) = w /\ w \in Nat
    BY DEF Spells
<1>2. h[0] = 0
    <2>1. h[0] = n \div Power[w]
        BY <1>1
    <2>2. Power[w] \in Nat \ {0}
        BY PowerTable
    <2> QED BY <2>1, <2>2, LessThanOne
<1>3. ASSUME NEW i \in 1 .. w PROVE h[i] = 2 * h[i - 1] + s[i]
    <2> DEFINE p == Power[w - i]
    <2>1. w - i \in 0 .. 29 /\ w - i \in 0 .. 30 /\ w - (i - 1) = (w - i) + 1 /\ i - 1 \in 0 .. w /\ i \in 0 .. w
        BY <1>1
    <2>2. Power[w - (i - 1)] = 2 * p /\ p \in Nat \ {0}
        BY <2>1, PowerTable
    <2>3. h[i] = n \div p /\ h[i - 1] = n \div (2 * p)
        BY <2>1, <2>2
    <2>4. s[i] = (n \div p) % 2
        BY DEF Spells
    <2> HIDE DEF p, h
    <2>5. n \div p = 2 * (n \div (2 * p)) + ((n \div p) % 2)
        BY <2>2, DigitAndRest
    <2> QED BY <2>3, <2>4, <2>5
<1>4. h[w] = n
    <2>1. w - w = 0 /\ w \in 0 .. w /\ 0 \in 0 .. 30
        BY <1>1
    <2>2. Power[0] = 1
        BY PowerTable, <2>1
    <2>3. h[w] = n \div 1
        BY <2>1, <2>2
    <2> QED BY <2>3
<1> HIDE DEF h
<1> QED BY <1>1, <1>2, <1>3, <1>4, NumberIs

LEMMA DigitsSpell ==
    ASSUME NEW n \in Small PROVE Spells(Digits(n), n, BitLength(n))
<1> DEFINE k == BitLength(n)
<1>1. Digits(n) \in Seq(Bit) /\ Len(Digits(n)) = k /\ k \in 1 .. 30
    BY DigitsAre, BitLengthIs
<1>2. Digits(n) = [i \in 1 .. k |-> (n \div 2^(k - i)) % 2]
    BY DEF Digits
<1> HIDE DEF k
<1>3. ASSUME NEW i \in 1 .. k PROVE Digits(n)[i] = (n \div Power[k - i]) % 2
    <2>1. k - i \in 0 .. 30
        BY <1>1
    <2>2. Power[k - i] = 2^(k - i)
        BY <2>1, PowerTable
    <2> QED BY <1>2, <2>2
<1>4. Spells(Digits(n), n, k)
    BY <1>1, <1>3 DEF Spells
<1> QED BY <1>4 DEF k

LEMMA PaddedSpells ==
    ASSUME NEW n \in Small, NEW w \in 0 .. 30 PROVE Spells(Padded(n, w), n, w)
<1> DEFINE z == Zeros(w)
           d == Digits(n)
           k == BitLength(n)
           s == z \o d
<1>1. z \in Seq(Bit) /\ Len(z) = w /\ \A i \in 1 .. w : z[i] = 0
    BY DEF Zeros, Bit
<1>2. d \in Seq(Bit) /\ Len(d) = k /\ (\A i \in 1 .. k : d[i] = (n \div Power[k - i]) % 2)
    BY DigitsSpell DEF Spells
<1>3. k \in 1 .. 30 /\ n < Power[k] /\ n \in Nat
    BY BitLengthIs, SmallIsNat
<1>4. Padded(n, w) = LastOf(s, w)
    BY DEF Padded, Bin, Small
<1> HIDE DEF z, d, k
<1>5. s \in Seq(Bit) /\ Len(s) = w + k
      /\ (\A i \in 1 .. w : s[i] = z[i]) /\ (\A i \in 1 .. k : s[w + i] = d[i])
    <2>1. s \in Seq(Bit) /\ Len(s) = Len(z) + Len(d)
          /\ \A i \in 1 .. Len(z) + Len(d) : s[i] = IF i <= Len(z) THEN z[i] ELSE d[i - Len(z)]
        BY <1>1, <1>2, ConcatProperties
    <2> HIDE DEF s
    <2>2. ASSUME NEW i \in 1 .. w PROVE s[i] = z[i]
        BY <1>1, <1>2, <1>3, <2>1
    <2>3. ASSUME NEW i \in 1 .. k PROVE s[w + i] = d[i]
        <3>1. w + i \in 1 .. Len(z) + Len(d) /\ ~(w + i <= Len(z)) /\ (w + i) - Len(z) = i
            BY <1>1, <1>2, <1>3
        <3> QED BY <2>1, <3>1
    <2> QED BY <1>1, <1>2, <2>1, <2>2, <2>3
<1> HIDE DEF s
<1>6. \A i \in 1 .. w : LastOf(s, w)[i] = s[k + i]
    <2>1. s \in Seq(Bit \cup {LetterB}) /\ Len(s) >= w /\ w \in Nat
        BY <1>3, <1>5
    <2>2. \A i \in 1 .. w : LastOf(s, w)[i] = s[Len(s) - w + i]
        BY <2>1, LastOfIs
    <2>3. Len(s) - w = k
        <3>1. Len(s) = w + k /\ w \in Nat /\ k \in Nat
            BY <1>3, <1>5
        <3> QED BY <3>1
    <2> QED BY <2>2, <2>3
<1>7. ASSUME NEW i \in 1 .. w PROVE s[k + i] = (n \div Power[w - i]) % 2
    <2>1. w - i \in 0 .. 30 /\ w - i \in Nat
        OBVIOUS
    <2>2. CASE k + i <= w
        <3>1. s[k + i] = 0
            BY <1>1, <1>3, <1>5, <2>2
        <3>2. k <= w - i
            BY <1>3, <2>2
        <3>3. Power[k] <= Power[w - i] /\ Power[w - i] \in Nat \ {0} /\ Power[k] \in Nat
            BY <1>3, <2>1, <3>2, PowerTable
        <3>4. n \div Power[w - i] = 0
            <4> DEFINE p == Power[w - i]
                       q == Power[k]
            <4>1. n < q /\ q <= p /\ p \in Nat \ {0} /\ q \in Nat
                BY <1>3, <3>3
            <4> HIDE DEF p, q
            <4>2. n < p
                BY <1>3, <4>1
            <4>3. n \div p = 0
                BY <1>3, <4>1, <4>2, LessThanOne
            <4> QED BY <4>3 DEF p
        <3>5. 0 % 2 = 0
            OBVIOUS
        <3> QED BY <3>1, <3>4, <3>5
    <2>3. CASE ~(k + i <= w)
        <3> DEFINE j == (k + i) - w
        <3>1. j \in 1 .. k /\ w + j = k + i /\ k - j = w - i
            BY <1>3, <2>3
        <3> HIDE DEF j
        <3> QED BY <1>2, <1>5, <3>1
    <2> QED BY <2>2, <2>3
<1>8. Padded(n, w) \in Seq(Bit) /\ Len(Padded(n, w)) = w
    <2>1. w \in Nat
        OBVIOUS
    <2> QED BY <2>1, PaddedIs
<1> QED BY <1>4, <1>6, <1>7, <1>8 DEF Spells

\* Numbers that are wide enough are read back.
LEMMA NumberPadded ==
    ASSUME NEW n \in Small, NEW w \in 0 .. 30, n < Power[w] PROVE Number(Padded(n, w)) = n
<1>1. n \in Nat
    BY SmallIsNat
<1> QED BY <1>1, PaddedSpells, NumberSpelt

LEMMA NumberDigits ==
    ASSUME NEW n \in Small PROVE Number(Digits(n)) = n
<1>1. n \in Nat /\ BitLength(n) \in 0 .. 30 /\ n < Power[BitLength(n)]
    BY BitLengthIs, SmallIsNat
<1> QED BY <1>1, DigitsSpell, NumberSpelt

-----------------------------------------------------------------------------
(* Where the bits of a layout are.                                           *)

\* What the masks of layouts are made of.
Pattern == Bit \cup {AnyBit}
Shaped(layout) ==
    /\ Len(layout) \in Nat /\ DOMAIN layout = 1 .. Len(layout)
    /\ \A i \in 1 .. Len(layout) : layout[i].width \in 1 .. 27 /\ layout[i].value \in Small
PartMask(part) ==
    IF part.kind = "fixed" THEN Padded(part.value, part.width) ELSE [j \in 1 .. part.width |-> AnyBit]

LEMMA PartMaskIs ==
    ASSUME NEW part, part.width \in 1 .. 27, part.value \in Small
    PROVE  /\ PartMask(part) \in Seq(Pattern) /\ Len(PartMask(part)) = part.width
           /\ \A j \in 1 .. part.width :
                PartMask(part)[j] = IF part.kind = "fixed" THEN (part.value \div Power[part.width - j]) % 2
                                    ELSE AnyBit
<1> DEFINE w == part.width
           n == part.value
           m == PartMask(part)
<1>1. w \in Nat /\ w \in 0 .. 30 /\ n \in Small
    OBVIOUS
<1>2. CASE part.kind = "fixed"
    <2>1. m = Padded(n, w)
        BY <1>2 DEF PartMask
    <2> HIDE DEF m, n, w
    <2>2. Spells(Padded(n, w), n, w)
        BY <1>1, PaddedSpells
    <2>3. m \in Seq(Bit) /\ Len(m) = w /\ \A j \in 1 .. w : m[j] = (n \div Power[w - j]) % 2
        BY <2>1, <2>2 DEF Spells
    <2>4. m \in Seq(Pattern)
        BY <2>3 DEF Pattern
    <2> QED BY <1>2, <2>3, <2>4 DEF m, n, w
<1>3. CASE part.kind # "fixed"
    <2>1. m = [j \in 1 .. w |-> AnyBit]
        BY <1>3 DEF PartMask
    <2> HIDE DEF m, w
    <2>2. m \in Seq(Pattern) /\ Len(m) = w /\ \A j \in 1 .. w : m[j] = AnyBit
        BY <1>1, <2>1 DEF Pattern
    <2> QED BY <1>3, <2>2 DEF m, w
<1> QED BY <1>2, <1>3

LEMMA MaskPlaces ==
    ASSUME NEW layout, Shaped(layout), NEW g, Widths(g, layout)
    PROVE  /\ Mask(layout) \in Seq(Pattern) /\ Len(Mask(layout)) = g[Len(layout)]
           /\ \A i \in 1 .. Len(layout) :
                /\ g[i - 1] \in Nat
                /\ \A j \in 1 .. layout[i].width :
                     /\ g[i - 1] + j \in 1 .. Len(Mask(layout))
                     /\ Mask(layout)[g[i - 1] + j] = PartMask(layout[i])[j]
<1> DEFINE n == Len(layout)
           seqs == [i \in DOMAIN layout |-> PartMask(layout[i])]
           flat == FlattenSeq(seqs)
<1>1. n \in Nat /\ DOMAIN layout = 1 .. n
      /\ \A i \in 1 .. n : layout[i].width \in 1 .. 27 /\ layout[i].value \in Small
    BY DEF Shaped
<1>2. ASSUME NEW i \in 1 .. n
      PROVE  seqs[i] = PartMask(layout[i]) /\ seqs[i] \in Seq(Pattern) /\ Len(seqs[i]) = layout[i].width
    <2>1. seqs[i] = PartMask(layout[i])
        BY <1>1
    <2> HIDE DEF seqs, n
    <2> QED BY <1>1, <2>1, PartMaskIs
<1>3. Mask(layout) = flat
    BY DEF Mask, PartMask
<1>4. seqs \in [1 .. n -> Seq(Pattern)]
    BY <1>1, <1>2
<1> HIDE DEF seqs
<1>5. seqs \in Seq(Seq(Pattern)) /\ Len(seqs) = n
    BY <1>1, <1>4
<1>6. Begins(g, seqs)
    BY <1>2, <1>5 DEF Begins, Widths
<1>7. flat \in Seq(Pattern)
    BY <1>5, FlattenType
<1>8. Len(flat) = g[n] /\ \A i \in 1 .. n : LiesThere(g, seqs, flat, i)
    BY <1>5, <1>6, FlattenPlaces
<1> HIDE DEF flat
<1>9. \A i \in 1 .. n : /\ g[i - 1] \in Nat
                        /\ \A j \in 1 .. layout[i].width : /\ g[i - 1] + j \in 1 .. Len(flat)
                                                           /\ flat[g[i - 1] + j] = PartMask(layout[i])[j]
    BY <1>2, <1>8 DEF LiesThere
<1> QED BY <1>3, <1>7, <1>8, <1>9

LEMMA BitsPlaces ==
    ASSUME NEW layout \in Seq(Parts), NEW g, Widths(g, layout),
           NEW args, \A i \in 1 .. Len(layout) : Takes(layout[i], args)
    PROVE  /\ BitsOfLayout(layout, args) \in Seq(Bit) /\ Len(BitsOfLayout(layout, args)) = g[Len(layout)]
           /\ \A i \in 1 .. Len(layout) :
                /\ g[i - 1] \in Nat
                /\ \A j \in 1 .. layout[i].width :
                     /\ g[i - 1] + j \in 1 .. Len(BitsOfLayout(layout, args))
                     /\ BitsOfLayout(layout, args)[g[i - 1] + j] = PartBits(layout[i], args)[j]
<1> DEFINE n == Len(layout)
           seqs == [i \in DOMAIN layout |-> PartBits(layout[i], args)]
           flat == FlattenSeq(seqs)
<1>1. n \in Nat /\ DOMAIN layout = 1 .. n /\ \A i \in 1 .. n : layout[i] \in Parts
    OBVIOUS
<1>2. ASSUME NEW i \in 1 .. n
      PROVE  seqs[i] = PartBits(layout[i], args) /\ seqs[i] \in Seq(Bit) /\ Len(seqs[i]) = layout[i].width
    <2>1. seqs[i] = PartBits(layout[i], args)
        BY <1>1
    <2> HIDE DEF seqs
    <2> QED BY <1>1, <2>1, PartIs
<1>3. BitsOfLayout(layout, args) = flat
    BY DEF BitsOfLayout
<1>4. seqs \in [1 .. n -> Seq(Bit)]
    BY <1>1, <1>2
<1> HIDE DEF seqs
<1>5. seqs \in Seq(Seq(Bit)) /\ Len(seqs) = n
    BY <1>1, <1>4
<1>6. Begins(g, seqs)
    BY <1>2, <1>5 DEF Begins, Widths
<1>7. flat \in Seq(Bit)
    BY <1>5, FlattenType
<1>8. Len(flat) = g[n] /\ \A i \in 1 .. n : LiesThere(g, seqs, flat, i)
    BY <1>5, <1>6, FlattenPlaces
<1> HIDE DEF flat
<1>9. \A i \in 1 .. n : /\ g[i - 1] \in Nat
                        /\ \A j \in 1 .. layout[i].width : /\ g[i - 1] + j \in 1 .. Len(flat)
                                                           /\ flat[g[i - 1] + j] = PartBits(layout[i], args)[j]
    BY <1>2, <1>8 DEF LiesThere
<1> QED BY <1>3, <1>7, <1>8, <1>9

\* Every bit belongs to a part.
LEMMA Covered ==
    ASSUME NEW layout, Shaped(layout), NEW g, Widths(g, layout)
    PROVE  \A p \in 1 .. g[Len(layout)] :
             \E i \in 1 .. Len(layout) : \E j \in 1 .. layout[i].width : p = g[i - 1] + j
<1> DEFINE n == Len(layout)
           Lies(p, k) == \E i \in 1 .. k : \E j \in 1 .. layout[i].width : p = g[i - 1] + j
           T == {k \in Nat : k \in 0 .. n => g[k] \in Nat /\ \A p \in 1 .. g[k] : Lies(p, k)}
<1>1. n \in Nat /\ \A i \in 1 .. n : layout[i].width \in 1 .. 27 /\ g[i] = g[i - 1] + layout[i].width
    BY DEF Shaped, Widths
<1>2. 0 \in T
    <2>1. g[0] = 0
        BY DEF Widths
    <2>2. 1 .. g[0] = {}
        BY <2>1
    <2> HIDE DEF Lies
    <2> QED BY <2>1, <2>2
<1>3. ASSUME NEW k \in Nat, k \in T PROVE k + 1 \in T
    <2> SUFFICES ASSUME k + 1 \in 0 .. n
                 PROVE  g[k + 1] \in Nat /\ \A p \in 1 .. g[k + 1] : Lies(p, k + 1)
        OBVIOUS
    <2> DEFINE w == layout[k + 1].width
               a == g[k]
               z == g[k + 1]
    <2>1. k \in 0 .. n /\ k + 1 \in 1 .. n /\ (k + 1) - 1 = k
        BY <1>1
    <2>2. w \in 1 .. 27 /\ z = a + w
        BY <1>1, <2>1
    <2> HIDE DEF Lies, n
    <2>3. a \in Nat /\ \A p \in 1 .. a : Lies(p, k)
        BY <1>3, <2>1
    <2> HIDE DEF w, a, z
    <2>4. ASSUME NEW p \in 1 .. z PROVE Lies(p, k + 1)
        <3>1. CASE p \in 1 .. a
            <4>1. \A i \in 1 .. k : i \in 1 .. k + 1
                OBVIOUS
            <4> QED BY <2>3, <3>1, <4>1 DEF Lies
        <3>2. CASE p - a \in 1 .. w
            <4>1. p = g[(k + 1) - 1] + (p - a)
                BY <2>1, <2>2, <2>3 DEF a
            <4>2. k + 1 \in 1 .. k + 1
                OBVIOUS
            <4> QED BY <3>2, <4>1, <4>2 DEF Lies, w
        <3>3. p \in 1 .. a \/ p - a \in 1 .. w
            BY <2>2, <2>3
        <3> QED BY <3>1, <3>2, <3>3
    <2>5. z \in Nat
        BY <2>2, <2>3
    <2> QED BY <2>4, <2>5 DEF z
<1> HIDE DEF T
<1>4. Nat \subseteq T
    BY <1>2, <1>3, NaturalInduction
<1>5. n \in 0 .. n
    BY <1>1
<1> QED BY <1>1, <1>4, <1>5 DEF T

LEMMA PartsShaped ==
    ASSUME NEW layout \in Seq(Parts) PROVE Shaped(layout)
<1>1. Len(layout) \in Nat /\ DOMAIN layout = 1 .. Len(layout)
    OBVIOUS
<1>2. ASSUME NEW i \in 1 .. Len(layout) PROVE layout[i].width \in 1 .. 27 /\ layout[i].value \in Small
    <2>1. layout[i] \in Parts
        OBVIOUS
    <2> QED BY <2>1, PartsAre
<1> QED BY <1>1, <1>2 DEF Shaped

\* What a fixed part says is in the bits that are like the mask.
LEMMA FixedTold ==
    ASSUME NEW layout, Shaped(layout), NEW g, Widths(g, layout),
           NEW b \in Seq(Bit), Alike(Mask(layout), b),
           NEW i \in 1 .. Len(layout), layout[i].kind = "fixed"
    PROVE  \A j \in 1 .. layout[i].width :
             g[i - 1] + j <= Len(b) => b[g[i - 1] + j] = (layout[i].value \div Power[layout[i].width - j]) % 2
<1> DEFINE m == Mask(layout)
           w == layout[i].width
<1> SUFFICES ASSUME NEW j \in 1 .. w, g[i - 1] + j <= Len(b)
             PROVE  b[g[i - 1] + j] = (layout[i].value \div Power[w - j]) % 2
    OBVIOUS
<1> DEFINE p == g[i - 1] + j
<1>1. m \in Seq(Pattern) /\ g[i - 1] \in Nat /\ p \in 1 .. Len(m) /\ m[p] = PartMask(layout[i])[j]
    BY MaskPlaces
<1>2. w \in 1 .. 27 /\ layout[i].value \in Small
    BY DEF Shaped
<1> HIDE DEF m
<1>3. PartMask(layout[i])[j] = (layout[i].value \div Power[w - j]) % 2
    BY <1>2, PartMaskIs
<1>4. p \in 1 .. Len(b) /\ p \in DOMAIN m /\ p \in DOMAIN b /\ b[p] \in Bit
    BY <1>1
<1>5. m[p] \in Bit
    <2> HIDE DEF w
    <2>1. w - j \in 0 .. 30
        BY <1>2
    <2>2. Power[w - j] \in Nat \ {0} /\ layout[i].value \in Nat
        BY <1>2, <2>1, PowerTable, SmallIsNat
    <2>3. (layout[i].value \div Power[w - j]) % 2 \in Bit
        BY <2>2, DigitIsBit
    <2> QED BY <1>1, <1>3, <2>3
<1>6. AnyBit \notin Bit
    BY DEF AnyBit, Bit
<1>7. m[p] = b[p] \/ AnyBit \in {m[p], b[p]}
    BY <1>4 DEF Alike, m
<1>8. b[p] = m[p]
    BY <1>4, <1>5, <1>6, <1>7
<1> QED BY <1>1, <1>3, <1>8

\* The number that the first bits are.
First(b, w) == Number(SubSeq(b, 1, w))

LEMMA FirstTold ==
    ASSUME NEW layout, Shaped(layout), NEW g, Widths(g, layout),
           NEW b \in Seq(Bit), Alike(Mask(layout), b), 1 <= Len(layout), layout[1].kind = "fixed",
           layout[1].width <= Len(b), layout[1].value < Power[layout[1].width]
    PROVE  First(b, layout[1].width) = layout[1].value
<1> DEFINE w == layout[1].width
           n == layout[1].value
           s == SubSeq(b, 1, w)
<1>1. 1 \in 1 .. Len(layout) /\ g[1 - 1] = 0 /\ w \in 1 .. 27 /\ n \in Small /\ w <= Len(b)
    BY DEF Widths, Shaped
<1>2. \A j \in 1 .. w : g[1 - 1] + j <= Len(b) => b[g[1 - 1] + j] = (n \div Power[w - j]) % 2
    BY <1>1, FixedTold
<1> HIDE DEF w, n
<1>3. s \in Seq(Bit) /\ Len(s) = w /\ \A j \in 1 .. w : s[j] = b[j]
    <2>0. Len(b) \in Nat
        OBVIOUS
    <2>1. 1 \in 1 .. Len(b) + 1 /\ w \in 1 - 1 .. Len(b)
        BY <1>1, <2>0, SMT
    <2>2. s \in Seq(Bit) /\ Len(s) = w - 1 + 1 /\ \A j \in 1 .. w - 1 + 1 : s[j] = b[1 + j - 1]
        BY <2>1, SubSeqProperties
    <2> HIDE DEF s
    <2>3. w - 1 + 1 = w /\ \A j \in 1 .. w : 1 + j - 1 = j
        BY <1>1
    <2> QED BY <2>2, <2>3
<1>4. \A j \in 1 .. w : g[1 - 1] + j = j /\ j <= Len(b)
    <2>1. Len(b) \in Nat
        OBVIOUS
    <2> QED BY <1>1, <2>1
<1> HIDE DEF s
<1>5. Spells(s, n, w)
    BY <1>2, <1>3, <1>4 DEF Spells
<1>6. w \in 0 .. 30 /\ n \in Nat /\ n < Power[w]
    BY <1>1, SmallIsNat DEF w, n
<1>7. Number(s) = n
    BY <1>5, <1>6, NumberSpelt
<1> QED BY <1>7 DEF First, s, w, n

\* An instruction is like its mask.
LEMMA OwnMask ==
    ASSUME NEW layout \in Seq(Parts), NEW g, Widths(g, layout),
           NEW args, \A i \in 1 .. Len(layout) : Takes(layout[i], args)
    PROVE  /\ Alike(Mask(layout), BitsOfLayout(layout, args))
           /\ Len(Mask(layout)) = Len(BitsOfLayout(layout, args))
<1> DEFINE m == Mask(layout)
           b == BitsOfLayout(layout, args)
           n == Len(layout)
<1>1. Shaped(layout)
    BY PartsShaped
<1>2. /\ m \in Seq(Pattern) /\ Len(m) = g[n]
      /\ \A i \in 1 .. n : \A j \in 1 .. layout[i].width : m[g[i - 1] + j] = PartMask(layout[i])[j]
    BY <1>1, MaskPlaces
<1>3. /\ b \in Seq(Bit) /\ Len(b) = g[n]
      /\ \A i \in 1 .. n : \A j \in 1 .. layout[i].width : b[g[i - 1] + j] = PartBits(layout[i], args)[j]
    BY BitsPlaces
<1>4. \A p \in 1 .. g[n] : \E i \in 1 .. n : \E j \in 1 .. layout[i].width : p = g[i - 1] + j
    BY <1>1, Covered
<1> HIDE DEF m, b
<1>5. ASSUME NEW p \in 1 .. g[n] PROVE m[p] = b[p] \/ m[p] = AnyBit
    <2>1. PICK i \in 1 .. n : \E j \in 1 .. layout[i].width : p = g[i - 1] + j
        BY <1>4
    <2>2. PICK j \in 1 .. layout[i].width : p = g[i - 1] + j
        BY <2>1
    <2>3. m[p] = PartMask(layout[i])[j] /\ b[p] = PartBits(layout[i], args)[j]
        BY <1>2, <1>3, <2>2
    <2>4. layout[i].width \in 1 .. 27 /\ layout[i].value \in Small
        BY <1>1 DEF Shaped
    <2>5. CASE layout[i].kind = "fixed"
        <3>1. PartMask(layout[i]) = PartBits(layout[i], args)
            BY <2>5 DEF PartMask, PartBits
        <3> QED BY <2>3, <3>1
    <2>6. CASE layout[i].kind # "fixed"
        BY <2>3, <2>4, <2>6, PartMaskIs
    <2> QED BY <2>5, <2>6
<1>6. DOMAIN m \cap DOMAIN b = 1 .. g[n]
    BY <1>2, <1>3
<1>7. Alike(m, b)
    BY <1>5, <1>6 DEF Alike
<1> QED BY <1>2, <1>3, <1>7 DEF m, b

-----------------------------------------------------------------------------
(* The arguments are read back.                                              *)

LEMMA RemainderOfLess ==
    ASSUME NEW n \in Nat, NEW p \in Nat \ {0}, n < p PROVE n % p = n
OBVIOUS

LEMMA RemainderOfNegative ==
    ASSUME NEW n \in Int, NEW p \in Nat \ {0}, n < 0, n + p >= 0 PROVE n % p = n + p
<1> DEFINE q == n \div p
           r == n % p
<1>1. q \in Int /\ r \in 0 .. p - 1 /\ n = p * q + r
    OBVIOUS
<1> HIDE DEF q, r
<1>2. q = -1
    <2>1. ~(q >= 0)
        <3> SUFFICES ASSUME q >= 0 PROVE FALSE
            OBVIOUS
        <3>1. p * q >= 0
            BY <1>1
        <3> DEFINE a == p * q
        <3>2. a \in Int /\ a >= 0 /\ n = a + r
            BY <1>1, <3>1
        <3> HIDE DEF a
        <3> QED BY <1>1, <3>2
    <2>2. ~(q <= -2)
        <3> SUFFICES ASSUME q <= -2 PROVE FALSE
            OBVIOUS
        <3> DEFINE k == -2 - q
        <3>1. k \in Nat /\ q = -2 - k
            BY <1>1
        <3> HIDE DEF k
        <3>2. p * q = -(p * k) - 2 * p
            BY <3>1
        <3>3. p * k \in Nat
            BY <3>1
        <3> DEFINE a == p * q
                   c == p * k
        <3>4. a \in Int /\ c \in Nat /\ n = a + r /\ a = -c - 2 * p
            BY <1>1, <3>2, <3>3
        <3> HIDE DEF a, c
        <3> QED BY <1>1, <3>4
    <2> QED BY <1>1, <2>1, <2>2
<1>3. p * q = -p
    BY <1>2
<1> DEFINE a == p * q
<1>4. a = -p /\ n = a + r
    BY <1>1, <1>3
<1> HIDE DEF a
<1>5. r = n + p
    BY <1>1, <1>4
<1> QED BY <1>5 DEF r

LEMMA ValueRead ==
    ASSUME NEW part \in Parts, part.kind # "fixed", NEW args, Takes(part, args), args[part.name] \in Fitting(part)
    PROVE  Number(PartBits(part, args))
             = IF part.kind = "condition" THEN Conditions[args.Condition] ELSE args[part.name] % 2^part.width
<1> DEFINE w == part.width
           n == args[part.name]
           P == Power[w]
           H == Power[w - 1]
<1>1. w \in 1 .. 27 /\ part.kind \in Kinds
    BY PartsAre
<1>2. P = 2 * H /\ P \in Nat \ {0} /\ H \in Nat \ {0} /\ P = 2^w
    <2> HIDE DEF w
    <2>1. w - 1 \in 0 .. 29 /\ w - 1 \in 0 .. 30 /\ w \in 0 .. 30 /\ (w - 1) + 1 = w
        BY <1>1
    <2>2. Power[(w - 1) + 1] = 2 * Power[w - 1]
        BY <2>1, PowerTable
    <2> QED BY <2>1, <2>2, PowerTable
<1>3. w \in 0 .. 30
    BY <1>1
<1>4. CASE part.kind = "condition"
    <2> DEFINE c == Conditions[args.Condition]
    <2>1. PartBits(part, args) = Padded(c, w)
        BY <1>4 DEF PartBits
    <2>2. c \in 0 .. 15 /\ c \in Small
        BY <1>4, ConditionsAre DEF Takes
    <2>3. w = 4
        BY <1>4, PartsAre
    <2>4. Power[4] = 16
        <3>1. 4 \in 0 .. 30 /\ 2^4 = 16
            OBVIOUS
        <3> QED BY <3>1, PowerTable
    <2> HIDE DEF c, w
    <2>5. Number(Padded(c, w)) = c
        BY <2>2, <2>3, <2>4, <1>3, NumberPadded
    <2> QED BY <1>4, <2>1, <2>5 DEF c
<1>5. CASE part.kind = "unsigned"
    <2>1. n \in 0 .. 2^w - 1
        BY <1>5 DEF Fitting
    <2>2. n \in Small
        BY <1>5 DEF Takes
    <2>3. PartBits(part, args) = Padded(n, w)
        BY <1>5 DEF PartBits
    <2>4. n \in 0 .. P - 1
        BY <1>2, <2>1
    <2> HIDE DEF P, n, w
    <2>5. n < P /\ n \in Nat
        BY <1>2, <2>4
    <2>6. Number(Padded(n, w)) = n
        BY <1>3, <2>2, <2>5, NumberPadded DEF P
    <2>7. n % P = n
        BY <1>2, <2>5, RemainderOfLess
    <2>8. n % 2^w = n
        BY <1>2, <2>7
    <2> QED BY <1>5, <2>3, <2>6, <2>8 DEF n, w
<1>6. CASE part.kind = "signed"
    <2>1. n \in -(2^w \div 2) .. 2^w - 1
        BY <1>6 DEF Fitting
    <2>2. n \in -(P \div 2) .. P - 1
        BY <1>2, <2>1
    <2>3. PartBits(part, args) = IF n < 0 THEN Complement(n, w) ELSE Padded(n, w)
        BY <1>6 DEF PartBits
    <2>4. n \in Int /\ n < 2^30
        BY <1>6 DEF Takes
    <2>5. ~(n < 0) => n \in Small
        BY <2>4 DEF Small
    <2> HIDE DEF P, H, n, w
    <2>6. n \in Int /\ -H <= n /\ n < P
        <3>1. P \div 2 = H
            BY <1>2, SMT
        <3> QED BY <1>2, <2>2, <3>1
    <2>7. CASE n < 0
        <3>1. Complement(n, w) = Digits(n + P) /\ n + P \in Small
            BY <1>1, <2>6, <2>7, ComplementIs DEF P, H
        <3>2. Number(Complement(n, w)) = n + P
            BY <3>1, NumberDigits
        <3>3. n + P >= 0
            BY <3>1, SmallIsNat
        <3>4. n % P = n + P
            BY <1>2, <2>6, <2>7, <3>3, RemainderOfNegative
        <3>5. n % 2^w = n + P
            BY <1>2, <3>4
        <3> QED BY <1>6, <2>3, <2>7, <3>2, <3>5 DEF n, w
    <2>8. CASE ~(n < 0)
        <3>1. Number(Padded(n, w)) = n
            BY <1>3, <2>5, <2>6, <2>8, NumberPadded DEF P
        <3>2. n % P = n
            BY <1>2, <2>6, <2>8, RemainderOfLess
        <3>3. n % 2^w = n
            BY <1>2, <3>2
        <3> QED BY <1>6, <2>3, <2>8, <3>1, <3>3 DEF n, w
    <2> QED BY <2>7, <2>8
<1> QED BY <1>1, <1>4, <1>5, <1>6 DEF Kinds

\* The equation of the recursive function that PartIn takes.
Starts(s, layout) ==
    s = [i \in 1 .. Len(layout) |-> IF i = 1 THEN 1 ELSE s[i - 1] + layout[i - 1].width]
StartAt(layout) == CHOOSE s : Starts(s, layout)

Placed(layout, name) == CHOOSE i \in DOMAIN layout : layout[i].name = name

LEMMA PartInUnfolds ==
    ASSUME NEW layout, NEW name, NEW bits
    PROVE  PartIn(layout, name, bits)
             = Number(SubSeq(bits, StartAt(layout)[Placed(layout, name)],
                             StartAt(layout)[Placed(layout, name)] + layout[Placed(layout, name)].width - 1))
BY DEF PartIn, StartAt, Starts, Placed

LEMMA StartsAre ==
    ASSUME NEW layout, Shaped(layout), NEW g, Widths(g, layout)
    PROVE  \A i \in 1 .. Len(layout) : StartAt(layout)[i] = g[i - 1] + 1
<1> DEFINE n == Len(layout)
           h == [i \in 1 .. n |-> g[i - 1] + 1]
           s == StartAt(layout)
<1>1. n \in Nat /\ g[0] = 0 /\ \A i \in 1 .. n : g[i] = g[i - 1] + layout[i].width
    BY DEF Shaped, Widths
<1>9. \A i \in 1 .. n : g[i - 1] \in Nat /\ layout[i].width \in Nat
    <2>1. \A i \in 1 .. n : g[i - 1] \in Nat
        BY MaskPlaces
    <2>2. \A i \in 1 .. n : layout[i].width \in 1 .. 27
        BY DEF Shaped
    <2>3. ASSUME NEW i \in 1 .. n PROVE layout[i].width \in Nat
        <3> DEFINE w == layout[i].width
        <3>1. w \in 1 .. 27
            BY <2>2
        <3> HIDE DEF w
        <3>2. w \in Nat
            BY <3>1
        <3> QED BY <3>2 DEF w
    <2> HIDE DEF n, h, s
    <2> QED BY <2>1, <2>3
<1>2. Starts(h, layout)
    <2>1. ASSUME NEW i \in 1 .. n PROVE h[i] = IF i = 1 THEN 1 ELSE h[i - 1] + layout[i - 1].width
        <3>1. CASE i = 1
            <4>1. h[i] = g[0] + 1
                BY <3>1
            <4> HIDE DEF h
            <4> QED BY <1>1, <3>1, <4>1
        <3>2. CASE i # 1
            <4>1. i - 1 \in 1 .. n
                BY <1>1, <3>2
            <4>2. h[i] = g[i - 1] + 1 /\ h[i - 1] = g[(i - 1) - 1] + 1
                BY <4>1
            <4>3. g[i - 1] = g[(i - 1) - 1] + layout[i - 1].width
                BY <1>1, <4>1
            <4>4. g[(i - 1) - 1] \in Nat /\ layout[i - 1].width \in Nat
                BY <1>9, <4>1
            <4> HIDE DEF h
            <4> QED BY <3>2, <4>2, <4>3, <4>4
        <3> QED BY <3>1, <3>2
    <2>2. h = [i \in 1 .. n |-> h[i]]
        OBVIOUS
    <2> HIDE DEF h
    <2>3. h = [i \in 1 .. n |-> IF i = 1 THEN 1 ELSE h[i - 1] + layout[i - 1].width]
        BY <2>1, <2>2
    <2> QED BY <2>3 DEF Starts
<1> HIDE DEF h
<1>3. Starts(s, layout)
    BY <1>2 DEF StartAt
<1> HIDE DEF s
<1>4. s = [i \in 1 .. n |-> IF i = 1 THEN 1 ELSE s[i - 1] + layout[i - 1].width]
    BY <1>3 DEF Starts
<1> DEFINE T == {i \in Nat : i + 1 \in 1 .. n => s[i + 1] = g[i] + 1}
<1>5. 0 \in T
    <2>1. 1 \in 1 .. n => s[1] = 1
        BY <1>4
    <2>2. 0 + 1 = 1 /\ g[0] + 1 = 1
        BY <1>1
    <2> QED BY <2>1, <2>2
<1>6. ASSUME NEW i \in Nat, i \in T PROVE i + 1 \in T
    <2> SUFFICES ASSUME (i + 1) + 1 \in 1 .. n PROVE s[(i + 1) + 1] = g[i + 1] + 1
        OBVIOUS
    <2>1. i + 1 \in 1 .. n /\ ((i + 1) + 1) - 1 = i + 1 /\ (i + 1) + 1 # 1 /\ (i + 1) - 1 = i
        BY <1>1
    <2>2. s[(i + 1) + 1] = s[i + 1] + layout[i + 1].width
        BY <1>4, <2>1
    <2>3. s[i + 1] = g[i] + 1
        BY <1>6, <2>1
    <2>4. g[i + 1] = g[i] + layout[i + 1].width /\ g[i] \in Nat /\ layout[i + 1].width \in Nat
        BY <1>1, <1>9, <2>1
    <2> QED BY <2>2, <2>3, <2>4
<1> HIDE DEF T
<1>7. Nat \subseteq T
    BY <1>5, <1>6, NaturalInduction
<1>8. ASSUME NEW i \in 1 .. n PROVE s[i] = g[i - 1] + 1
    <2>1. i - 1 \in Nat /\ (i - 1) + 1 = i
        BY <1>1
    <2> QED BY <1>7, <2>1 DEF T
<1> QED BY <1>8 DEF s

LEMMA ArgumentsRead ==
    ASSUME NEW layout \in Seq(Parts), Named(layout), NEW g, Widths(g, layout),
           NEW args, \A i \in 1 .. Len(layout) : Takes(layout[i], args),
           \A i \in 1 .. Len(layout) : Free(layout, i) => args[layout[i].name] \in Fitting(layout[i])
    PROVE  Carries(layout, BitsOfLayout(layout, args), args)
<1> DEFINE n == Len(layout)
           b == BitsOfLayout(layout, args)
<1>1. Shaped(layout)
    BY PartsShaped
<1>2. n \in Nat /\ DOMAIN layout = 1 .. n /\ \A i \in 1 .. n : layout[i] \in Parts
    OBVIOUS
<1>3. /\ b \in Seq(Bit) /\ Len(b) = g[n]
      /\ \A i \in 1 .. n :
           /\ g[i - 1] \in Nat
           /\ \A j \in 1 .. layout[i].width :
                g[i - 1] + j \in 1 .. Len(b) /\ b[g[i - 1] + j] = PartBits(layout[i], args)[j]
    BY BitsPlaces
<1> HIDE DEF b
<1>4. ASSUME NEW i \in 1 .. n, layout[i].kind # "fixed"
      PROVE  PartIn(layout, layout[i].name, b)
               = IF layout[i].kind = "condition" THEN Conditions[args.Condition]
                 ELSE args[layout[i].name] % 2^layout[i].width
    <2> DEFINE k == Placed(layout, layout[i].name)
               w == layout[i].width
               l == g[i - 1] + 1
               m == g[i - 1] + w
               s == SubSeq(b, l, m)
               p == PartBits(layout[i], args)
    <2>1. k = i
        <3>1. k \in 1 .. n /\ layout[k].name = layout[i].name
            BY <1>2 DEF Placed
        <3> HIDE DEF k
        <3>2. layout[k] \in Parts /\ layout[i] \in Parts
            BY <1>2, <3>1
        <3>3. layout[k].kind # "fixed"
            BY <1>4, <3>1, <3>2, PartsAre
        <3> QED BY <1>4, <3>1, <3>3 DEF Named
    <2>2. StartAt(layout)[i] = l
        BY <1>1, StartsAre
    <2>3. PartIn(layout, layout[i].name, b)
            = Number(SubSeq(b, StartAt(layout)[k], StartAt(layout)[k] + layout[k].width - 1))
        BY PartInUnfolds
    <2>4. g[i - 1] \in Nat /\ w \in 1 .. 27
        BY <1>1, <1>3 DEF Shaped
    <2>5. l + w - 1 = m
        <3> DEFINE a == g[i - 1]
        <3> HIDE DEF a, w
        <3>1. a \in Nat /\ w \in 1 .. 27
            BY <2>4 DEF a
        <3>2. (a + 1) + w - 1 = a + w
            BY <3>1
        <3> QED BY <3>2 DEF a
    <2> HIDE DEF k
    <2>6. PartIn(layout, layout[i].name, b) = Number(s)
        <3>1. PartIn(layout, layout[i].name, b) = Number(SubSeq(b, l, l + w - 1))
            BY <2>1, <2>2, <2>3
        <3> HIDE DEF l, m, w
        <3> QED BY <2>5, <3>1
    <2>7. p \in Seq(Bit) /\ Len(p) = w
        BY <1>2, PartIs
    <2>8. g[i - 1] + w <= Len(b) /\ Len(b) \in Nat
        <3>1. w \in 1 .. layout[i].width
            <4>1. w \in 1 .. w
                <5> HIDE DEF w
                <5> QED BY <2>4
            <4> QED BY <4>1
        <3>2. g[i - 1] + w \in 1 .. Len(b) /\ Len(b) \in Nat
            BY <1>3, <3>1
        <3> QED BY <3>2
    <2>9. \A j \in 1 .. w : b[g[i - 1] + j] = p[j]
        BY <1>3
    <2> HIDE DEF w, p
    <2>10. s \in Seq(Bit) /\ Len(s) = w /\ \A j \in 1 .. w : s[j] = p[j]
        <3>1. l \in 1 .. Len(b) + 1 /\ m \in l - 1 .. Len(b) /\ m - l + 1 = w
              /\ \A j \in 1 .. w : l + j - 1 = g[i - 1] + j
            <4> DEFINE a == g[i - 1]
                       e == Len(b)
            <4> HIDE DEF a, e
            <4>1. a \in Nat /\ w \in 1 .. 27 /\ a + w <= e /\ e \in Nat
                BY <2>4, <2>8 DEF a, e
            <4>2. /\ a + 1 \in 1 .. e + 1 /\ a + w \in (a + 1) - 1 .. e /\ (a + w) - (a + 1) + 1 = w
                  /\ \A j \in 1 .. w : (a + 1) + j - 1 = a + j
                BY <4>1
            <4> QED BY <4>2 DEF a, e
        <3> HIDE DEF l, m
        <3>2. s \in Seq(Bit) /\ Len(s) = m - l + 1 /\ \A j \in 1 .. m - l + 1 : s[j] = b[l + j - 1]
            BY <1>3, <3>1, SubSeqProperties
        <3> HIDE DEF s
        <3> QED BY <2>9, <3>1, <3>2
    <2> HIDE DEF s
    <2>11. s = p
        BY <2>7, <2>10, SeqEqual
    <2>12. Number(p) = IF layout[i].kind = "condition" THEN Conditions[args.Condition]
                       ELSE args[layout[i].name] % 2^layout[i].width
        BY <1>2, <1>4, ValueRead DEF Free, p
    <2> QED BY <2>6, <2>11, <2>12
<1> QED BY <1>2, <1>4 DEF Carries, b

-----------------------------------------------------------------------------
(* The bits of an instruction are read back from its hexadecimal digits.     *)

LEMMA SmallPowers ==
    /\ Power[0] = 1 /\ Power[1] = 2 /\ Power[2] = 4 /\ Power[3] = 8 /\ Power[4] = 16 /\ Power[5] = 32
    /\ Power[6] = 64 /\ Power[9] = 512
<1>1. /\ 0 \in 0 .. 30 /\ 1 \in 0 .. 30 /\ 2 \in 0 .. 30 /\ 3 \in 0 .. 30 /\ 4 \in 0 .. 30 /\ 5 \in 0 .. 30
      /\ 6 \in 0 .. 30 /\ 9 \in 0 .. 30
    OBVIOUS
<1>2. 2^0 = 1 /\ 2^1 = 2 /\ 2^2 = 4 /\ 2^3 = 8 /\ 2^4 = 16 /\ 2^5 = 32 /\ 2^6 = 64 /\ 2^9 = 512
    BY SMT
<1> QED BY <1>1, <1>2, PowerTable

LEMMA ShortNumber ==
    ASSUME NEW s \in Seq(Bit), Len(s) \in {2, 3, 4}
    PROVE  /\ Number(s) \in 0 .. 15
           /\ \A j \in 1 .. Len(s) : s[j] = (Number(s) \div Power[Len(s) - j]) % 2
<1> DEFINE k == Len(s)
           h == [i \in 0 .. 4 |-> CASE i = 0 -> 0
                                    [] i = 1 -> s[1]
                                    [] i = 2 -> 2 * s[1] + s[2]
                                    [] i = 3 -> 4 * s[1] + 2 * s[2] + s[3]
                                    [] OTHER -> 8 * s[1] + 4 * s[2] + 2 * s[3] + s[4]]
<1>1. \A i \in 1 .. k : s[i] \in {0, 1}
    BY DEF Bit
<1>2. h[0] = 0 /\ h[1] = s[1] /\ h[2] = 2 * s[1] + s[2] /\ h[3] = 4 * s[1] + 2 * s[2] + s[3]
      /\ h[4] = 8 * s[1] + 4 * s[2] + 2 * s[3] + s[4]
    OBVIOUS
<1> HIDE DEF h
<1>3. CASE k = 2
    <2>1. s[1] \in {0, 1} /\ s[2] \in {0, 1}
        BY <1>1, <1>3
    <2>2. \A i \in 1 .. 2 : h[i] = 2 * h[i - 1] + s[i]
        <3>1. h[1] = 2 * h[0] + s[1] /\ h[2] = 2 * h[1] + s[2]
            BY <1>2, <2>1
        <3>2. 1 - 1 = 0 /\ 2 - 1 = 1 /\ \A i \in 1 .. 2 : i = 1 \/ i = 2
            OBVIOUS
        <3> QED BY <3>1, <3>2
    <2>3. Number(s) = h[2]
        BY <1>2, <1>3, <2>2, NumberIs
    <2> DEFINE n == 2 * s[1] + s[2]
    <2>4. n \in 0 .. 15 /\ s[1] = (n \div 2) % 2 /\ s[2] = (n \div 1) % 2
        BY <2>1
    <2>5. Number(s) = n
        BY <1>2, <2>3
    <2> HIDE DEF n
    <2>6. 2 - 1 = 1 /\ 2 - 2 = 0 /\ \A i \in 1 .. 2 : i = 1 \/ i = 2
        OBVIOUS
    <2> DEFINE N == Number(s)
    <2> HIDE DEF k, N
    <2>7. N \in 0 .. 15 /\ \A j \in 1 .. k : s[j] = (N \div Power[k - j]) % 2
        BY <1>3, <2>4, <2>5, <2>6, SmallPowers DEF N
    <2> QED BY <2>7 DEF N, k
<1>4. CASE k = 3
    <2>1. s[1] \in {0, 1} /\ s[2] \in {0, 1} /\ s[3] \in {0, 1}
        BY <1>1, <1>4
    <2>2. \A i \in 1 .. 3 : h[i] = 2 * h[i - 1] + s[i]
        <3>1. h[1] = 2 * h[0] + s[1] /\ h[2] = 2 * h[1] + s[2] /\ h[3] = 2 * h[2] + s[3]
            BY <1>2, <2>1
        <3>2. 1 - 1 = 0 /\ 2 - 1 = 1 /\ 3 - 1 = 2 /\ \A i \in 1 .. 3 : i = 1 \/ i = 2 \/ i = 3
            OBVIOUS
        <3> QED BY <3>1, <3>2
    <2>3. Number(s) = h[3]
        BY <1>2, <1>4, <2>2, NumberIs
    <2> DEFINE n == 4 * s[1] + 2 * s[2] + s[3]
    <2>4. n \in 0 .. 15 /\ s[1] = (n \div 4) % 2 /\ s[2] = (n \div 2) % 2 /\ s[3] = (n \div 1) % 2
        BY <2>1
    <2>5. Number(s) = n
        BY <1>2, <2>3
    <2> HIDE DEF n
    <2>6. 3 - 1 = 2 /\ 3 - 2 = 1 /\ 3 - 3 = 0 /\ \A i \in 1 .. 3 : i = 1 \/ i = 2 \/ i = 3
        OBVIOUS
    <2> DEFINE N == Number(s)
    <2> HIDE DEF k, N
    <2>8. Power[3 - 1] = 4 /\ Power[3 - 2] = 2 /\ Power[3 - 3] = 1
        BY <2>6, SmallPowers
    <2>9. N = n
        BY <2>5 DEF N
    <2>10. ASSUME NEW j \in 1 .. 3 PROVE s[j] = (N \div Power[3 - j]) % 2
        <3>1. CASE j = 1
            BY <2>4, <2>8, <2>9, <3>1
        <3>2. CASE j = 2
            BY <2>4, <2>8, <2>9, <3>2
        <3>3. CASE j = 3
            BY <2>4, <2>8, <2>9, <3>3
        <3> QED BY <2>6, <3>1, <3>2, <3>3
    <2>7. N \in 0 .. 15 /\ \A j \in 1 .. k : s[j] = (N \div Power[k - j]) % 2
        BY <1>4, <2>4, <2>9, <2>10
    <2> QED BY <2>7 DEF N, k
<1>5. CASE k = 4
    <2>1. s[1] \in {0, 1} /\ s[2] \in {0, 1} /\ s[3] \in {0, 1} /\ s[4] \in {0, 1}
        BY <1>1, <1>5
    <2>2. \A i \in 1 .. 4 : h[i] = 2 * h[i - 1] + s[i]
        <3>1. /\ h[1] = 2 * h[0] + s[1] /\ h[2] = 2 * h[1] + s[2] /\ h[3] = 2 * h[2] + s[3]
              /\ h[4] = 2 * h[3] + s[4]
            BY <1>2, <2>1
        <3>2. /\ 1 - 1 = 0 /\ 2 - 1 = 1 /\ 3 - 1 = 2 /\ 4 - 1 = 3
              /\ \A i \in 1 .. 4 : i = 1 \/ i = 2 \/ i = 3 \/ i = 4
            OBVIOUS
        <3> QED BY <3>1, <3>2
    <2>3. Number(s) = h[4]
        BY <1>2, <1>5, <2>2, NumberIs
    <2> DEFINE n == 8 * s[1] + 4 * s[2] + 2 * s[3] + s[4]
    <2>4. /\ n \in 0 .. 15 /\ s[1] = (n \div 8) % 2 /\ s[2] = (n \div 4) % 2 /\ s[3] = (n \div 2) % 2
          /\ s[4] = (n \div 1) % 2
        BY <2>1
    <2>5. Number(s) = n
        BY <1>2, <2>3
    <2> HIDE DEF n
    <2>6. /\ 4 - 1 = 3 /\ 4 - 2 = 2 /\ 4 - 3 = 1 /\ 4 - 4 = 0
          /\ \A i \in 1 .. 4 : i = 1 \/ i = 2 \/ i = 3 \/ i = 4
        OBVIOUS
    <2> DEFINE N == Number(s)
    <2> HIDE DEF k, N
    <2>8. Power[4 - 1] = 8 /\ Power[4 - 2] = 4 /\ Power[4 - 3] = 2 /\ Power[4 - 4] = 1
        BY <2>6, SmallPowers
    <2>9. N = n
        BY <2>5 DEF N
    <2>10. ASSUME NEW j \in 1 .. 4 PROVE s[j] = (N \div Power[4 - j]) % 2
        <3>1. CASE j = 1
            BY <2>4, <2>8, <2>9, <3>1
        <3>2. CASE j = 2
            BY <2>4, <2>8, <2>9, <3>2
        <3>3. CASE j = 3
            BY <2>4, <2>8, <2>9, <3>3
        <3>4. CASE j = 4
            BY <2>4, <2>8, <2>9, <3>4
        <3> QED BY <2>6, <3>1, <3>2, <3>3, <3>4
    <2>7. N \in 0 .. 15 /\ \A j \in 1 .. k : s[j] = (N \div Power[k - j]) % 2
        BY <1>5, <2>4, <2>9, <2>10
    <2> QED BY <2>7 DEF N, k
<1> QED BY <1>3, <1>4, <1>5

LEMMA HexDigit ==
    ASSUME NEW s \in Seq(Bit), Len(s) \in {2, 3, 4}
    PROVE  /\ Padded(Number(s), 4) \in Seq(Bit) /\ Len(Padded(Number(s), 4)) = 4
           /\ \A j \in 1 .. Len(s) : Padded(Number(s), 4)[(4 - Len(s)) + j] = s[j]
<1> DEFINE n == Number(s)
           k == Len(s)
           p == Padded(n, 4)
<1>1. n \in 0 .. 15 /\ k \in {2, 3, 4} /\ \A j \in 1 .. k : s[j] = (n \div Power[k - j]) % 2
    BY ShortNumber
<1> HIDE DEF n, k
<1>2. n \in Small
    BY <1>1, SMT DEF Small
<1>3. Spells(p, n, 4)
    <2>1. 4 \in 0 .. 30
        OBVIOUS
    <2> QED BY <1>2, <2>1, PaddedSpells
<1> HIDE DEF p
<1>4. p \in Seq(Bit) /\ Len(p) = 4 /\ \A i \in 1 .. 4 : p[i] = (n \div Power[4 - i]) % 2
    BY <1>3 DEF Spells
<1>5. \A j \in 1 .. k : (4 - k) + j \in 1 .. 4 /\ 4 - ((4 - k) + j) = k - j
    BY <1>1
<1> QED BY <1>1, <1>4, <1>5 DEF p, n, k

LEMMA ChunkIs ==
    ASSUME NEW bits \in Seq(Bit)
    PROVE  /\ Chunks(bits)[1] = SubSeq(bits, 1, Len(bits) % 4)
           /\ \A i \in 1 .. Len(bits) \div 4 :
                Chunks(bits)[i + 1] = SubSeq(bits, (Len(bits) % 4) + 4 * i - 3, (Len(bits) % 4) + 4 * i)
<1> DEFINE r == Len(bits) % 4
           q == Len(bits) \div 4
           head == SubSeq(bits, 1, r)
           tail == [i \in 1 .. q |-> SubSeq(bits, r + 4 * i - 3, r + 4 * i)]
           one == <<head>>
           S == {head} \cup {tail[i] : i \in 1 .. q}
<1>1. q \in Nat
    <2>1. Len(bits) \in Nat
        OBVIOUS
    <2> QED BY <2>1, FourBits
<1>2. Chunks(bits) = one \o tail
    BY DEF Chunks
<1>3. \A i \in 1 .. q : tail[i] = SubSeq(bits, r + 4 * i - 3, r + 4 * i)
    OBVIOUS
<1>4. tail \in Seq(S) /\ Len(tail) = q
    <2>1. tail \in [1 .. q -> S]
        OBVIOUS
    <2> HIDE DEF tail, S
    <2> QED BY <1>1, <2>1
<1>5. one \in Seq(S) /\ Len(one) = 1 /\ one[1] = head
    <2>1. head \in S
        OBVIOUS
    <2> HIDE DEF S, head
    <2> QED BY <2>1
<1> HIDE DEF one, tail, S
<1>6. \A i \in 1 .. Len(one) + Len(tail) : (one \o tail)[i] = IF i <= Len(one) THEN one[i] ELSE tail[i - Len(one)]
    BY <1>4, <1>5, ConcatProperties
<1>7. (one \o tail)[1] = head
    <2>1. 1 \in 1 .. Len(one) + Len(tail) /\ 1 <= Len(one)
        BY <1>1, <1>4, <1>5
    <2> QED BY <1>5, <1>6, <2>1
<1>8. ASSUME NEW i \in 1 .. q PROVE (one \o tail)[i + 1] = tail[i]
    <2>1. i + 1 \in 1 .. Len(one) + Len(tail) /\ ~(i + 1 <= Len(one)) /\ (i + 1) - Len(one) = i
        BY <1>1, <1>4, <1>5
    <2> QED BY <1>6, <2>1
<1> QED BY <1>2, <1>3, <1>7, <1>8

LEMMA WordsRead ==
    ASSUME NEW bits \in Seq(Bit), Len(bits) \in {18, 27, 54}
    PROVE  WordBits(Bin2Hex(bits).hex) = bits
<1> DEFINE n == Len(bits)
           r == n % 4
           q == n \div 4
           chunks == Chunks(bits)
           hex == [i \in DOMAIN chunks |-> Number(chunks[i])]
           seqs == [i \in DOMAIN hex |-> Padded(hex[i], 4)]
           flat == FlattenSeq(seqs)
           g == [i \in 0 .. q + 1 |-> 4 * i]
<1>1. /\ n = 4 * q + r /\ r \in {2, 3} /\ q \in Nat /\ n \in {18, 27, 54}
      /\ (n = 18 => 1 + q = 5) /\ (n = 27 => 1 + q = 7) /\ (n = 54 => 1 + q = 14)
    <2>1. 18 % 4 = 2 /\ 27 % 4 = 3 /\ 54 % 4 = 2 /\ 18 \div 4 = 4 /\ 27 \div 4 = 6 /\ 54 \div 4 = 13
        OBVIOUS
    <2> DEFINE c == n
    <2>2. c \in {18, 27, 54}
        OBVIOUS
    <2> HIDE DEF c
    <2>3. c = 4 * (c \div 4) + (c % 4) /\ c % 4 \in {2, 3} /\ c \div 4 \in Nat
          /\ (c = 18 => 1 + (c \div 4) = 5) /\ (c = 27 => 1 + (c \div 4) = 7) /\ (c = 54 => 1 + (c \div 4) = 14)
        BY <2>1, <2>2
    <2> QED BY <2>2, <2>3 DEF c
<1>2. chunks \in Seq(Seq(Bit)) /\ DOMAIN chunks = 1 .. 1 + q
    BY ChunksAre, LenProperties
<1>3. /\ chunks[1] = SubSeq(bits, 1, r)
      /\ \A i \in 1 .. q : chunks[i + 1] = SubSeq(bits, r + 4 * i - 3, r + 4 * i)
    BY ChunkIs
<1>4. Bin2Hex(bits).hex = hex
    <2>1. Bin2Hex(bits) =
            IF Len(bits) \notin {54, 27, 17, 18} THEN Message
            ELSE IF \E i \in DOMAIN chunks : ~ Readable(chunks[i]) THEN Raises
            ELSE Code(hex)
        BY DEF Bin2Hex
    <2>2. Bin2Hex(bits).result = "code"
        BY Bin2HexIs
    <2>3. Raises.result # "code" /\ Message.result # "code"
        BY DEF Raises, Message
    <2> HIDE DEF hex, chunks
    <2>4. Code(hex).hex = hex
        BY DEF Code
    <2> QED BY <2>1, <2>2, <2>3, <2>4
<1> HIDE DEF chunks, r, q, n
<1>5. /\ chunks[1] \in Seq(Bit) /\ Len(chunks[1]) = r /\ \A j \in 1 .. r : chunks[1][j] = bits[j]
      /\ \A i \in 1 .. q : /\ chunks[i + 1] \in Seq(Bit) /\ Len(chunks[i + 1]) = 4
                           /\ \A j \in 1 .. 4 : chunks[i + 1][j] = bits[r + 4 * (i - 1) + j]
    <2>1. r \in Nat /\ r <= n /\ n = Len(bits)
        BY <1>1 DEF n
    <2>2. 1 \in 1 .. Len(bits) + 1 /\ r \in 1 - 1 .. Len(bits)
        BY <1>1, <2>1
    <2>3. /\ SubSeq(bits, 1, r) \in Seq(Bit) /\ Len(SubSeq(bits, 1, r)) = r - 1 + 1
          /\ \A j \in 1 .. r - 1 + 1 : SubSeq(bits, 1, r)[j] = bits[1 + j - 1]
        BY <2>2, SubSeqProperties
    <2>4. r - 1 + 1 = r /\ \A j \in 1 .. r : 1 + j - 1 = j
        BY <1>1
    <2>5. ASSUME NEW i \in 1 .. q
          PROVE  /\ chunks[i + 1] \in Seq(Bit) /\ Len(chunks[i + 1]) = 4
                 /\ \A j \in 1 .. 4 : chunks[i + 1][j] = bits[r + 4 * (i - 1) + j]
        <3> DEFINE l == r + 4 * i - 3
                   m == r + 4 * i
                   s == SubSeq(bits, l, m)
        <3>1. l \in 1 .. n + 1 /\ m \in l - 1 .. n /\ m - l + 1 = 4
              /\ \A j \in 1 .. 4 : l + j - 1 = r + 4 * (i - 1) + j
            BY <1>1
        <3> HIDE DEF l, m
        <3>2. s \in Seq(Bit) /\ Len(s) = m - l + 1 /\ \A j \in 1 .. m - l + 1 : s[j] = bits[l + j - 1]
            BY <2>1, <3>1, SubSeqProperties
        <3>3. chunks[i + 1] = s
            BY <1>3 DEF l, m
        <3> HIDE DEF s
        <3> QED BY <3>1, <3>2, <3>3
    <2> QED BY <1>3, <2>3, <2>4, <2>5
<1>6. /\ Len(hex) = 1 + q /\ DOMAIN hex = 1 .. 1 + q
      /\ \A i \in 1 .. 1 + q : hex[i] = Number(chunks[i])
    <2>1. DOMAIN hex = 1 .. 1 + q /\ \A i \in 1 .. 1 + q : hex[i] = Number(chunks[i])
        BY <1>2
    <2> DEFINE S == {Number(chunks[i]) : i \in 1 .. 1 + q}
    <2>2. hex \in [1 .. 1 + q -> S]
        BY <1>2
    <2> HIDE DEF hex, S
    <2>3. Len(hex) = 1 + q
        BY <1>1, <2>2
    <2> QED BY <2>1, <2>3
<1> HIDE DEF hex
<1>7. /\ seqs \in Seq(Seq(Bit)) /\ Len(seqs) = 1 + q
      /\ \A i \in 1 .. 1 + q : seqs[i] = Padded(Number(chunks[i]), 4) /\ Len(seqs[i]) = 4
    <2>1. \A i \in 1 .. 1 + q : seqs[i] = Padded(Number(chunks[i]), 4)
        BY <1>6
    <2>2. ASSUME NEW i \in 1 .. 1 + q
          PROVE  Padded(Number(chunks[i]), 4) \in Seq(Bit) /\ Len(Padded(Number(chunks[i]), 4)) = 4
        <3>1. i = 1 \/ (i - 1 \in 1 .. q /\ (i - 1) + 1 = i)
            BY <1>1
        <3>2. chunks[i] \in Seq(Bit) /\ Len(chunks[i]) \in {2, 3, 4}
            BY <1>1, <1>5, <3>1
        <3> QED BY <3>2, HexDigit
    <2>3. seqs \in [1 .. 1 + q -> Seq(Bit)]
        BY <1>6, <2>1, <2>2
    <2> HIDE DEF seqs
    <2> QED BY <1>1, <2>1, <2>2, <2>3
<1> HIDE DEF seqs
<1>8. Begins(g, seqs)
    <2>1. g[0] = 0
        BY <1>1
    <2>2. \A i \in 1 .. 1 + q : g[i] = g[i - 1] + 4
        BY <1>1
    <2> HIDE DEF g
    <2> QED BY <1>7, <2>1, <2>2 DEF Begins
<1>9. \A i \in 1 .. 1 + q : g[i - 1] = 4 * (i - 1)
    BY <1>1
<1>10. g[1 + q] = 4 * (1 + q)
    BY <1>1
<1> HIDE DEF g
<1>11. flat \in Seq(Bit) /\ Len(flat) = 4 * (1 + q)
       /\ \A i \in 1 .. 1 + q : \A j \in 1 .. 4 : flat[4 * (i - 1) + j] = seqs[i][j]
    <2>1. flat \in Seq(Bit)
        BY <1>7, FlattenType
    <2>2. Len(flat) = g[Len(seqs)] /\ \A i \in 1 .. Len(seqs) : LiesThere(g, seqs, flat, i)
        BY <1>7, <1>8, FlattenPlaces
    <2> HIDE DEF flat
    <2>3. Len(flat) = 4 * (1 + q)
        BY <1>7, <1>10, <2>2
    <2>4. ASSUME NEW i \in 1 .. 1 + q, NEW j \in 1 .. 4 PROVE flat[4 * (i - 1) + j] = seqs[i][j]
        <3>1. LiesThere(g, seqs, flat, i) /\ Len(seqs[i]) = 4 /\ g[i - 1] = 4 * (i - 1)
            BY <1>7, <1>9, <2>2
        <3>2. flat[g[i - 1] + j] = seqs[i][j]
            BY <3>1 DEF LiesThere
        <3> QED BY <3>1, <3>2
    <2> QED BY <2>1, <2>3, <2>4
<1>12. WordBits(hex) = LastOf(flat, n)
    <2>1. (Len(hex) = 5 /\ n = 18) \/ (Len(hex) = 7 /\ n = 27) \/ (Len(hex) = 14 /\ n = 54)
        BY <1>1, <1>6
    <2>2. flat = FlattenSeq([i \in DOMAIN hex |-> Padded(hex[i], 4)])
        BY DEF seqs
    <2> HIDE DEF n, flat
    <2>3. CASE Len(hex) = 5 /\ n = 18
        BY <2>2, <2>3 DEF WordBits
    <2>4. CASE Len(hex) = 7 /\ n = 27
        BY <2>2, <2>4 DEF WordBits
    <2>5. CASE Len(hex) = 14 /\ n = 54
        BY <2>2, <2>5 DEF WordBits
    <2> QED BY <2>1, <2>3, <2>4, <2>5
<1> HIDE DEF flat
<1>13. LastOf(flat, n) \in Seq(Bit \cup {LetterB}) /\ Len(LastOf(flat, n)) = n
       /\ \A p \in 1 .. n : LastOf(flat, n)[p] = flat[(4 - r) + p]
    <2>1. flat \in Seq(Bit \cup {LetterB}) /\ n \in Nat /\ Len(flat) >= n
        BY <1>1, <1>11
    <2>2. LastOf(flat, n) \in Seq(Bit \cup {LetterB}) /\ Len(LastOf(flat, n)) = n
          /\ \A p \in 1 .. n : LastOf(flat, n)[p] = flat[Len(flat) - n + p]
        BY <2>1, LastOfIs
    <2>3. \A p \in 1 .. n : Len(flat) - n + p = (4 - r) + p
        BY <1>1, <1>11
    <2> QED BY <2>2, <2>3
<1>14. ASSUME NEW p \in 1 .. n PROVE flat[(4 - r) + p] = bits[p]
    <2>1. CASE p <= r
        <3> DEFINE j == (4 - r) + p
        <3>1. p \in 1 .. r /\ j \in 1 .. 4 /\ 4 * (1 - 1) + j = j /\ 1 \in 1 .. 1 + q
            BY <1>1, <2>1
        <3>2. flat[j] = seqs[1][j]
            <4> HIDE DEF j
            <4>1. flat[4 * (1 - 1) + j] = seqs[1][j]
                BY <1>11, <3>1
            <4> QED BY <3>1, <4>1
        <3>3. seqs[1] = Padded(Number(chunks[1]), 4)
            BY <1>7, <3>1
        <3>4. chunks[1] \in Seq(Bit) /\ Len(chunks[1]) = r /\ Len(chunks[1]) \in {2, 3, 4}
            BY <1>1, <1>5
        <3>5. Padded(Number(chunks[1]), 4)[(4 - r) + p] = chunks[1][p]
            BY <3>1, <3>4, HexDigit
        <3> QED BY <1>5, <3>1, <3>2, <3>3, <3>5
    <2>2. CASE ~(p <= r)
        <3> DEFINE i == ((p - r - 1) \div 4) + 1
                   j == ((p - r - 1) % 4) + 1
        <3>1. i \in 1 .. q /\ j \in 1 .. 4 /\ p = r + 4 * (i - 1) + j
            <4> DEFINE c == p - r - 1
            <4>1. c \in Nat /\ c < 4 * q /\ p = r + c + 1
                BY <1>1, <2>2
            <4> HIDE DEF c
            <4>2. c % 4 \in 0 .. 3 /\ c \div 4 \in Nat /\ c = 4 * (c \div 4) + (c % 4)
                BY <4>1, FourBits
            <4> DEFINE x == c \div 4
                       y == c % 4
            <4> HIDE DEF x, y
            <4>3. x \in Nat /\ y \in 0 .. 3 /\ c = 4 * x + y
                BY <4>2 DEF x, y
            <4>4. x + 1 \in 1 .. q /\ y + 1 \in 1 .. 4 /\ p = r + 4 * ((x + 1) - 1) + (y + 1)
                BY <1>1, <4>1, <4>3
            <4> QED BY <4>4 DEF x, y, c
        <3> HIDE DEF i, j
        <3>2. (4 - r) + p = 4 * ((i + 1) - 1) + j /\ i + 1 \in 1 .. 1 + q
            BY <1>1, <3>1
        <3>3. flat[(4 - r) + p] = seqs[i + 1][j]
            <4> DEFINE m == i + 1
            <4>1. m \in 1 .. 1 + q /\ (4 - r) + p = 4 * (m - 1) + j
                BY <3>2
            <4> HIDE DEF m
            <4>2. flat[4 * (m - 1) + j] = seqs[m][j]
                BY <1>11, <3>1, <4>1, Zenon
            <4> QED BY <4>1, <4>2 DEF m
        <3>4. seqs[i + 1] = Padded(Number(chunks[i + 1]), 4)
            BY <1>7, <3>2
        <3>5. chunks[i + 1] \in Seq(Bit) /\ Len(chunks[i + 1]) = 4 /\ chunks[i + 1][j] = bits[r + 4 * (i - 1) + j]
            BY <1>5, <3>1
        <3>6. Padded(Number(chunks[i + 1]), 4)[(4 - 4) + j] = chunks[i + 1][j]
            <4> DEFINE s == chunks[i + 1]
            <4>1. s \in Seq(Bit) /\ Len(s) = 4 /\ Len(s) \in {2, 3, 4}
                BY <3>5
            <4> HIDE DEF s
            <4>2. \A k \in 1 .. Len(s) : Padded(Number(s), 4)[(4 - Len(s)) + k] = s[k]
                BY <4>1, HexDigit
            <4>3. Padded(Number(s), 4)[(4 - 4) + j] = s[j]
                BY <3>1, <4>1, <4>2
            <4> QED BY <4>3 DEF s
        <3>7. (4 - 4) + j = j
            BY <3>1
        <3> QED BY <3>1, <3>3, <3>4, <3>5, <3>6, <3>7
    <2> QED BY <2>1, <2>2
<1>15. LastOf(flat, n) = bits
    <2> DEFINE S == Bit \cup {LetterB}
               t == LastOf(flat, n)
    <2>1. t \in Seq(S) /\ Len(t) = n
        BY <1>13 DEF S
    <2>2. bits \in Seq(S) /\ Len(bits) = n
        BY DEF n
    <2>3. \A p \in 1 .. n : t[p] = bits[p]
        BY <1>13, <1>14
    <2> HIDE DEF t, S
    <2>4. t = bits
        BY <2>1, <2>2, <2>3, SeqEqual
    <2> QED BY <2>4 DEF t
<1> QED BY <1>4, <1>12, <1>15

-----------------------------------------------------------------------------
(* What the masks tell of an instruction.                                    *)

LEMMA WidthsExist ==
    ASSUME NEW layout PROVE \A n \in Nat : \E g : g[0] = 0 /\ \A i \in 1 .. n : g[i] = g[i - 1] + layout[i].width
<1> DEFINE Grows(g, n) == g[0] = 0 /\ \A i \in 1 .. n : g[i] = g[i - 1] + layout[i].width
           T == {n \in Nat : \E g : Grows(g, n)}
<1>1. 0 \in T
    <2> DEFINE g == [i \in 0 .. 0 |-> 0]
    <2>1. g[0] = 0 /\ 1 .. 0 = {}
        OBVIOUS
    <2> HIDE DEF g
    <2>2. Grows(g, 0)
        BY <2>1
    <2> HIDE DEF Grows
    <2> QED BY <2>2
<1>2. ASSUME NEW n \in Nat, n \in T PROVE n + 1 \in T
    <2>1. PICK g : Grows(g, n)
        BY <1>2
    <2> DEFINE h == [i \in 0 .. n + 1 |-> IF i <= n THEN g[i] ELSE g[n] + layout[n + 1].width]
    <2>2. h[n + 1] = g[n] + layout[n + 1].width /\ \A i \in 0 .. n : h[i] = g[i]
        OBVIOUS
    <2> HIDE DEF h
    <2>3. h[0] = 0
        BY <2>1, <2>2
    <2>4. ASSUME NEW i \in 1 .. n + 1 PROVE h[i] = h[i - 1] + layout[i].width
        <3>1. CASE i = n + 1
            <4>1. i - 1 = n /\ n \in 0 .. n
                BY <3>1
            <4> QED BY <2>2, <3>1, <4>1
        <3>2. CASE i \in 1 .. n
            <4>1. i \in 0 .. n /\ i - 1 \in 0 .. n /\ g[i] = g[i - 1] + layout[i].width
                BY <2>1, <3>2
            <4> QED BY <2>2, <4>1
        <3> QED BY <3>1, <3>2
    <2>5. Grows(h, n + 1)
        BY <2>3, <2>4
    <2> HIDE DEF Grows
    <2> QED BY <2>5
<1> HIDE DEF T
<1>3. Nat \subseteq T
    BY <1>1, <1>2, NaturalInduction
<1> QED BY <1>3 DEF T

LEMMA LaidOut ==
    ASSUME NEW layout, Shaped(layout) PROVE \E g : Widths(g, layout)
<1>1. Len(layout) \in Nat
    BY DEF Shaped
<1> QED BY <1>1, WidthsExist DEF Widths

LEMMA FoldExists ==
    ASSUME NEW s PROVE \A n \in Nat : \E h : h[0] = 0 /\ \A i \in 1 .. n : h[i] = 2 * h[i - 1] + s[i]
<1> DEFINE Doubles(h, n) == h[0] = 0 /\ \A i \in 1 .. n : h[i] = 2 * h[i - 1] + s[i]
           T == {n \in Nat : \E h : Doubles(h, n)}
<1>1. 0 \in T
    <2> DEFINE h == [i \in 0 .. 0 |-> 0]
    <2>1. h[0] = 0 /\ 1 .. 0 = {}
        OBVIOUS
    <2> HIDE DEF h
    <2>2. Doubles(h, 0)
        BY <2>1
    <2> HIDE DEF Doubles
    <2> QED BY <2>2
<1>2. ASSUME NEW n \in Nat, n \in T PROVE n + 1 \in T
    <2>1. PICK g : Doubles(g, n)
        BY <1>2
    <2> DEFINE h == [i \in 0 .. n + 1 |-> IF i <= n THEN g[i] ELSE 2 * g[n] + s[n + 1]]
    <2>2. h[n + 1] = 2 * g[n] + s[n + 1] /\ \A i \in 0 .. n : h[i] = g[i]
        OBVIOUS
    <2> HIDE DEF h
    <2>3. h[0] = 0
        BY <2>1, <2>2
    <2>4. ASSUME NEW i \in 1 .. n + 1 PROVE h[i] = 2 * h[i - 1] + s[i]
        <3>1. CASE i = n + 1
            <4>1. i - 1 = n /\ n \in 0 .. n
                BY <3>1
            <4> QED BY <2>2, <3>1, <4>1
        <3>2. CASE i \in 1 .. n
            <4>1. i \in 0 .. n /\ i - 1 \in 0 .. n /\ g[i] = 2 * g[i - 1] + s[i]
                BY <2>1, <3>2
            <4> QED BY <2>2, <4>1
        <3> QED BY <3>1, <3>2
    <2>5. Doubles(h, n + 1)
        BY <2>3, <2>4
    <2> HIDE DEF Doubles
    <2> QED BY <2>5
<1> HIDE DEF T
<1>3. Nat \subseteq T
    BY <1>1, <1>2, NaturalInduction
<1> QED BY <1>3 DEF T

\* One bit more.
LEMMA FirstMore ==
    ASSUME NEW b \in Seq(Bit), NEW w \in Nat, w + 1 <= Len(b)
    PROVE  First(b, w + 1) = 2 * First(b, w) + b[w + 1]
<1> DEFINE n == Len(b)
<1>1. n \in Nat
    OBVIOUS
<1>2. PICK h : h[0] = 0 /\ \A i \in 1 .. n : h[i] = 2 * h[i - 1] + b[i]
    BY <1>1, FoldExists
<1>3. ASSUME NEW v \in 0 .. n PROVE First(b, v) = h[v]
    <2> DEFINE s == SubSeq(b, 1, v)
    <2>1. 1 \in 1 .. Len(b) + 1 /\ v \in 1 - 1 .. Len(b)
        BY <1>1
    <2>2. s \in Seq(Bit) /\ Len(s) = v - 1 + 1 /\ \A i \in 1 .. v - 1 + 1 : s[i] = b[1 + i - 1]
        BY <2>1, SubSeqProperties
    <2>3. v - 1 + 1 = v /\ \A i \in 1 .. v : 1 + i - 1 = i /\ i \in 1 .. n
        BY <1>1
    <2> HIDE DEF s
    <2>4. s \in Seq(Bit) /\ Len(s) = v /\ \A i \in 1 .. v : s[i] = b[i]
        BY <2>2, <2>3
    <2>5. \A i \in 1 .. Len(s) : h[i] = 2 * h[i - 1] + s[i]
        BY <1>2, <2>3, <2>4
    <2>6. Number(s) = h[Len(s)]
        BY <1>2, <2>4, <2>5, NumberIs
    <2> QED BY <2>4, <2>6 DEF First, s
<1>4. w \in 0 .. n /\ w + 1 \in 0 .. n /\ w + 1 \in 1 .. n /\ (w + 1) - 1 = w
    BY <1>1
<1>5. h[w + 1] = 2 * h[w] + b[w + 1]
    BY <1>2, <1>4
<1> QED BY <1>3, <1>4, <1>5

LEMMA FirstNone == ASSUME NEW b \in Seq(Bit) PROVE First(b, 0) = 0
<1> DEFINE s == SubSeq(b, 1, 0)
           h == [i \in 0 .. 0 |-> 0]
<1>1. 1 \in 1 .. Len(b) + 1 /\ 0 \in 1 - 1 .. Len(b)
    OBVIOUS
<1>2. s \in Seq(Bit) /\ Len(s) = 0 - 1 + 1
    BY <1>1, SubSeqProperties
<1>3. h[0] = 0 /\ 1 .. 0 = {} /\ 0 - 1 + 1 = 0
    OBVIOUS
<1> HIDE DEF s, h
<1>4. \A i \in 1 .. Len(s) : h[i] = 2 * h[i - 1] + s[i]
    BY <1>2, <1>3
<1>5. Number(s) = h[Len(s)]
    BY <1>2, <1>3, <1>4, NumberIs
<1> QED BY <1>2, <1>3, <1>5 DEF First, s

LEMMA FirstIsNat == ASSUME NEW b \in Seq(Bit) PROVE \A w \in 0 .. Len(b) : First(b, w) \in Nat
<1> DEFINE T == {w \in Nat : w \in 0 .. Len(b) => First(b, w) \in Nat}
<1>1. 0 \in T
    BY FirstNone
<1>2. ASSUME NEW w \in Nat, w \in T PROVE w + 1 \in T
    <2> SUFFICES ASSUME w + 1 \in 0 .. Len(b) PROVE First(b, w + 1) \in Nat
        OBVIOUS
    <2>1. w \in 0 .. Len(b) /\ w + 1 <= Len(b) /\ w + 1 \in 1 .. Len(b)
        OBVIOUS
    <2>2. First(b, w) \in Nat /\ b[w + 1] \in {0, 1}
        BY <1>2, <2>1 DEF Bit
    <2>3. First(b, w + 1) = 2 * First(b, w) + b[w + 1]
        BY <2>1, FirstMore
    <2> QED BY <2>2, <2>3
<1> HIDE DEF T
<1>3. Nat \subseteq T
    BY <1>1, <1>2, NaturalInduction
<1> QED BY <1>3 DEF T

\* The first bits of the first bits.
LEMMA FirstHalf ==
    ASSUME NEW b \in Seq(Bit), NEW w \in Nat, w + 1 <= Len(b)
    PROVE  /\ First(b, w) \in Nat /\ First(b, w + 1) \in Nat
           /\ First(b, w + 1) \in {2 * First(b, w), 2 * First(b, w) + 1}
<1>1. w \in 0 .. Len(b) /\ w + 1 \in 0 .. Len(b) /\ w + 1 \in 1 .. Len(b)
    OBVIOUS
<1>2. First(b, w) \in Nat /\ First(b, w + 1) \in Nat /\ b[w + 1] \in {0, 1}
    BY <1>1, FirstIsNat DEF Bit
<1>3. First(b, w + 1) = 2 * First(b, w) + b[w + 1]
    BY FirstMore
<1> QED BY <1>2, <1>3

\* The bits of an instruction that could be one of that layout.
Like(layout, b) ==
    /\ b \in Seq(Bit) /\ Len(b) >= 18
    /\ Alike(Mask(layout), b)

LEMMA FixedHas ==
    ASSUME NEW w, NEW n
    PROVE  Fixed(w, n).kind = "fixed" /\ Fixed(w, n).width = w /\ Fixed(w, n).value = n
<1>1. Fixed(w, n) = [kind |-> "fixed", name |-> NoName, width |-> w, value |-> n]
    BY DEF Fixed, NoName
<1> QED BY <1>1

LEMMA FieldHas ==
    ASSUME NEW k, NEW n, NEW w
    PROVE  Field(k, n, w).width = w /\ Field(k, n, w).value = 0
BY DEF Field

LEMMA ConditionHas == Condition.width = 4 /\ Condition.value = 0
BY FieldHas DEF Condition

LEMMA HeadTold ==
    ASSUME NEW layout, Shaped(layout), 1 <= Len(layout), layout[1].kind = "fixed",
           layout[1].width <= 18, layout[1].value < Power[layout[1].width],
           NEW b, Like(layout, b)
    PROVE  First(b, layout[1].width) = layout[1].value
<1>1. PICK g : Widths(g, layout)
    BY LaidOut
<1>2. b \in Seq(Bit) /\ Alike(Mask(layout), b) /\ Len(b) >= 18
    BY DEF Like
<1>3. layout[1].width <= Len(b)
    <2> DEFINE w == layout[1].width
               n == Len(b)
    <2>1. w \in 1 .. 27 /\ n \in Nat /\ n >= 18 /\ w <= 18
        BY <1>2 DEF Shaped
    <2> HIDE DEF w, n
    <2>2. w <= n
        BY <2>1
    <2> QED BY <2>2 DEF w, n
<1> QED BY <1>1, <1>2, <1>3, FirstTold

\* Where a part begins.
Begun(layout, i, k) == \A g : Widths(g, layout) => g[i - 1] = k

Fills(layout, i, w, n) ==
    i \in 1 .. Len(layout) /\ layout[i].kind = "fixed" /\ layout[i].width = w /\ layout[i].value = n
Tells(b, place, n, w, j) == b[place] = (n \div Power[w - j]) % 2

LEMMA TailTold ==
    ASSUME NEW layout, Shaped(layout), NEW b, Like(layout, b),
           NEW i, NEW w, NEW n, Fills(layout, i, w, n), NEW k, Begun(layout, i, k),
           NEW j \in 1 .. w, k + j <= Len(b)
    PROVE  Tells(b, k + j, n, w, j)
<1>1. PICK g : Widths(g, layout)
    BY LaidOut
<1>2. b \in Seq(Bit) /\ Alike(Mask(layout), b)
    BY DEF Like
<1>3. g[i - 1] = k
    BY <1>1 DEF Begun
<1>4. i \in 1 .. Len(layout) /\ layout[i].kind = "fixed" /\ layout[i].width = w /\ layout[i].value = n
    BY DEF Fills
<1>5. b[g[i - 1] + j] = (layout[i].value \div Power[layout[i].width - j]) % 2
    BY <1>1, <1>2, <1>3, <1>4, FixedTold
<1> QED BY <1>3, <1>4, <1>5 DEF Tells

LEMMA ThreeRegistersTells ==
    ASSUME NEW op \in Small, NEW tail \in Small, op < Power[7],
           NEW b, Like(ThreeRegisters(op, tail), b)
    PROVE  First(b, 7) = op /\ (Len(b) >= 27 => b[25] = (tail \div 2) % 2 /\ b[26] = (tail \div 1) % 2)
<1> DEFINE layout == ThreeRegisters(op, tail)
           p1 == Fixed(7, op)
           p2 == Field("unsigned", "rA", 5)
           p3 == Field("unsigned", "rB", 5)
           p4 == Field("unsigned", "rC", 5)
           p5 == Fixed(4, tail)
           p6 == Field("unsigned", "UF", 1)
<1>1. /\ p1.width = 7 /\ p1.value = op /\ p1.kind = "fixed"
      /\ p2.width = 5 /\ p2.value = 0
      /\ p3.width = 5 /\ p3.value = 0
      /\ p4.width = 5 /\ p4.value = 0
      /\ p5.width = 4 /\ p5.value = tail /\ p5.kind = "fixed"
      /\ p6.width = 1 /\ p6.value = 0
    BY FixedHas, FieldHas
<1>2. layout = <<p1, p2, p3, p4, p5, p6>>
    BY DEF ThreeRegisters, Register, Unsigned, UpdateFlags
<1>3. Like(layout, b)
    OBVIOUS
<1> HIDE DEF layout, p1, p2, p3, p4, p5, p6
<1>4. Len(layout) = 6 /\ DOMAIN layout = 1 .. 6
      /\ layout[1] = p1
      /\ layout[2] = p2
      /\ layout[3] = p3
      /\ layout[4] = p4
      /\ layout[5] = p5
      /\ layout[6] = p6
    BY <1>2
<1>5. Shaped(layout)
    BY <1>1, <1>4, ZeroOne DEF Shaped
<1>6. First(b, 7) = op
    <2>1. /\ 1 <= Len(layout) /\ layout[1].kind = "fixed" /\ layout[1].width = 7 /\ layout[1].value = op
          /\ layout[1].width <= 18 /\ layout[1].value < Power[layout[1].width]
        BY <1>1, <1>4
    <2>2. First(b, layout[1].width) = layout[1].value
        BY <1>3, <1>5, <2>1, HeadTold
    <2> QED BY <2>1, <2>2
<1>7. Begun(layout, 5, 22)
    BY <1>1, <1>4 DEF Widths, Begun
<1>8. Len(b) >= 27 => b[25] = (tail \div Power[4 - 3]) % 2
    <2> SUFFICES ASSUME Len(b) >= 27 PROVE b[25] = (tail \div Power[4 - 3]) % 2
        OBVIOUS
    <2>1. Fills(layout, 5, 4, tail)
        BY <1>1, <1>4 DEF Fills
    <2>2. 22 + 3 = 25 /\ 22 + 3 <= Len(b) /\ 3 \in 1 .. 4
        BY <1>3 DEF Like
    <2>3. Tells(b, 22 + 3, tail, 4, 3)
        BY <1>3, <1>5, <1>7, <2>1, <2>2, TailTold
    <2> QED BY <2>2, <2>3 DEF Tells
<1>9. Len(b) >= 27 => b[26] = (tail \div Power[4 - 4]) % 2
    <2> SUFFICES ASSUME Len(b) >= 27 PROVE b[26] = (tail \div Power[4 - 4]) % 2
        OBVIOUS
    <2>1. Fills(layout, 5, 4, tail)
        BY <1>1, <1>4 DEF Fills
    <2>2. 22 + 4 = 26 /\ 22 + 4 <= Len(b) /\ 4 \in 1 .. 4
        BY <1>3 DEF Like
    <2>3. Tells(b, 22 + 4, tail, 4, 4)
        BY <1>3, <1>5, <1>7, <2>1, <2>2, TailTold
    <2> QED BY <2>2, <2>3 DEF Tells
<1> QED BY <1>6, <1>8, <1>9, SmallPowers

LEMMA WithImmediateTells ==
    ASSUME NEW op \in Small, NEW tail \in Small, op < Power[7],
           NEW b, Like(WithImmediate(op, tail), b)
    PROVE  First(b, 7) = op /\ (Len(b) >= 27 => b[25] = (tail \div 2) % 2 /\ b[26] = (tail \div 1) % 2)
<1> DEFINE layout == WithImmediate(op, tail)
           p1 == Fixed(7, op)
           p2 == Field("unsigned", "rA", 5)
           p3 == Field("unsigned", "rB", 5)
           p4 == Field("signed", "Immediate", 7)
           p5 == Fixed(2, tail)
           p6 == Field("unsigned", "UF", 1)
<1>1. /\ p1.width = 7 /\ p1.value = op /\ p1.kind = "fixed"
      /\ p2.width = 5 /\ p2.value = 0
      /\ p3.width = 5 /\ p3.value = 0
      /\ p4.width = 7 /\ p4.value = 0
      /\ p5.width = 2 /\ p5.value = tail /\ p5.kind = "fixed"
      /\ p6.width = 1 /\ p6.value = 0
    BY FixedHas, FieldHas
<1>2. layout = <<p1, p2, p3, p4, p5, p6>>
    BY DEF WithImmediate, Register, Unsigned, Signed, UpdateFlags
<1>3. Like(layout, b)
    OBVIOUS
<1> HIDE DEF layout, p1, p2, p3, p4, p5, p6
<1>4. Len(layout) = 6 /\ DOMAIN layout = 1 .. 6
      /\ layout[1] = p1
      /\ layout[2] = p2
      /\ layout[3] = p3
      /\ layout[4] = p4
      /\ layout[5] = p5
      /\ layout[6] = p6
    BY <1>2
<1>5. Shaped(layout)
    BY <1>1, <1>4, ZeroOne DEF Shaped
<1>6. First(b, 7) = op
    <2>1. /\ 1 <= Len(layout) /\ layout[1].kind = "fixed" /\ layout[1].width = 7 /\ layout[1].value = op
          /\ layout[1].width <= 18 /\ layout[1].value < Power[layout[1].width]
        BY <1>1, <1>4
    <2>2. First(b, layout[1].width) = layout[1].value
        BY <1>3, <1>5, <2>1, HeadTold
    <2> QED BY <2>1, <2>2
<1>7. Begun(layout, 5, 24)
    BY <1>1, <1>4 DEF Widths, Begun
<1>8. Len(b) >= 27 => b[25] = (tail \div Power[2 - 1]) % 2
    <2> SUFFICES ASSUME Len(b) >= 27 PROVE b[25] = (tail \div Power[2 - 1]) % 2
        OBVIOUS
    <2>1. Fills(layout, 5, 2, tail)
        BY <1>1, <1>4 DEF Fills
    <2>2. 24 + 1 = 25 /\ 24 + 1 <= Len(b) /\ 1 \in 1 .. 2
        BY <1>3 DEF Like
    <2>3. Tells(b, 24 + 1, tail, 2, 1)
        BY <1>3, <1>5, <1>7, <2>1, <2>2, TailTold
    <2> QED BY <2>2, <2>3 DEF Tells
<1>9. Len(b) >= 27 => b[26] = (tail \div Power[2 - 2]) % 2
    <2> SUFFICES ASSUME Len(b) >= 27 PROVE b[26] = (tail \div Power[2 - 2]) % 2
        OBVIOUS
    <2>1. Fills(layout, 5, 2, tail)
        BY <1>1, <1>4 DEF Fills
    <2>2. 24 + 2 = 26 /\ 24 + 2 <= Len(b) /\ 2 \in 1 .. 2
        BY <1>3 DEF Like
    <2>3. Tells(b, 24 + 2, tail, 2, 2)
        BY <1>3, <1>5, <1>7, <2>1, <2>2, TailTold
    <2> QED BY <2>2, <2>3 DEF Tells
<1> QED BY <1>6, <1>8, <1>9, SmallPowers

LEMMA WithUnsignedTells ==
    ASSUME NEW op \in Small, NEW tail \in Small, op < Power[7],
           NEW b, Like(WithUnsigned(op, tail), b)
    PROVE  First(b, 7) = op /\ (Len(b) >= 27 => b[25] = (tail \div 2) % 2 /\ b[26] = (tail \div 1) % 2)
<1> DEFINE layout == WithUnsigned(op, tail)
           p1 == Fixed(7, op)
           p2 == Field("unsigned", "rA", 5)
           p3 == Field("unsigned", "rB", 5)
           p4 == Field("unsigned", "Immediate", 7)
           p5 == Fixed(2, tail)
           p6 == Field("unsigned", "UF", 1)
<1>1. /\ p1.width = 7 /\ p1.value = op /\ p1.kind = "fixed"
      /\ p2.width = 5 /\ p2.value = 0
      /\ p3.width = 5 /\ p3.value = 0
      /\ p4.width = 7 /\ p4.value = 0
      /\ p5.width = 2 /\ p5.value = tail /\ p5.kind = "fixed"
      /\ p6.width = 1 /\ p6.value = 0
    BY FixedHas, FieldHas
<1>2. layout = <<p1, p2, p3, p4, p5, p6>>
    BY DEF WithUnsigned, Register, Unsigned, UpdateFlags
<1>3. Like(layout, b)
    OBVIOUS
<1> HIDE DEF layout, p1, p2, p3, p4, p5, p6
<1>4. Len(layout) = 6 /\ DOMAIN layout = 1 .. 6
      /\ layout[1] = p1
      /\ layout[2] = p2
      /\ layout[3] = p3
      /\ layout[4] = p4
      /\ layout[5] = p5
      /\ layout[6] = p6
    BY <1>2
<1>5. Shaped(layout)
    BY <1>1, <1>4, ZeroOne DEF Shaped
<1>6. First(b, 7) = op
    <2>1. /\ 1 <= Len(layout) /\ layout[1].kind = "fixed" /\ layout[1].width = 7 /\ layout[1].value = op
          /\ layout[1].width <= 18 /\ layout[1].value < Power[layout[1].width]
        BY <1>1, <1>4
    <2>2. First(b, layout[1].width) = layout[1].value
        BY <1>3, <1>5, <2>1, HeadTold
    <2> QED BY <2>1, <2>2
<1>7. Begun(layout, 5, 24)
    BY <1>1, <1>4 DEF Widths, Begun
<1>8. Len(b) >= 27 => b[25] = (tail \div Power[2 - 1]) % 2
    <2> SUFFICES ASSUME Len(b) >= 27 PROVE b[25] = (tail \div Power[2 - 1]) % 2
        OBVIOUS
    <2>1. Fills(layout, 5, 2, tail)
        BY <1>1, <1>4 DEF Fills
    <2>2. 24 + 1 = 25 /\ 24 + 1 <= Len(b) /\ 1 \in 1 .. 2
        BY <1>3 DEF Like
    <2>3. Tells(b, 24 + 1, tail, 2, 1)
        BY <1>3, <1>5, <1>7, <2>1, <2>2, TailTold
    <2> QED BY <2>2, <2>3 DEF Tells
<1>9. Len(b) >= 27 => b[26] = (tail \div Power[2 - 2]) % 2
    <2> SUFFICES ASSUME Len(b) >= 27 PROVE b[26] = (tail \div Power[2 - 2]) % 2
        OBVIOUS
    <2>1. Fills(layout, 5, 2, tail)
        BY <1>1, <1>4 DEF Fills
    <2>2. 24 + 2 = 26 /\ 24 + 2 <= Len(b) /\ 2 \in 1 .. 2
        BY <1>3 DEF Like
    <2>3. Tells(b, 24 + 2, tail, 2, 2)
        BY <1>3, <1>5, <1>7, <2>1, <2>2, TailTold
    <2> QED BY <2>2, <2>3 DEF Tells
<1> QED BY <1>6, <1>8, <1>9, SmallPowers

LEMMA TwoRegistersTells ==
    ASSUME NEW op \in Small, NEW tail \in Small, op < Power[9],
           NEW b, Like(TwoRegisters(op, tail), b)
    PROVE  First(b, 9) = op /\ (Len(b) >= 27 => b[20] = (tail \div 64) % 2 /\ b[21] = (tail \div 32) % 2)
<1> DEFINE layout == TwoRegisters(op, tail)
           p1 == Fixed(9, op)
           p2 == Field("unsigned", "rA", 5)
           p3 == Field("unsigned", "rB", 5)
           p4 == Fixed(7, tail)
           p5 == Field("unsigned", "UF", 1)
<1>1. /\ p1.width = 9 /\ p1.value = op /\ p1.kind = "fixed"
      /\ p2.width = 5 /\ p2.value = 0
      /\ p3.width = 5 /\ p3.value = 0
      /\ p4.width = 7 /\ p4.value = tail /\ p4.kind = "fixed"
      /\ p5.width = 1 /\ p5.value = 0
    BY FixedHas, FieldHas
<1>2. layout = <<p1, p2, p3, p4, p5>>
    BY DEF TwoRegisters, Register, Unsigned, UpdateFlags
<1>3. Like(layout, b)
    OBVIOUS
<1> HIDE DEF layout, p1, p2, p3, p4, p5
<1>4. Len(layout) = 5 /\ DOMAIN layout = 1 .. 5
      /\ layout[1] = p1
      /\ layout[2] = p2
      /\ layout[3] = p3
      /\ layout[4] = p4
      /\ layout[5] = p5
    BY <1>2
<1>5. Shaped(layout)
    BY <1>1, <1>4, ZeroOne DEF Shaped
<1>6. First(b, 9) = op
    <2>1. /\ 1 <= Len(layout) /\ layout[1].kind = "fixed" /\ layout[1].width = 9 /\ layout[1].value = op
          /\ layout[1].width <= 18 /\ layout[1].value < Power[layout[1].width]
        BY <1>1, <1>4
    <2>2. First(b, layout[1].width) = layout[1].value
        BY <1>3, <1>5, <2>1, HeadTold
    <2> QED BY <2>1, <2>2
<1>7. Begun(layout, 4, 19)
    BY <1>1, <1>4 DEF Widths, Begun
<1>8. Len(b) >= 27 => b[20] = (tail \div Power[7 - 1]) % 2
    <2> SUFFICES ASSUME Len(b) >= 27 PROVE b[20] = (tail \div Power[7 - 1]) % 2
        OBVIOUS
    <2>1. Fills(layout, 4, 7, tail)
        BY <1>1, <1>4 DEF Fills
    <2>2. 19 + 1 = 20 /\ 19 + 1 <= Len(b) /\ 1 \in 1 .. 7
        BY <1>3 DEF Like
    <2>3. Tells(b, 19 + 1, tail, 7, 1)
        BY <1>3, <1>5, <1>7, <2>1, <2>2, TailTold
    <2> QED BY <2>2, <2>3 DEF Tells
<1>9. Len(b) >= 27 => b[21] = (tail \div Power[7 - 2]) % 2
    <2> SUFFICES ASSUME Len(b) >= 27 PROVE b[21] = (tail \div Power[7 - 2]) % 2
        OBVIOUS
    <2>1. Fills(layout, 4, 7, tail)
        BY <1>1, <1>4 DEF Fills
    <2>2. 19 + 2 = 21 /\ 19 + 2 <= Len(b) /\ 2 \in 1 .. 7
        BY <1>3 DEF Like
    <2>3. Tells(b, 19 + 2, tail, 7, 2)
        BY <1>3, <1>5, <1>7, <2>1, <2>2, TailTold
    <2> QED BY <2>2, <2>3 DEF Tells
<1> QED BY <1>6, <1>8, <1>9, SmallPowers

LEMMA RandomTells ==
    ASSUME NEW op \in Small, NEW tail \in Small, op < Power[9],
           NEW b, Like(Random(op, tail), b)
    PROVE  First(b, 9) = op /\ (Len(b) >= 27 => b[20] = (tail \div 64) % 2 /\ b[21] = (tail \div 32) % 2)
<1> DEFINE layout == Random(op, tail)
           p1 == Fixed(9, op)
           p2 == Field("unsigned", "rA", 5)
           p3 == Fixed(12, tail)
           p4 == Field("unsigned", "UF", 1)
<1>1. /\ p1.width = 9 /\ p1.value = op /\ p1.kind = "fixed"
      /\ p2.width = 5 /\ p2.value = 0
      /\ p3.width = 12 /\ p3.value = tail /\ p3.kind = "fixed"
      /\ p4.width = 1 /\ p4.value = 0
    BY FixedHas, FieldHas
<1>2. layout = <<p1, p2, p3, p4>>
    BY DEF Random, Register, Unsigned, UpdateFlags
<1>3. Like(layout, b)
    OBVIOUS
<1> HIDE DEF layout, p1, p2, p3, p4
<1>4. Len(layout) = 4 /\ DOMAIN layout = 1 .. 4
      /\ layout[1] = p1
      /\ layout[2] = p2
      /\ layout[3] = p3
      /\ layout[4] = p4
    BY <1>2
<1>5. Shaped(layout)
    BY <1>1, <1>4, ZeroOne DEF Shaped
<1>6. First(b, 9) = op
    <2>1. /\ 1 <= Len(layout) /\ layout[1].kind = "fixed" /\ layout[1].width = 9 /\ layout[1].value = op
          /\ layout[1].width <= 18 /\ layout[1].value < Power[layout[1].width]
        BY <1>1, <1>4
    <2>2. First(b, layout[1].width) = layout[1].value
        BY <1>3, <1>5, <2>1, HeadTold
    <2> QED BY <2>1, <2>2
<1>7. Begun(layout, 3, 14)
    BY <1>1, <1>4 DEF Widths, Begun
<1>8. Len(b) >= 27 => b[20] = (tail \div Power[12 - 6]) % 2
    <2> SUFFICES ASSUME Len(b) >= 27 PROVE b[20] = (tail \div Power[12 - 6]) % 2
        OBVIOUS
    <2>1. Fills(layout, 3, 12, tail)
        BY <1>1, <1>4 DEF Fills
    <2>2. 14 + 6 = 20 /\ 14 + 6 <= Len(b) /\ 6 \in 1 .. 12
        BY <1>3 DEF Like
    <2>3. Tells(b, 14 + 6, tail, 12, 6)
        BY <1>3, <1>5, <1>7, <2>1, <2>2, TailTold
    <2> QED BY <2>2, <2>3 DEF Tells
<1>9. Len(b) >= 27 => b[21] = (tail \div Power[12 - 7]) % 2
    <2> SUFFICES ASSUME Len(b) >= 27 PROVE b[21] = (tail \div Power[12 - 7]) % 2
        OBVIOUS
    <2>1. Fills(layout, 3, 12, tail)
        BY <1>1, <1>4 DEF Fills
    <2>2. 14 + 7 = 21 /\ 14 + 7 <= Len(b) /\ 7 \in 1 .. 12
        BY <1>3 DEF Like
    <2>3. Tells(b, 14 + 7, tail, 12, 7)
        BY <1>3, <1>5, <1>7, <2>1, <2>2, TailTold
    <2> QED BY <2>2, <2>3 DEF Tells
<1> QED BY <1>6, <1>8, <1>9, SmallPowers

LEMMA SetProtectionTells ==
    ASSUME NEW op \in Small, op < Power[7],
           NEW b, Like(SetProtection(op), b)
    PROVE  First(b, 7) = op /\ (b[18] = 1)
<1> DEFINE layout == SetProtection(op)
           p1 == Fixed(7, op)
           p2 == Field("unsigned", "rA", 5)
           p3 == Field("unsigned", "rB", 5)
           p4 == Fixed(1, 1)
           p5 == Field("unsigned", "MemoryFlags", 2)
           p6 == Fixed(7, 0)
<1>1. /\ p1.width = 7 /\ p1.value = op /\ p1.kind = "fixed"
      /\ p2.width = 5 /\ p2.value = 0
      /\ p3.width = 5 /\ p3.value = 0
      /\ p4.width = 1 /\ p4.value = 1 /\ p4.kind = "fixed"
      /\ p5.width = 2 /\ p5.value = 0
      /\ p6.width = 7 /\ p6.value = 0 /\ p6.kind = "fixed"
    BY FixedHas, FieldHas
<1>2. layout = <<p1, p2, p3, p4, p5, p6>>
    BY DEF SetProtection, Register, Unsigned
<1>3. Like(layout, b)
    OBVIOUS
<1> HIDE DEF layout, p1, p2, p3, p4, p5, p6
<1>4. Len(layout) = 6 /\ DOMAIN layout = 1 .. 6
      /\ layout[1] = p1
      /\ layout[2] = p2
      /\ layout[3] = p3
      /\ layout[4] = p4
      /\ layout[5] = p5
      /\ layout[6] = p6
    BY <1>2
<1>5. Shaped(layout)
    BY <1>1, <1>4, ZeroOne DEF Shaped
<1>6. First(b, 7) = op
    <2>1. /\ 1 <= Len(layout) /\ layout[1].kind = "fixed" /\ layout[1].width = 7 /\ layout[1].value = op
          /\ layout[1].width <= 18 /\ layout[1].value < Power[layout[1].width]
        BY <1>1, <1>4
    <2>2. First(b, layout[1].width) = layout[1].value
        BY <1>3, <1>5, <2>1, HeadTold
    <2> QED BY <2>1, <2>2
<1>7. Begun(layout, 4, 17)
    BY <1>1, <1>4 DEF Widths, Begun
<1>8. b[18] = (1 \div Power[1 - 1]) % 2
    <2>1. Fills(layout, 4, 1, 1)
        BY <1>1, <1>4 DEF Fills
    <2>2. 17 + 1 = 18 /\ 17 + 1 <= Len(b) /\ 1 \in 1 .. 1
        BY <1>3 DEF Like
    <2>3. Tells(b, 17 + 1, 1, 1, 1)
        BY <1>3, <1>5, <1>7, <2>1, <2>2, TailTold
    <2> QED BY <2>2, <2>3 DEF Tells
<1> QED BY <1>6, <1>8, SmallPowers

LEMMA ReadProtectionTells ==
    ASSUME NEW op \in Small, op < Power[7],
           NEW b, Like(ReadProtection(op), b)
    PROVE  First(b, 7) = op /\ (b[18] = 0)
<1> DEFINE layout == ReadProtection(op)
           p1 == Fixed(7, op)
           p2 == Field("unsigned", "rA", 5)
           p3 == Field("unsigned", "rB", 5)
           p4 == Fixed(10, 0)
<1>1. /\ p1.width = 7 /\ p1.value = op /\ p1.kind = "fixed"
      /\ p2.width = 5 /\ p2.value = 0
      /\ p3.width = 5 /\ p3.value = 0
      /\ p4.width = 10 /\ p4.value = 0 /\ p4.kind = "fixed"
    BY FixedHas, FieldHas
<1>2. layout = <<p1, p2, p3, p4>>
    BY DEF ReadProtection, Register, Unsigned
<1>3. Like(layout, b)
    OBVIOUS
<1> HIDE DEF layout, p1, p2, p3, p4
<1>4. Len(layout) = 4 /\ DOMAIN layout = 1 .. 4
      /\ layout[1] = p1
      /\ layout[2] = p2
      /\ layout[3] = p3
      /\ layout[4] = p4
    BY <1>2
<1>5. Shaped(layout)
    BY <1>1, <1>4, ZeroOne DEF Shaped
<1>6. First(b, 7) = op
    <2>1. /\ 1 <= Len(layout) /\ layout[1].kind = "fixed" /\ layout[1].width = 7 /\ layout[1].value = op
          /\ layout[1].width <= 18 /\ layout[1].value < Power[layout[1].width]
        BY <1>1, <1>4
    <2>2. First(b, layout[1].width) = layout[1].value
        BY <1>3, <1>5, <2>1, HeadTold
    <2> QED BY <2>1, <2>2
<1>7. Begun(layout, 4, 17)
    BY <1>1, <1>4 DEF Widths, Begun
<1>8. b[18] = (0 \div Power[10 - 1]) % 2
    <2>1. Fills(layout, 4, 10, 0)
        BY <1>1, <1>4 DEF Fills
    <2>2. 17 + 1 = 18 /\ 17 + 1 <= Len(b) /\ 1 \in 1 .. 10
        BY <1>3 DEF Like
    <2>3. Tells(b, 17 + 1, 0, 10, 1)
        BY <1>3, <1>5, <1>7, <2>1, <2>2, TailTold
    <2> QED BY <2>2, <2>3 DEF Tells
<1> QED BY <1>6, <1>8, SmallPowers

LEMMA MoveImmediateTells ==
    ASSUME NEW op \in Small, op < Power[5],
           NEW b, Like(MoveImmediate(op), b)
    PROVE  First(b, 5) = op
<1> DEFINE layout == MoveImmediate(op)
           p1 == Fixed(5, op)
           p2 == Field("unsigned", "rA", 5)
           p3 == Field("signed", "Immediate", 17)
<1>1. /\ p1.width = 5 /\ p1.value = op /\ p1.kind = "fixed"
      /\ p2.width = 5 /\ p2.value = 0
      /\ p3.width = 17 /\ p3.value = 0
    BY FixedHas, FieldHas
<1>2. layout = <<p1, p2, p3>>
    BY DEF MoveImmediate, Register, Unsigned, Signed
<1>3. Like(layout, b)
    OBVIOUS
<1> HIDE DEF layout, p1, p2, p3
<1>4. Len(layout) = 3 /\ DOMAIN layout = 1 .. 3
      /\ layout[1] = p1
      /\ layout[2] = p2
      /\ layout[3] = p3
    BY <1>2
<1>5. Shaped(layout)
    BY <1>1, <1>4, ZeroOne DEF Shaped
<1>6. First(b, 5) = op
    <2>1. /\ 1 <= Len(layout) /\ layout[1].kind = "fixed" /\ layout[1].width = 5 /\ layout[1].value = op
          /\ layout[1].width <= 18 /\ layout[1].value < Power[layout[1].width]
        BY <1>1, <1>4
    <2>2. First(b, layout[1].width) = layout[1].value
        BY <1>3, <1>5, <2>1, HeadTold
    <2> QED BY <2>1, <2>2
<1> QED BY <1>6

LEMMA BranchTells ==
    ASSUME NEW op \in Small, op < Power[6],
           NEW b, Like(Branch(op), b)
    PROVE  First(b, 6) = op
<1> DEFINE layout == Branch(op)
           p1 == Fixed(6, op)
           p2 == Condition
           p3 == Field("signed", "Offset", 17)
<1>1. /\ p1.width = 6 /\ p1.value = op /\ p1.kind = "fixed"
      /\ p2.width = 4 /\ p2.value = 0
      /\ p3.width = 17 /\ p3.value = 0
    BY FixedHas, FieldHas, ConditionHas
<1>2. layout = <<p1, p2, p3>>
    BY DEF Branch, Signed
<1>3. Like(layout, b)
    OBVIOUS
<1> HIDE DEF layout, p1, p2, p3
<1>4. Len(layout) = 3 /\ DOMAIN layout = 1 .. 3
      /\ layout[1] = p1
      /\ layout[2] = p2
      /\ layout[3] = p3
    BY <1>2
<1>5. Shaped(layout)
    BY <1>1, <1>4, ZeroOne DEF Shaped
<1>6. First(b, 6) = op
    <2>1. /\ 1 <= Len(layout) /\ layout[1].kind = "fixed" /\ layout[1].width = 6 /\ layout[1].value = op
          /\ layout[1].width <= 18 /\ layout[1].value < Power[layout[1].width]
        BY <1>1, <1>4
    <2>2. First(b, layout[1].width) = layout[1].value
        BY <1>3, <1>5, <2>1, HeadTold
    <2> QED BY <2>1, <2>2
<1> QED BY <1>6

LEMMA CallingTells ==
    ASSUME NEW op \in Small, op < Power[6],
           NEW b, Like(Calling(op), b)
    PROVE  First(b, 6) = op
<1> DEFINE layout == Calling(op)
           p1 == Fixed(6, op)
           p2 == Condition
           p3 == Field("unsigned", "Offset", 17)
<1>1. /\ p1.width = 6 /\ p1.value = op /\ p1.kind = "fixed"
      /\ p2.width = 4 /\ p2.value = 0
      /\ p3.width = 17 /\ p3.value = 0
    BY FixedHas, FieldHas, ConditionHas
<1>2. layout = <<p1, p2, p3>>
    BY DEF Calling, Unsigned
<1>3. Like(layout, b)
    OBVIOUS
<1> HIDE DEF layout, p1, p2, p3
<1>4. Len(layout) = 3 /\ DOMAIN layout = 1 .. 3
      /\ layout[1] = p1
      /\ layout[2] = p2
      /\ layout[3] = p3
    BY <1>2
<1>5. Shaped(layout)
    BY <1>1, <1>4, ZeroOne DEF Shaped
<1>6. First(b, 6) = op
    <2>1. /\ 1 <= Len(layout) /\ layout[1].kind = "fixed" /\ layout[1].width = 6 /\ layout[1].value = op
          /\ layout[1].width <= 18 /\ layout[1].value < Power[layout[1].width]
        BY <1>1, <1>4
    <2>2. First(b, layout[1].width) = layout[1].value
        BY <1>3, <1>5, <2>1, HeadTold
    <2> QED BY <2>1, <2>2
<1> QED BY <1>6

LEMMA ToRegisterTells ==
    ASSUME NEW op \in Small, NEW width \in 1 .. 27, NEW tail \in Small, op < Power[6],
           NEW b, Like(ToRegister(op, width, tail), b)
    PROVE  First(b, 6) = op
<1> DEFINE layout == ToRegister(op, width, tail)
           p1 == Fixed(6, op)
           p2 == Condition
           p3 == Field("unsigned", "rA", 5)
           p4 == Fixed(width, tail)
<1>1. /\ p1.width = 6 /\ p1.value = op /\ p1.kind = "fixed"
      /\ p2.width = 4 /\ p2.value = 0
      /\ p3.width = 5 /\ p3.value = 0
      /\ p4.width = width /\ p4.value = tail /\ p4.kind = "fixed"
    BY FixedHas, FieldHas, ConditionHas
<1>2. layout = <<p1, p2, p3, p4>>
    BY DEF ToRegister, Register, Unsigned
<1>3. Like(layout, b)
    OBVIOUS
<1> HIDE DEF layout, p1, p2, p3, p4
<1>4. Len(layout) = 4 /\ DOMAIN layout = 1 .. 4
      /\ layout[1] = p1
      /\ layout[2] = p2
      /\ layout[3] = p3
      /\ layout[4] = p4
    BY <1>2
<1>5. Shaped(layout)
    BY <1>1, <1>4, ZeroOne DEF Shaped
<1>6. First(b, 6) = op
    <2>1. /\ 1 <= Len(layout) /\ layout[1].kind = "fixed" /\ layout[1].width = 6 /\ layout[1].value = op
          /\ layout[1].width <= 18 /\ layout[1].value < Power[layout[1].width]
        BY <1>1, <1>4
    <2>2. First(b, layout[1].width) = layout[1].value
        BY <1>3, <1>5, <2>1, HeadTold
    <2> QED BY <2>1, <2>2
<1> QED BY <1>6

LEMMA FarTells ==
    ASSUME NEW op \in Small, NEW name, op < Power[9],
           NEW b, Like(Far(op, name), b)
    PROVE  First(b, 9) = op
<1> DEFINE layout == Far(op, name)
           p1 == Fixed(9, op)
           p2 == Field("unsigned", name, 27)
<1>1. /\ p1.width = 9 /\ p1.value = op /\ p1.kind = "fixed"
      /\ p2.width = 27 /\ p2.value = 0
    BY FixedHas, FieldHas
<1>2. layout = <<p1, p2>>
    BY DEF Far, Unsigned
<1>3. Like(layout, b)
    OBVIOUS
<1> HIDE DEF layout, p1, p2
<1>4. Len(layout) = 2 /\ DOMAIN layout = 1 .. 2
      /\ layout[1] = p1
      /\ layout[2] = p2
    BY <1>2
<1>5. Shaped(layout)
    BY <1>1, <1>4, ZeroOne DEF Shaped
<1>6. First(b, 9) = op
    <2>1. /\ 1 <= Len(layout) /\ layout[1].kind = "fixed" /\ layout[1].width = 9 /\ layout[1].value = op
          /\ layout[1].width <= 18 /\ layout[1].value < Power[layout[1].width]
        BY <1>1, <1>4
    <2>2. First(b, layout[1].width) = layout[1].value
        BY <1>3, <1>5, <2>1, HeadTold
    <2> QED BY <2>1, <2>2
<1> QED BY <1>6

LEMMA CompareTells ==
    ASSUME NEW op \in Small, op < Power[8],
           NEW b, Like(Compare(op), b)
    PROVE  First(b, 8) = op
<1> DEFINE layout == Compare(op)
           p1 == Fixed(8, op)
           p2 == Field("unsigned", "rA", 5)
           p3 == Field("unsigned", "rB", 5)
<1>1. /\ p1.width = 8 /\ p1.value = op /\ p1.kind = "fixed"
      /\ p2.width = 5 /\ p2.value = 0
      /\ p3.width = 5 /\ p3.value = 0
    BY FixedHas, FieldHas
<1>2. layout = <<p1, p2, p3>>
    BY DEF Compare, Register, Unsigned
<1>3. Like(layout, b)
    OBVIOUS
<1> HIDE DEF layout, p1, p2, p3
<1>4. Len(layout) = 3 /\ DOMAIN layout = 1 .. 3
      /\ layout[1] = p1
      /\ layout[2] = p2
      /\ layout[3] = p3
    BY <1>2
<1>5. Shaped(layout)
    BY <1>1, <1>4, ZeroOne DEF Shaped
<1>6. First(b, 8) = op
    <2>1. /\ 1 <= Len(layout) /\ layout[1].kind = "fixed" /\ layout[1].width = 8 /\ layout[1].value = op
          /\ layout[1].width <= 18 /\ layout[1].value < Power[layout[1].width]
        BY <1>1, <1>4
    <2>2. First(b, layout[1].width) = layout[1].value
        BY <1>3, <1>5, <2>1, HeadTold
    <2> QED BY <2>1, <2>2
<1> QED BY <1>6

LEMMA CompareImmediateTells ==
    ASSUME NEW op \in Small, op < Power[8],
           NEW b, Like(CompareImmediate(op), b)
    PROVE  First(b, 8) = op
<1> DEFINE layout == CompareImmediate(op)
           p1 == Fixed(8, op)
           p2 == Field("unsigned", "rA", 5)
           p3 == Field("signed", "Immediate", 14)
<1>1. /\ p1.width = 8 /\ p1.value = op /\ p1.kind = "fixed"
      /\ p2.width = 5 /\ p2.value = 0
      /\ p3.width = 14 /\ p3.value = 0
    BY FixedHas, FieldHas
<1>2. layout = <<p1, p2, p3>>
    BY DEF CompareImmediate, Register, Unsigned, Signed
<1>3. Like(layout, b)
    OBVIOUS
<1> HIDE DEF layout, p1, p2, p3
<1>4. Len(layout) = 3 /\ DOMAIN layout = 1 .. 3
      /\ layout[1] = p1
      /\ layout[2] = p2
      /\ layout[3] = p3
    BY <1>2
<1>5. Shaped(layout)
    BY <1>1, <1>4, ZeroOne DEF Shaped
<1>6. First(b, 8) = op
    <2>1. /\ 1 <= Len(layout) /\ layout[1].kind = "fixed" /\ layout[1].width = 8 /\ layout[1].value = op
          /\ layout[1].width <= 18 /\ layout[1].value < Power[layout[1].width]
        BY <1>1, <1>4
    <2>2. First(b, layout[1].width) = layout[1].value
        BY <1>3, <1>5, <2>1, HeadTold
    <2> QED BY <2>1, <2>2
<1> QED BY <1>6

LEMMA LoadTells ==
    ASSUME NEW op \in Small, op < Power[7],
           NEW b, Like(Load(op), b)
    PROVE  First(b, 7) = op
<1> DEFINE layout == Load(op)
           p1 == Fixed(7, op)
           p2 == Field("unsigned", "rA", 5)
           p3 == Field("unsigned", "rB", 5)
           p4 == Field("unbound", "RegCount", 5)
           p5 == Field("unsigned", "AdjustRb", 2)
           p6 == Field("signed", "MemoryOffset", 27)
           p7 == Fixed(3, 0)
<1>1. /\ p1.width = 7 /\ p1.value = op /\ p1.kind = "fixed"
      /\ p2.width = 5 /\ p2.value = 0
      /\ p3.width = 5 /\ p3.value = 0
      /\ p4.width = 5 /\ p4.value = 0
      /\ p5.width = 2 /\ p5.value = 0
      /\ p6.width = 27 /\ p6.value = 0
      /\ p7.width = 3 /\ p7.value = 0 /\ p7.kind = "fixed"
    BY FixedHas, FieldHas
<1>2. layout = <<p1, p2, p3, p4, p5, p6, p7>>
    BY DEF Load, Memory, Register, Unsigned, Signed, Unbound
<1>3. Like(layout, b)
    OBVIOUS
<1> HIDE DEF layout, p1, p2, p3, p4, p5, p6, p7
<1>4. Len(layout) = 7 /\ DOMAIN layout = 1 .. 7
      /\ layout[1] = p1
      /\ layout[2] = p2
      /\ layout[3] = p3
      /\ layout[4] = p4
      /\ layout[5] = p5
      /\ layout[6] = p6
      /\ layout[7] = p7
    BY <1>2
<1>5. Shaped(layout)
    BY <1>1, <1>4, ZeroOne DEF Shaped
<1>6. First(b, 7) = op
    <2>1. /\ 1 <= Len(layout) /\ layout[1].kind = "fixed" /\ layout[1].width = 7 /\ layout[1].value = op
          /\ layout[1].width <= 18 /\ layout[1].value < Power[layout[1].width]
        BY <1>1, <1>4
    <2>2. First(b, layout[1].width) = layout[1].value
        BY <1>3, <1>5, <2>1, HeadTold
    <2> QED BY <2>1, <2>2
<1> QED BY <1>6

LEMMA StoreTells ==
    ASSUME NEW op \in Small, op < Power[7],
           NEW b, Like(Store(op), b)
    PROVE  First(b, 7) = op
<1> DEFINE layout == Store(op)
           p1 == Fixed(7, op)
           p2 == Field("unsigned", "rA", 5)
           p3 == Field("unsigned", "rB", 5)
           p4 == Field("unsigned", "RegCount", 5)
           p5 == Field("unsigned", "AdjustRb", 2)
           p6 == Field("unsigned", "MemOffset", 27)
           p7 == Fixed(3, 0)
<1>1. /\ p1.width = 7 /\ p1.value = op /\ p1.kind = "fixed"
      /\ p2.width = 5 /\ p2.value = 0
      /\ p3.width = 5 /\ p3.value = 0
      /\ p4.width = 5 /\ p4.value = 0
      /\ p5.width = 2 /\ p5.value = 0
      /\ p6.width = 27 /\ p6.value = 0
      /\ p7.width = 3 /\ p7.value = 0 /\ p7.kind = "fixed"
    BY FixedHas, FieldHas
<1>2. layout = <<p1, p2, p3, p4, p5, p6, p7>>
    BY DEF Store, Memory, Register, Unsigned
<1>3. Like(layout, b)
    OBVIOUS
<1> HIDE DEF layout, p1, p2, p3, p4, p5, p6, p7
<1>4. Len(layout) = 7 /\ DOMAIN layout = 1 .. 7
      /\ layout[1] = p1
      /\ layout[2] = p2
      /\ layout[3] = p3
      /\ layout[4] = p4
      /\ layout[5] = p5
      /\ layout[6] = p6
      /\ layout[7] = p7
    BY <1>2
<1>5. Shaped(layout)
    BY <1>1, <1>4, ZeroOne DEF Shaped
<1>6. First(b, 7) = op
    <2>1. /\ 1 <= Len(layout) /\ layout[1].kind = "fixed" /\ layout[1].width = 7 /\ layout[1].value = op
          /\ layout[1].width <= 18 /\ layout[1].value < Power[layout[1].width]
        BY <1>1, <1>4
    <2>2. First(b, layout[1].width) = layout[1].value
        BY <1>3, <1>5, <2>1, HeadTold
    <2> QED BY <2>1, <2>2
<1> QED BY <1>6

LEMMA TransferTells ==
    ASSUME NEW op \in Small, op < Power[7],
           NEW b, Like(Transfer(op), b)
    PROVE  First(b, 7) = op
<1> DEFINE layout == Transfer(op)
           p1 == Fixed(7, op)
           p2 == Field("unsigned", "rA", 5)
           p3 == Field("unsigned", "rB", 5)
           p4 == Field("unsigned", "rC", 5)
           p5 == Fixed(5, 0)
<1>1. /\ p1.width = 7 /\ p1.value = op /\ p1.kind = "fixed"
      /\ p2.width = 5 /\ p2.value = 0
      /\ p3.width = 5 /\ p3.value = 0
      /\ p4.width = 5 /\ p4.value = 0
      /\ p5.width = 5 /\ p5.value = 0 /\ p5.kind = "fixed"
    BY FixedHas, FieldHas
<1>2. layout = <<p1, p2, p3, p4, p5>>
    BY DEF Transfer, Register, Unsigned
<1>3. Like(layout, b)
    OBVIOUS
<1> HIDE DEF layout, p1, p2, p3, p4, p5
<1>4. Len(layout) = 5 /\ DOMAIN layout = 1 .. 5
      /\ layout[1] = p1
      /\ layout[2] = p2
      /\ layout[3] = p3
      /\ layout[4] = p4
      /\ layout[5] = p5
    BY <1>2
<1>5. Shaped(layout)
    BY <1>1, <1>4, ZeroOne DEF Shaped
<1>6. First(b, 7) = op
    <2>1. /\ 1 <= Len(layout) /\ layout[1].kind = "fixed" /\ layout[1].width = 7 /\ layout[1].value = op
          /\ layout[1].width <= 18 /\ layout[1].value < Power[layout[1].width]
        BY <1>1, <1>4
    <2>2. First(b, layout[1].width) = layout[1].value
        BY <1>3, <1>5, <2>1, HeadTold
    <2> QED BY <2>1, <2>2
<1> QED BY <1>6

LEMMA ConvertTells ==
    ASSUME NEW op \in Small, op < Power[9],
           NEW b, Like(Convert(op), b)
    PROVE  First(b, 9) = op
<1> DEFINE layout == Convert(op)
           p1 == Fixed(9, op)
           p2 == Field("unsigned", "rA", 5)
           p3 == Field("unsigned", "rB", 5)
           p4 == Fixed(8, 0)
<1>1. /\ p1.width = 9 /\ p1.value = op /\ p1.kind = "fixed"
      /\ p2.width = 5 /\ p2.value = 0
      /\ p3.width = 5 /\ p3.value = 0
      /\ p4.width = 8 /\ p4.value = 0 /\ p4.kind = "fixed"
    BY FixedHas, FieldHas
<1>2. layout = <<p1, p2, p3, p4>>
    BY DEF Convert, Register, Unsigned
<1>3. Like(layout, b)
    OBVIOUS
<1> HIDE DEF layout, p1, p2, p3, p4
<1>4. Len(layout) = 4 /\ DOMAIN layout = 1 .. 4
      /\ layout[1] = p1
      /\ layout[2] = p2
      /\ layout[3] = p3
      /\ layout[4] = p4
    BY <1>2
<1>5. Shaped(layout)
    BY <1>1, <1>4, ZeroOne DEF Shaped
<1>6. First(b, 9) = op
    <2>1. /\ 1 <= Len(layout) /\ layout[1].kind = "fixed" /\ layout[1].width = 9 /\ layout[1].value = op
          /\ layout[1].width <= 18 /\ layout[1].value < Power[layout[1].width]
        BY <1>1, <1>4
    <2>2. First(b, layout[1].width) = layout[1].value
        BY <1>3, <1>5, <2>1, HeadTold
    <2> QED BY <2>1, <2>2
<1> QED BY <1>6

LEMMA ExtendTells ==
    ASSUME NEW op \in Small, op < Power[12],
           NEW b, Like(Extend(op), b)
    PROVE  First(b, 12) = op
<1> DEFINE layout == Extend(op)
           p1 == Fixed(12, op)
           p2 == Field("unsigned", "rA", 5)
           p3 == Field("unsigned", "rB", 5)
           p4 == Fixed(5, 0)
<1>1. /\ p1.width = 12 /\ p1.value = op /\ p1.kind = "fixed"
      /\ p2.width = 5 /\ p2.value = 0
      /\ p3.width = 5 /\ p3.value = 0
      /\ p4.width = 5 /\ p4.value = 0 /\ p4.kind = "fixed"
    BY FixedHas, FieldHas
<1>2. layout = <<p1, p2, p3, p4>>
    BY DEF Extend, Register, Unsigned
<1>3. Like(layout, b)
    OBVIOUS
<1> HIDE DEF layout, p1, p2, p3, p4
<1>4. Len(layout) = 4 /\ DOMAIN layout = 1 .. 4
      /\ layout[1] = p1
      /\ layout[2] = p2
      /\ layout[3] = p3
      /\ layout[4] = p4
    BY <1>2
<1>5. Shaped(layout)
    BY <1>1, <1>4, ZeroOne DEF Shaped
<1>6. First(b, 12) = op
    <2>1. /\ 1 <= Len(layout) /\ layout[1].kind = "fixed" /\ layout[1].width = 12 /\ layout[1].value = op
          /\ layout[1].width <= 18 /\ layout[1].value < Power[layout[1].width]
        BY <1>1, <1>4
    <2>2. First(b, layout[1].width) = layout[1].value
        BY <1>3, <1>5, <2>1, HeadTold
    <2> QED BY <2>1, <2>2
<1> QED BY <1>6

LEMMA FlagsTells ==
    ASSUME NEW op \in Small, op < Power[12],
           NEW b, Like(Flags(op), b)
    PROVE  First(b, 12) = op
<1> DEFINE layout == Flags(op)
           p1 == Fixed(12, op)
           p2 == Field("unsigned", "rA", 5)
           p3 == Fixed(1, 0)
<1>1. /\ p1.width = 12 /\ p1.value = op /\ p1.kind = "fixed"
      /\ p2.width = 5 /\ p2.value = 0
      /\ p3.width = 1 /\ p3.value = 0 /\ p3.kind = "fixed"
    BY FixedHas, FieldHas
<1>2. layout = <<p1, p2, p3>>
    BY DEF Flags, Register, Unsigned
<1>3. Like(layout, b)
    OBVIOUS
<1> HIDE DEF layout, p1, p2, p3
<1>4. Len(layout) = 3 /\ DOMAIN layout = 1 .. 3
      /\ layout[1] = p1
      /\ layout[2] = p2
      /\ layout[3] = p3
    BY <1>2
<1>5. Shaped(layout)
    BY <1>1, <1>4, ZeroOne DEF Shaped
<1>6. First(b, 12) = op
    <2>1. /\ 1 <= Len(layout) /\ layout[1].kind = "fixed" /\ layout[1].width = 12 /\ layout[1].value = op
          /\ layout[1].width <= 18 /\ layout[1].value < Power[layout[1].width]
        BY <1>1, <1>4
    <2>2. First(b, layout[1].width) = layout[1].value
        BY <1>3, <1>5, <2>1, HeadTold
    <2> QED BY <2>1, <2>2
<1> QED BY <1>6

LEMMA PlainTells ==
    ASSUME NEW width \in 1 .. 18, NEW op \in Small, op < Power[width],
           NEW b, Like(Plain(width, op), b)
    PROVE  First(b, width) = op
<1> DEFINE layout == Plain(width, op)
           p1 == Fixed(width, op)
<1>1. p1.width = width /\ p1.value = op /\ p1.kind = "fixed"
    BY FixedHas
<1>2. layout = <<p1>>
    BY DEF Plain
<1>3. Like(layout, b)
    OBVIOUS
<1> HIDE DEF layout, p1
<1>4. Len(layout) = 1 /\ DOMAIN layout = 1 .. 1
      /\ layout[1] = p1
    BY <1>2
<1>5. Shaped(layout)
    BY <1>1, <1>4, ZeroOne DEF Shaped
<1>6. First(b, width) = op
    <2>1. /\ 1 <= Len(layout) /\ layout[1].kind = "fixed" /\ layout[1].width = width /\ layout[1].value = op
          /\ layout[1].width <= 18 /\ layout[1].value < Power[layout[1].width]
        BY <1>1, <1>4
    <2>2. First(b, layout[1].width) = layout[1].value
        BY <1>3, <1>5, <2>1, HeadTold
    <2> QED BY <2>1, <2>2
<1> QED BY <1>6

-----------------------------------------------------------------------------
(* The name of an instruction, from its bits.                                *)

\* The instructions of two words begin like that.
NarrowOps == {80, 92, 93, 94, 95, 110, 111}
Met(b) == Len(b) < 27 => First(b, 7) \in NarrowOps

Four(t, a, b, c, d) == IF t = 0 THEN a ELSE IF t = 1 THEN b ELSE IF t = 2 THEN c ELSE d
\* Those of which two bits behind the arguments decide.
Tailed == (0 .. 67) \ {52}
OfTail(f, t) ==
    CASE f = 0 -> IF t = 0 THEN "AD" ELSE "ADI" [] f = 1 -> "ADF"
      [] f = 2 -> IF t = 0 THEN "ADM" ELSE "ADIM" [] f = 3 -> "ADFM"
      [] f = 4 -> IF t = 0 THEN "SB" ELSE "SBI" [] f = 5 -> "SBF"
      [] f = 6 -> IF t = 0 THEN "SBM" ELSE "SBIM" [] f = 7 -> "SBFM"
      [] f = 8 -> Four(t, "MU", "MUI", "MUS", "MUIS") [] f = 9 -> "MUF"
      [] f = 10 -> Four(t, "MUM", "MIUM", "MUSM", "MUISM") [] f = 11 -> "MUFM"
      [] f = 12 -> Four(t, "DV", "DVI", "DVS", "DVIS") [] f = 13 -> "DVF"
      [] f = 14 -> Four(t, "DVM", "DVIM", "DVSM", "DVISM") [] f = 15 -> "DVFM"
      [] f = 16 -> Four(t, "MD", "MDI", "MDS", "MDIS") [] f = 17 -> "MDF"
      [] f = 18 -> Four(t, "MDM", "MDIM", "MDSM", "MDISM") [] f = 19 -> "MDFM"
      [] f = 20 -> IF t = 0 THEN "AN" ELSE "ANI" [] f = 22 -> "ANM"
      [] f = 24 -> IF t = 0 THEN "OR" ELSE "ORI" [] f = 26 -> "ORM"
      [] f = 28 -> IF t = 0 THEN "XR" ELSE "XRI" [] f = 30 -> "XRM"
      [] f = 32 -> IF t = 0 THEN "ADC" ELSE "ADCI" [] f = 34 -> IF t = 0 THEN "ADCM" ELSE "ADCIM"
      [] f = 36 -> IF t = 0 THEN "SBC" ELSE "SBCI" [] f = 38 -> IF t = 0 THEN "SBCM" ELSE "SBCIM"
      [] f = 40 -> "SL" [] f = 41 -> "SR" [] f = 42 -> "SLM" [] f = 43 -> "SRM" [] f = 45 -> "SA"
      [] f = 47 -> "SAM" [] f = 48 -> "RL" [] f = 49 -> "RR" [] f = 50 -> "RLM" [] f = 51 -> "RRM"
      [] f = 56 -> "SLI" [] f = 57 -> "SRI" [] f = 58 -> "SLIM" [] f = 59 -> "SRIM"
      [] f = 61 -> "SAI" [] f = 63 -> "SAIM" [] f = 64 -> "RLI" [] f = 65 -> "RRI"
      [] f = 66 -> "RLIM" [] f = 67 -> "RRIM"
\* Those that five more bits tell, two more, and one more.
OfFive(n) ==
    CASE n = 0 -> "RE" [] n = 1 -> "IR" [] n = 2 -> "WT" [] n = 3 -> "HT" [] n = 4 -> "EI" [] n = 5 -> "DI"
      [] n = 7 -> "SES" [] n = 8 -> "SEW" [] n = 9 -> "ZES" [] n = 10 -> "ZEW" [] n = 11 -> "SF"
      [] n = 12 -> "RF"
OfConvert(n) == CASE n = 324 -> "ITF" [] n = 325 -> "FTI" [] n = 326 -> "ITFM" [] n = 327 -> "FTIM"
OfPair(n, t) ==
    CASE n = 332 -> Four(t, "NG", "NT", "BF", "RND") [] n = 333 -> "NGF"
      [] n = 334 -> Four(t, "NGM", "NTM", "BFM", "RNDM") [] n = 335 -> "NGFM"
OfCompare(n) ==
    CASE n = 184 -> "CM" [] n = 185 -> "CMI" [] n = 186 -> "CMF" [] n = 188 -> "CMM" [] n = 189 -> "CMIM"
      [] n = 190 -> "CMFM"
OfRest(f) ==
    CASE f = 52 -> "DMT" [] f \in 68 .. 71 -> "MH" [] f \in 72 .. 75 -> "ML" [] f \in 76 .. 79 -> "MS"
      [] f = 84 -> "LDS" [] f = 85 -> "LDW" [] f = 86 -> "LDT" [] f = 88 -> "STS" [] f = 89 -> "STW"
      [] f = 90 -> "STT" [] f \in 96 .. 97 -> "B" [] f \in 100 .. 101 -> "BR" [] f \in 106 .. 107 -> "C"
      [] f \in 110 .. 111 -> "CR" [] f = 112 -> "BRR" [] f = 113 -> "BRA" [] f = 114 -> "CAR"
      [] f = 115 -> "CAA" [] f = 127 -> "DBRK"
Told(b) ==
    LET f == First(b, 7)
    IN  CASE f \in Tailed   -> OfTail(f, 2 * b[25] + b[26])
          [] f = 80         -> OfFive(First(b, 12) - 2560)
          [] f = 81         -> OfConvert(First(b, 9))
          [] f = 82         -> IF b[18] = 1 THEN "SMP" ELSE "RMP"
          [] f = 83         -> OfPair(First(b, 9), 2 * b[20] + b[21])
          [] f \in 92 .. 95 -> OfCompare(First(b, 8))
          [] OTHER          -> OfRest(f)

LEMMA OneMore ==
    ASSUME NEW b \in Seq(Bit), Len(b) >= 18, NEW w \in 0 .. 17
    PROVE  /\ First(b, w) \in Nat /\ First(b, w + 1) \in Nat
           /\ 2 * First(b, w) <= First(b, w + 1) /\ First(b, w + 1) <= 2 * First(b, w) + 1
<1>1. w \in Nat /\ w + 1 <= Len(b)
    OBVIOUS
<1>2. First(b, w) \in Nat /\ First(b, w + 1) \in Nat
      /\ First(b, w + 1) \in {2 * First(b, w), 2 * First(b, w) + 1}
    BY <1>1, FirstHalf
<1> DEFINE x == First(b, w)
           y == First(b, w + 1)
<1> HIDE DEF x, y
<1>3. x \in Nat /\ y \in Nat /\ (y = 2 * x \/ y = 2 * x + 1)
    BY <1>2 DEF x, y
<1>4. 2 * x <= y /\ y <= 2 * x + 1
    BY <1>3
<1> QED BY <1>3, <1>4 DEF x, y

\* Shorter and longer beginnings.
LEMMA Beginnings ==
    ASSUME NEW b \in Seq(Bit), Len(b) >= 18
    PROVE  /\ First(b, 7) \in 4 * First(b, 5) .. 4 * First(b, 5) + 3
           /\ First(b, 7) \in 2 * First(b, 6) .. 2 * First(b, 6) + 1
           /\ First(b, 8) \in 2 * First(b, 7) .. 2 * First(b, 7) + 1
           /\ First(b, 9) \in 4 * First(b, 7) .. 4 * First(b, 7) + 3
           /\ First(b, 12) \in 32 * First(b, 7) .. 32 * First(b, 7) + 31
           /\ First(b, 17) \in 1024 * First(b, 7) .. 1024 * First(b, 7) + 1023
           /\ First(b, 18) \in 64 * First(b, 12) .. 64 * First(b, 12) + 63
           /\ First(b, 7) \in Nat
<1> DEFINE f5 == First(b, 5)
           f6 == First(b, 6)
           f7 == First(b, 7)
           f8 == First(b, 8)
           f9 == First(b, 9)
           f10 == First(b, 10)
           f11 == First(b, 11)
           f12 == First(b, 12)
           f13 == First(b, 13)
           f14 == First(b, 14)
           f15 == First(b, 15)
           f16 == First(b, 16)
           f17 == First(b, 17)
           f18 == First(b, 18)
<1>1. f5 \in Nat /\ f6 \in Nat /\ 2 * f5 <= f6 /\ f6 <= 2 * f5 + 1
    <2>1. 5 \in 0 .. 17 /\ 5 + 1 = 6
        OBVIOUS
    <2> QED BY <2>1, OneMore
<1>2. f6 \in Nat /\ f7 \in Nat /\ 2 * f6 <= f7 /\ f7 <= 2 * f6 + 1
    <2>1. 6 \in 0 .. 17 /\ 6 + 1 = 7
        OBVIOUS
    <2> QED BY <2>1, OneMore
<1>3. f7 \in Nat /\ f8 \in Nat /\ 2 * f7 <= f8 /\ f8 <= 2 * f7 + 1
    <2>1. 7 \in 0 .. 17 /\ 7 + 1 = 8
        OBVIOUS
    <2> QED BY <2>1, OneMore
<1>4. f8 \in Nat /\ f9 \in Nat /\ 2 * f8 <= f9 /\ f9 <= 2 * f8 + 1
    <2>1. 8 \in 0 .. 17 /\ 8 + 1 = 9
        OBVIOUS
    <2> QED BY <2>1, OneMore
<1>5. f9 \in Nat /\ f10 \in Nat /\ 2 * f9 <= f10 /\ f10 <= 2 * f9 + 1
    <2>1. 9 \in 0 .. 17 /\ 9 + 1 = 10
        OBVIOUS
    <2> QED BY <2>1, OneMore
<1>6. f10 \in Nat /\ f11 \in Nat /\ 2 * f10 <= f11 /\ f11 <= 2 * f10 + 1
    <2>1. 10 \in 0 .. 17 /\ 10 + 1 = 11
        OBVIOUS
    <2> QED BY <2>1, OneMore
<1>7. f11 \in Nat /\ f12 \in Nat /\ 2 * f11 <= f12 /\ f12 <= 2 * f11 + 1
    <2>1. 11 \in 0 .. 17 /\ 11 + 1 = 12
        OBVIOUS
    <2> QED BY <2>1, OneMore
<1>8. f12 \in Nat /\ f13 \in Nat /\ 2 * f12 <= f13 /\ f13 <= 2 * f12 + 1
    <2>1. 12 \in 0 .. 17 /\ 12 + 1 = 13
        OBVIOUS
    <2> QED BY <2>1, OneMore
<1>9. f13 \in Nat /\ f14 \in Nat /\ 2 * f13 <= f14 /\ f14 <= 2 * f13 + 1
    <2>1. 13 \in 0 .. 17 /\ 13 + 1 = 14
        OBVIOUS
    <2> QED BY <2>1, OneMore
<1>10. f14 \in Nat /\ f15 \in Nat /\ 2 * f14 <= f15 /\ f15 <= 2 * f14 + 1
    <2>1. 14 \in 0 .. 17 /\ 14 + 1 = 15
        OBVIOUS
    <2> QED BY <2>1, OneMore
<1>11. f15 \in Nat /\ f16 \in Nat /\ 2 * f15 <= f16 /\ f16 <= 2 * f15 + 1
    <2>1. 15 \in 0 .. 17 /\ 15 + 1 = 16
        OBVIOUS
    <2> QED BY <2>1, OneMore
<1>12. f16 \in Nat /\ f17 \in Nat /\ 2 * f16 <= f17 /\ f17 <= 2 * f16 + 1
    <2>1. 16 \in 0 .. 17 /\ 16 + 1 = 17
        OBVIOUS
    <2> QED BY <2>1, OneMore
<1>13. f17 \in Nat /\ f18 \in Nat /\ 2 * f17 <= f18 /\ f18 <= 2 * f17 + 1
    <2>1. 17 \in 0 .. 17 /\ 17 + 1 = 18
        OBVIOUS
    <2> QED BY <2>1, OneMore
<1> HIDE DEF f5, f6, f7, f8, f9, f10, f11, f12, f13, f14, f15, f16, f17, f18
<1>14. 4 * f5 <= f7 /\ f7 <= 4 * f5 + 3
    BY <1>1, <1>2, SMT
<1>15. 4 * f7 <= f9 /\ f9 <= 4 * f7 + 3
    BY <1>3, <1>4, SMT
<1>16. 8 * f9 <= f12 /\ f12 <= 8 * f9 + 7
    BY <1>5, <1>6, <1>7, SMT
<1>17. 32 * f7 <= f12 /\ f12 <= 32 * f7 + 31
    BY <1>3, <1>4, <1>5, <1>7, <1>15, <1>16, SMT
<1>18. 8 * f12 <= f15 /\ f15 <= 8 * f12 + 7
    BY <1>8, <1>9, <1>10, SMT
<1>19. 4 * f15 <= f17 /\ f17 <= 4 * f15 + 3
    BY <1>11, <1>12, SMT
<1>20. 32 * f12 <= f17 /\ f17 <= 32 * f12 + 31
    BY <1>8, <1>10, <1>12, <1>18, <1>19, SMT
<1>21. 1024 * f7 <= f17 /\ f17 <= 1024 * f7 + 1023
    BY <1>3, <1>8, <1>12, <1>17, <1>20, SMT
<1>22. 64 * f12 <= f18 /\ f18 <= 64 * f12 + 63
    BY <1>8, <1>12, <1>13, <1>20, SMT
<1>23. f7 \in 4 * f5 .. 4 * f5 + 3
    BY <1>14, <1>1, <1>2, SMT
<1>24. f7 \in 2 * f6 .. 2 * f6 + 1
    BY <1>2, <1>2, <1>2, SMT
<1>25. f8 \in 2 * f7 .. 2 * f7 + 1
    BY <1>3, <1>3, <1>3, SMT
<1>26. f9 \in 4 * f7 .. 4 * f7 + 3
    BY <1>15, <1>3, <1>4, SMT
<1>27. f12 \in 32 * f7 .. 32 * f7 + 31
    BY <1>17, <1>3, <1>7, SMT
<1>28. f17 \in 1024 * f7 .. 1024 * f7 + 1023
    BY <1>21, <1>3, <1>12, SMT
<1>29. f18 \in 64 * f12 .. 64 * f12 + 63
    BY <1>22, <1>8, <1>13, SMT
<1> QED BY <1>23, <1>24, <1>25, <1>26, <1>27, <1>28, <1>29, <1>3 DEF f5, f6, f7, f8, f9, f12, f17, f18

Rest == {52} \cup (68 .. 79) \cup (84 .. 91) \cup (96 .. 127)
\* What the name is, by the first seven bits.
LEMMA ToldBy ==
    ASSUME NEW b
    PROVE  /\ First(b, 7) \in Tailed => Told(b) = OfTail(First(b, 7), 2 * b[25] + b[26])
           /\ First(b, 7) = 80 => Told(b) = OfFive(First(b, 12) - 2560)
           /\ First(b, 7) = 81 => Told(b) = OfConvert(First(b, 9))
           /\ First(b, 7) = 82 => Told(b) = IF b[18] = 1 THEN "SMP" ELSE "RMP"
           /\ First(b, 7) = 83 => Told(b) = OfPair(First(b, 9), 2 * b[20] + b[21])
           /\ First(b, 7) \in 92 .. 95 => Told(b) = OfCompare(First(b, 8))
           /\ First(b, 7) \in Rest => Told(b) = OfRest(First(b, 7))
<1> DEFINE f == First(b, 7)
           t == OfTail(f, 2 * b[25] + b[26])
           v == OfFive(First(b, 12) - 2560)
           c == OfConvert(First(b, 9))
           m == IF b[18] = 1 THEN "SMP" ELSE "RMP"
           p == OfPair(First(b, 9), 2 * b[20] + b[21])
           k == OfCompare(First(b, 8))
           r == OfRest(f)
<1>1. Told(b) = CASE f \in Tailed -> t [] f = 80 -> v [] f = 81 -> c [] f = 82 -> m [] f = 83 -> p
                  [] f \in 92 .. 95 -> k [] OTHER -> r
    BY DEF Told
<1> HIDE DEF f, t, v, c, m, p, k, r
<1>2. /\ f \in Tailed => Told(b) = t
      /\ f = 80 => Told(b) = v
      /\ f = 81 => Told(b) = c
      /\ f = 82 => Told(b) = m
      /\ f = 83 => Told(b) = p
      /\ f \in 92 .. 95 => Told(b) = k
      /\ f \in Rest => Told(b) = r
    BY <1>1 DEF Tailed, Rest
<1> QED BY <1>2 DEF f, t, v, c, m, p, k, r

\* An instruction of three words or more is told by what is in the third, too.
LEMMA Wide ==
    ASSUME NEW layout, NEW b, Like(layout, b), Met(b), First(b, 7) \notin NarrowOps
    PROVE  Len(b) >= 27
BY DEF Like, Met

LEMMA SmallOps ==
    /\ \A op \in 0 .. 3000 : op \in Small
    /\ Power[5] = 32 /\ Power[6] = 64 /\ Power[7] = 128 /\ Power[8] = 256 /\ Power[9] = 512 /\ Power[12] = 4096
    /\ Power[17] = 131072 /\ Power[18] = 262144
<1>1. 5 \in 0 .. 30 /\ 6 \in 0 .. 30 /\ 7 \in 0 .. 30 /\ 8 \in 0 .. 30 /\ 9 \in 0 .. 30 /\ 12 \in 0 .. 30
      /\ 17 \in 0 .. 30 /\ 18 \in 0 .. 30
    OBVIOUS
<1>2. \A op \in 0 .. 3000 : op \in Small
    BY SMT DEF Small
<1> DEFINE Listed == \A op \in 0 .. 3000 : op \in Small
<1>3. Listed
    BY <1>2
<1> HIDE DEF Listed
<1>4. /\ Power[5] = 32 /\ Power[6] = 64 /\ Power[7] = 128 /\ Power[8] = 256 /\ Power[9] = 512
      /\ Power[12] = 4096 /\ Power[17] = 131072 /\ Power[18] = 262144
    BY <1>1, PowerTable, SMT
<1> QED BY <1>3, <1>4, SMT DEF Listed

LEMMA ThreeRegistersTold ==
    ASSUME NEW op \in Tailed, NEW tail \in 0 .. 3, NEW b, Like(ThreeRegisters(op, tail), b), Met(b)
    PROVE  Told(b) = OfTail(op, tail)
<1>1. op \in 0 .. 67 /\ op \in Small /\ tail \in Small /\ op < Power[7] /\ op \notin NarrowOps
    BY SmallOps, SMT DEF Tailed, NarrowOps
<1>2. First(b, 7) = op /\ (Len(b) >= 27 => b[25] = (tail \div 2) % 2 /\ b[26] = (tail \div 1) % 2)
    BY <1>1, ThreeRegistersTells
<1>3. Len(b) >= 27
    BY <1>1, <1>2, Wide
<1>4. 2 * ((tail \div 2) % 2) + ((tail \div 1) % 2) = tail
    BY SMT
<1>5. 2 * b[25] + b[26] = tail
    BY <1>2, <1>3, <1>4
<1> QED BY <1>2, <1>5, ToldBy

LEMMA WithImmediateTold ==
    ASSUME NEW op \in Tailed, NEW tail \in 0 .. 3, NEW b, Like(WithImmediate(op, tail), b), Met(b)
    PROVE  Told(b) = OfTail(op, tail)
<1>1. op \in 0 .. 67 /\ op \in Small /\ tail \in Small /\ op < Power[7] /\ op \notin NarrowOps
    BY SmallOps, SMT DEF Tailed, NarrowOps
<1>2. First(b, 7) = op /\ (Len(b) >= 27 => b[25] = (tail \div 2) % 2 /\ b[26] = (tail \div 1) % 2)
    BY <1>1, WithImmediateTells
<1>3. Len(b) >= 27
    BY <1>1, <1>2, Wide
<1>4. 2 * ((tail \div 2) % 2) + ((tail \div 1) % 2) = tail
    BY SMT
<1>5. 2 * b[25] + b[26] = tail
    BY <1>2, <1>3, <1>4
<1> QED BY <1>2, <1>5, ToldBy

LEMMA WithUnsignedTold ==
    ASSUME NEW op \in Tailed, NEW tail \in 0 .. 3, NEW b, Like(WithUnsigned(op, tail), b), Met(b)
    PROVE  Told(b) = OfTail(op, tail)
<1>1. op \in 0 .. 67 /\ op \in Small /\ tail \in Small /\ op < Power[7] /\ op \notin NarrowOps
    BY SmallOps, SMT DEF Tailed, NarrowOps
<1>2. First(b, 7) = op /\ (Len(b) >= 27 => b[25] = (tail \div 2) % 2 /\ b[26] = (tail \div 1) % 2)
    BY <1>1, WithUnsignedTells
<1>3. Len(b) >= 27
    BY <1>1, <1>2, Wide
<1>4. 2 * ((tail \div 2) % 2) + ((tail \div 1) % 2) = tail
    BY SMT
<1>5. 2 * b[25] + b[26] = tail
    BY <1>2, <1>3, <1>4
<1> QED BY <1>2, <1>5, ToldBy

LEMMA TwoRegistersTold ==
    ASSUME NEW op \in 332 .. 335, NEW t \in 0 .. 3, NEW tail, tail = 32 * t, NEW b, Like(TwoRegisters(op, tail), b), Met(b)
    PROVE  Told(b) = OfPair(op, t)
<1>1. op \in Small /\ tail \in Small /\ op < Power[9]
    BY SmallOps, SMT
<1>2. First(b, 9) = op /\ (Len(b) >= 27 => b[20] = (tail \div 64) % 2 /\ b[21] = (tail \div 32) % 2)
    BY <1>1, TwoRegistersTells
<1>3. First(b, 7) = 83
    <2>1. First(b, 9) \in 4 * First(b, 7) .. 4 * First(b, 7) + 3 /\ First(b, 7) \in Nat
        BY Beginnings DEF Like
    <2> QED BY <1>2, <2>1, SMT
<1>4. Len(b) >= 27
    BY <1>3, Wide DEF NarrowOps
<1>5. 2 * ((tail \div 64) % 2) + ((tail \div 32) % 2) = t
    BY SMT
<1>6. 2 * b[20] + b[21] = t
    BY <1>2, <1>4, <1>5
<1> QED BY <1>2, <1>3, <1>6, ToldBy

LEMMA RandomTold ==
    ASSUME NEW op \in 332 .. 335, NEW t \in 0 .. 3, NEW tail, tail = 32 * t, NEW b, Like(Random(op, tail), b), Met(b)
    PROVE  Told(b) = OfPair(op, t)
<1>1. op \in Small /\ tail \in Small /\ op < Power[9]
    BY SmallOps, SMT
<1>2. First(b, 9) = op /\ (Len(b) >= 27 => b[20] = (tail \div 64) % 2 /\ b[21] = (tail \div 32) % 2)
    BY <1>1, RandomTells
<1>3. First(b, 7) = 83
    <2>1. First(b, 9) \in 4 * First(b, 7) .. 4 * First(b, 7) + 3 /\ First(b, 7) \in Nat
        BY Beginnings DEF Like
    <2> QED BY <1>2, <2>1, SMT
<1>4. Len(b) >= 27
    BY <1>3, Wide DEF NarrowOps
<1>5. 2 * ((tail \div 64) % 2) + ((tail \div 32) % 2) = t
    BY SMT
<1>6. 2 * b[20] + b[21] = t
    BY <1>2, <1>4, <1>5
<1> QED BY <1>2, <1>3, <1>6, ToldBy

LEMMA ProtectionTold ==
    ASSUME NEW b
    PROVE  /\ Like(SetProtection(82), b) => Told(b) = "SMP"
           /\ Like(ReadProtection(82), b) => Told(b) = "RMP"
<1>1. 82 \in Small /\ 82 < Power[7]
    BY SmallOps, SMT
<1>2. Like(SetProtection(82), b) => First(b, 7) = 82 /\ b[18] = 1
    BY <1>1, SetProtectionTells
<1>3. Like(ReadProtection(82), b) => First(b, 7) = 82 /\ b[18] = 0
    BY <1>1, ReadProtectionTells
<1>4. First(b, 7) = 82 => Told(b) = IF b[18] = 1 THEN "SMP" ELSE "RMP"
    BY ToldBy
<1> QED BY <1>2, <1>3, <1>4, SMT

LEMMA ConvertTold ==
    ASSUME NEW op \in 324 .. 327, NEW b, Like(Convert(op), b)
    PROVE  Told(b) = OfConvert(op)
<1>1. op \in Small /\ op < Power[9]
    BY SmallOps, SMT
<1>2. First(b, 9) = op
    BY <1>1, ConvertTells
<1>3. First(b, 7) = 81
    <2>1. First(b, 9) \in 4 * First(b, 7) .. 4 * First(b, 7) + 3 /\ First(b, 7) \in Nat
        BY Beginnings DEF Like
    <2> QED BY <1>2, <2>1, SMT
<1> QED BY <1>2, <1>3, ToldBy

LEMMA FiveTold ==
    ASSUME NEW b, b \in Seq(Bit), Len(b) >= 18, First(b, 12) - 2560 \in 0 .. 31
    PROVE  Told(b) = OfFive(First(b, 12) - 2560) /\ First(b, 7) \in NarrowOps
<1> DEFINE x == First(b, 12)
           y == First(b, 7)
<1>1. x \in 32 * y .. 32 * y + 31 /\ y \in Nat
    BY Beginnings, SMT
<1>2. x - 2560 \in 0 .. 31
    OBVIOUS
<1> HIDE DEF x, y
<1>3. x \in Int
    BY <1>1, SMT
<1>4. y = 80
    BY <1>1, <1>2, <1>3, SMT
<1> QED BY <1>4, ToldBy, SMT DEF NarrowOps, y

LEMMA ExtendTold ==
    ASSUME NEW n \in 0 .. 31, NEW op, op = 2560 + n, NEW b, Like(Extend(op), b)
    PROVE  Told(b) = OfFive(n) /\ First(b, 7) \in NarrowOps
<1>1. op \in Small /\ op < Power[12]
    BY SmallOps, SMT
<1>2. First(b, 12) = op
    BY <1>1, ExtendTells
<1>3. First(b, 12) - 2560 = n /\ First(b, 12) - 2560 \in 0 .. 31
    BY <1>2, SMT
<1>4. b \in Seq(Bit) /\ Len(b) >= 18
    BY DEF Like
<1>5. Told(b) = OfFive(First(b, 12) - 2560) /\ First(b, 7) \in NarrowOps
    BY <1>3, <1>4, FiveTold, SMT
<1> QED BY <1>3, <1>5, SMT

LEMMA FlagsTold ==
    ASSUME NEW n \in 0 .. 31, NEW op, op = 2560 + n, NEW b, Like(Flags(op), b)
    PROVE  Told(b) = OfFive(n) /\ First(b, 7) \in NarrowOps
<1>1. op \in Small /\ op < Power[12]
    BY SmallOps, SMT
<1>2. First(b, 12) = op
    BY <1>1, FlagsTells
<1>3. First(b, 12) - 2560 = n /\ First(b, 12) - 2560 \in 0 .. 31
    BY <1>2, SMT
<1>4. b \in Seq(Bit) /\ Len(b) >= 18
    BY DEF Like
<1>5. Told(b) = OfFive(First(b, 12) - 2560) /\ First(b, 7) \in NarrowOps
    BY <1>3, <1>4, FiveTold, SMT
<1> QED BY <1>3, <1>5, SMT

LEMMA PlainTold ==
    ASSUME NEW n \in 0 .. 31, NEW op, op = 163840 + 64 * n, NEW b, Like(Plain(18, op), b)
    PROVE  Told(b) = OfFive(n) /\ First(b, 7) \in NarrowOps
<1>1. op \in Small /\ op < Power[18] /\ 18 \in 1 .. 18
    BY SmallOps, SMT DEF Small
<1>2. First(b, 18) = op
    BY <1>1, PlainTells
<1>3. First(b, 12) = 2560 + n
    <2>1. First(b, 18) \in 64 * First(b, 12) .. 64 * First(b, 12) + 63
          /\ First(b, 12) \in 32 * First(b, 7) .. 32 * First(b, 7) + 31 /\ First(b, 7) \in Nat
        BY Beginnings DEF Like
    <2> DEFINE x == First(b, 18)
               y == First(b, 12)
               z == First(b, 7)
    <2>2. x = 163840 + 64 * n /\ x >= 64 * y /\ x <= 64 * y + 63 /\ y \in 32 * z .. 32 * z + 31 /\ z \in Nat
        BY <1>2, <2>1, SMT
    <2> HIDE DEF x, y, z
    <2>3. y \in Int
        BY <2>2
    <2>4. y = 2560 + n
        BY <2>2, <2>3, SMT
    <2> QED BY <2>4 DEF y
<1>4. First(b, 12) - 2560 = n /\ First(b, 12) - 2560 \in 0 .. 31
    BY <1>3, SMT
<1>5. b \in Seq(Bit) /\ Len(b) >= 18
    BY DEF Like
<1>6. Told(b) = OfFive(First(b, 12) - 2560) /\ First(b, 7) \in NarrowOps
    BY <1>4, <1>5, FiveTold, SMT
<1> QED BY <1>4, <1>6, SMT

LEMMA BreakTold ==
    ASSUME NEW b, Like(Plain(17, 131071), b) PROVE Told(b) = "DBRK"
<1>1. 131071 \in Small /\ 131071 < Power[17] /\ 17 \in 1 .. 18
    BY SmallOps, SMT DEF Small
<1>2. First(b, 17) = 131071
    BY <1>1, PlainTells
<1>3. First(b, 7) = 127
    <2>1. First(b, 17) \in 1024 * First(b, 7) .. 1024 * First(b, 7) + 1023 /\ First(b, 7) \in Nat
        BY Beginnings DEF Like
    <2> QED BY <1>2, <2>1, SMT
<1>4. OfRest(127) = "DBRK"
    BY SMT DEF OfRest
<1>5. First(b, 7) \in Rest
    BY <1>3, SMT DEF Rest
<1> QED BY <1>3, <1>4, <1>5, ToldBy, SMT

LEMMA CompareTold ==
    ASSUME NEW op \in 184 .. 191, NEW b, Like(Compare(op), b)
    PROVE  Told(b) = OfCompare(op) /\ First(b, 7) \in NarrowOps
<1>1. op \in Small /\ op < Power[8]
    BY SmallOps, SMT
<1>2. First(b, 8) = op
    BY <1>1, CompareTells
<1>3. First(b, 7) \in 92 .. 95
    <2>1. First(b, 8) \in 2 * First(b, 7) .. 2 * First(b, 7) + 1 /\ First(b, 7) \in Nat
        BY Beginnings DEF Like
    <2> QED BY <1>2, <2>1, SMT
<1> QED BY <1>2, <1>3, ToldBy DEF NarrowOps

LEMMA CompareImmediateTold ==
    ASSUME NEW op \in 184 .. 191, NEW b, Like(CompareImmediate(op), b)
    PROVE  Told(b) = OfCompare(op) /\ First(b, 7) \in NarrowOps
<1>1. op \in Small /\ op < Power[8]
    BY SmallOps, SMT
<1>2. First(b, 8) = op
    BY <1>1, CompareImmediateTells
<1>3. First(b, 7) \in 92 .. 95
    <2>1. First(b, 8) \in 2 * First(b, 7) .. 2 * First(b, 7) + 1 /\ First(b, 7) \in Nat
        BY Beginnings DEF Like
    <2> QED BY <1>2, <2>1, SMT
<1> QED BY <1>2, <1>3, ToldBy DEF NarrowOps

LEMMA LoadTold ==
    ASSUME NEW op \in Rest, NEW b, Like(Load(op), b)
    PROVE  Told(b) = OfRest(op)
<1>1. op \in Small /\ op < Power[7]
    BY SmallOps, SMT DEF Rest
<1>2. First(b, 7) = op
    BY <1>1, LoadTells
<1> QED BY <1>2, ToldBy

LEMMA StoreTold ==
    ASSUME NEW op \in Rest, NEW b, Like(Store(op), b)
    PROVE  Told(b) = OfRest(op)
<1>1. op \in Small /\ op < Power[7]
    BY SmallOps, SMT DEF Rest
<1>2. First(b, 7) = op
    BY <1>1, StoreTells
<1> QED BY <1>2, ToldBy

LEMMA TransferTold ==
    ASSUME NEW op \in Rest, NEW b, Like(Transfer(op), b)
    PROVE  Told(b) = OfRest(op)
<1>1. op \in Small /\ op < Power[7]
    BY SmallOps, SMT DEF Rest
<1>2. First(b, 7) = op
    BY <1>1, TransferTells
<1> QED BY <1>2, ToldBy

LEMMA BranchTold ==
    ASSUME NEW op \in 48 .. 63, NEW b, Like(Branch(op), b)
    PROVE  First(b, 7) \in 2 * op .. 2 * op + 1 /\ Told(b) = OfRest(First(b, 7))
<1>1. op \in Small /\ op < Power[6]
    BY SmallOps, SMT
<1>2. First(b, 6) = op
    BY <1>1, BranchTells
<1>3. First(b, 7) \in 2 * op .. 2 * op + 1 /\ First(b, 7) \in Nat
    BY <1>2, Beginnings DEF Like
<1>4. First(b, 7) \in Rest
    BY <1>3, SMT DEF Rest
<1> QED BY <1>3, <1>4, ToldBy

LEMMA CallingTold ==
    ASSUME NEW op \in 48 .. 63, NEW b, Like(Calling(op), b)
    PROVE  First(b, 7) \in 2 * op .. 2 * op + 1 /\ Told(b) = OfRest(First(b, 7))
<1>1. op \in Small /\ op < Power[6]
    BY SmallOps, SMT
<1>2. First(b, 6) = op
    BY <1>1, CallingTells
<1>3. First(b, 7) \in 2 * op .. 2 * op + 1 /\ First(b, 7) \in Nat
    BY <1>2, Beginnings DEF Like
<1>4. First(b, 7) \in Rest
    BY <1>3, SMT DEF Rest
<1> QED BY <1>3, <1>4, ToldBy

LEMMA ToRegisterTold ==
    ASSUME NEW op \in 48 .. 63, NEW width \in 1 .. 27, NEW b, Like(ToRegister(op, width, 0), b)
    PROVE  First(b, 7) \in 2 * op .. 2 * op + 1 /\ Told(b) = OfRest(First(b, 7))
<1>1. op \in Small /\ op < Power[6]
    BY SmallOps, SMT
<1>0. 0 \in Small
    BY SmallOps, SMT
<1>2. First(b, 6) = op
    BY <1>0, <1>1, ToRegisterTells
<1>3. First(b, 7) \in 2 * op .. 2 * op + 1 /\ First(b, 7) \in Nat
    BY <1>2, Beginnings DEF Like
<1>4. First(b, 7) \in Rest
    BY <1>3, SMT DEF Rest
<1> QED BY <1>3, <1>4, ToldBy

LEMMA MoveImmediateTold ==
    ASSUME NEW op \in 17 .. 19, NEW b, Like(MoveImmediate(op), b)
    PROVE  First(b, 7) \in 4 * op .. 4 * op + 3 /\ Told(b) = OfRest(First(b, 7))
<1>1. op \in Small /\ op < Power[5]
    BY SmallOps, SMT
<1>2. First(b, 5) = op
    BY <1>1, MoveImmediateTells
<1>3. First(b, 7) \in 4 * op .. 4 * op + 3 /\ First(b, 7) \in Nat
    BY <1>2, Beginnings DEF Like
<1>4. First(b, 7) \in Rest
    BY <1>3, SMT DEF Rest
<1> QED BY <1>3, <1>4, ToldBy

LEMMA FarTold ==
    ASSUME NEW f \in 112 .. 127, NEW op, op = 4 * f, NEW name, NEW b, Like(Far(op, name), b)
    PROVE  Told(b) = OfRest(f)
<1>1. op \in Small /\ op < Power[9]
    BY SmallOps, SMT
<1>2. First(b, 9) = op
    BY <1>1, FarTells
<1>3. First(b, 7) = f
    <2>1. First(b, 9) \in 4 * First(b, 7) .. 4 * First(b, 7) + 3 /\ First(b, 7) \in Nat
        BY Beginnings DEF Like
    <2> QED BY <1>2, <2>1, SMT
<1>4. f \in Rest
    BY SMT DEF Rest
<1> QED BY <1>3, <1>4, ToldBy

\* Whoever is like that layout has that name.
Called(layout, name) ==
    \A b : Like(layout, b) =>
        /\ name \in Narrow => First(b, 7) \in NarrowOps
        /\ Met(b) => Told(b) = name
Telling(f) == \A name \in DOMAIN f : Called(f[name], name)

LEMMA ThreeRegistersCalled ==
    ASSUME NEW op \in Tailed, NEW tail \in 0 .. 3, NEW name, name \notin Narrow, OfTail(op, tail) = name
    PROVE  Called(ThreeRegisters(op, tail), name)
BY ThreeRegistersTold DEF Called

LEMMA WithImmediateCalled ==
    ASSUME NEW op \in Tailed, NEW tail \in 0 .. 3, NEW name, name \notin Narrow, OfTail(op, tail) = name
    PROVE  Called(WithImmediate(op, tail), name)
BY WithImmediateTold DEF Called

LEMMA WithUnsignedCalled ==
    ASSUME NEW op \in Tailed, NEW tail \in 0 .. 3, NEW name, name \notin Narrow, OfTail(op, tail) = name
    PROVE  Called(WithUnsigned(op, tail), name)
BY WithUnsignedTold DEF Called

LEMMA TwoRegistersCalled ==
    ASSUME NEW op \in 332 .. 335, NEW t \in 0 .. 3, NEW tail, tail = 32 * t,
           NEW name, name \notin Narrow, OfPair(op, t) = name
    PROVE  Called(TwoRegisters(op, tail), name)
BY TwoRegistersTold DEF Called

LEMMA RandomCalled ==
    ASSUME NEW op \in 332 .. 335, NEW t \in 0 .. 3, NEW tail, tail = 32 * t,
           NEW name, name \notin Narrow, OfPair(op, t) = name
    PROVE  Called(Random(op, tail), name)
BY RandomTold DEF Called

LEMMA ProtectionCalled == Called(SetProtection(82), "SMP") /\ Called(ReadProtection(82), "RMP")
<1>1. "SMP" \notin Narrow /\ "RMP" \notin Narrow
    BY DEF Narrow
<1> QED BY <1>1, ProtectionTold DEF Called

LEMMA ConvertCalled ==
    ASSUME NEW op \in 324 .. 327, NEW name, name \notin Narrow, OfConvert(op) = name
    PROVE  Called(Convert(op), name)
BY ConvertTold DEF Called

LEMMA ExtendCalled ==
    ASSUME NEW n \in 0 .. 31, NEW op, op = 2560 + n, NEW name, OfFive(n) = name
    PROVE  Called(Extend(op), name)
BY ExtendTold, SMT DEF Called

LEMMA FlagsCalled ==
    ASSUME NEW n \in 0 .. 31, NEW op, op = 2560 + n, NEW name, OfFive(n) = name
    PROVE  Called(Flags(op), name)
BY FlagsTold, SMT DEF Called

LEMMA PlainCalled ==
    ASSUME NEW n \in 0 .. 31, NEW op, op = 163840 + 64 * n, NEW name, OfFive(n) = name
    PROVE  Called(Plain(18, op), name)
BY PlainTold, SMT DEF Called

LEMMA BreakCalled == Called(Plain(17, 131071), "DBRK")
<1>1. "DBRK" \notin Narrow
    BY DEF Narrow
<1> QED BY <1>1, BreakTold, SMT DEF Called

LEMMA CompareCalled ==
    ASSUME NEW op \in 184 .. 191, NEW name, OfCompare(op) = name
    PROVE  Called(Compare(op), name)
BY CompareTold DEF Called

LEMMA CompareImmediateCalled ==
    ASSUME NEW op \in 184 .. 191, NEW name, OfCompare(op) = name
    PROVE  Called(CompareImmediate(op), name)
BY CompareImmediateTold DEF Called

LEMMA LoadCalled ==
    ASSUME NEW op \in Rest, NEW name, name \notin Narrow, OfRest(op) = name
    PROVE  Called(Load(op), name)
BY LoadTold DEF Called

LEMMA StoreCalled ==
    ASSUME NEW op \in Rest, NEW name, name \notin Narrow, OfRest(op) = name
    PROVE  Called(Store(op), name)
BY StoreTold DEF Called

LEMMA TransferCalled ==
    ASSUME NEW op \in Rest, NEW name, name \notin Narrow, OfRest(op) = name
    PROVE  Called(Transfer(op), name)
BY TransferTold DEF Called

LEMMA BranchCalled ==
    ASSUME NEW op \in 48 .. 63, NEW name, name \notin Narrow, \A f \in 2 * op .. 2 * op + 1 : OfRest(f) = name
    PROVE  Called(Branch(op), name)
BY BranchTold DEF Called

LEMMA CallingCalled ==
    ASSUME NEW op \in 48 .. 63, NEW name, name \notin Narrow, \A f \in 2 * op .. 2 * op + 1 : OfRest(f) = name
    PROVE  Called(Calling(op), name)
BY CallingTold DEF Called

LEMMA ToRegisterCalled ==
    ASSUME NEW op \in 48 .. 63, NEW width \in 1 .. 27, NEW name, name \in Narrow => op = 55,
           \A f \in 2 * op .. 2 * op + 1 : OfRest(f) = name
    PROVE  Called(ToRegister(op, width, 0), name)
<1>1. \A b : Like(ToRegister(op, width, 0), b) =>
        First(b, 7) \in 2 * op .. 2 * op + 1 /\ Told(b) = OfRest(First(b, 7))
    BY ToRegisterTold
<1>2. ASSUME NEW f \in 2 * op .. 2 * op + 1, op = 55 PROVE f \in NarrowOps
    BY <1>2, SMT DEF NarrowOps
<1> QED BY <1>1, <1>2 DEF Called

LEMMA MoveImmediateCalled ==
    ASSUME NEW op \in 17 .. 19, NEW name, name \notin Narrow, \A f \in 4 * op .. 4 * op + 3 : OfRest(f) = name
    PROVE  Called(MoveImmediate(op), name)
BY MoveImmediateTold DEF Called

LEMMA FarCalled ==
    ASSUME NEW f \in 112 .. 127, NEW op, op = 4 * f, NEW part, NEW name, name \notin Narrow, OfRest(f) = name
    PROVE  Called(Far(op, part), name)
BY FarTold, SMT DEF Called

LEMMA TellingA == Telling(InstructionsA)
<1>1. /\ 0 \in Tailed /\ 0 \in 0 .. 3 /\ 32 \in Tailed /\ 1 \in 0 .. 3 /\ 34 \in Tailed
      /\ 1 \in Tailed /\ 3 \in Tailed /\ 2 \in Tailed /\ 20 \in Tailed /\ 22 \in Tailed
    BY SMT DEF Tailed
<1>2. /\ OfTail(0, 0) = "AD" /\ OfTail(32, 0) = "ADC" /\ OfTail(32, 1) = "ADCI"
      /\ OfTail(34, 1) = "ADCIM" /\ OfTail(34, 0) = "ADCM" /\ OfTail(1, 0) = "ADF"
      /\ OfTail(3, 0) = "ADFM" /\ OfTail(0, 1) = "ADI" /\ OfTail(2, 1) = "ADIM"
      /\ OfTail(2, 0) = "ADM" /\ OfTail(20, 0) = "AN" /\ OfTail(20, 1) = "ANI"
      /\ OfTail(22, 0) = "ANM"
    BY SMT DEF Four, OfTail
<1>3. /\ "AD" \notin Narrow /\ "ADC" \notin Narrow /\ "ADCI" \notin Narrow /\ "ADCIM" \notin Narrow
      /\ "ADCM" \notin Narrow /\ "ADF" \notin Narrow /\ "ADFM" \notin Narrow /\ "ADI" \notin Narrow
      /\ "ADIM" \notin Narrow /\ "ADM" \notin Narrow /\ "AN" \notin Narrow /\ "ANI" \notin Narrow
      /\ "ANM" \notin Narrow
    BY DEF Narrow
<1>4. /\ Called(ThreeRegisters(0, 0), "AD") /\ Called(ThreeRegisters(32, 0), "ADC")
      /\ Called(WithImmediate(32, 1), "ADCI") /\ Called(WithImmediate(34, 1), "ADCIM")
      /\ Called(ThreeRegisters(34, 0), "ADCM") /\ Called(ThreeRegisters(1, 0), "ADF")
      /\ Called(ThreeRegisters(3, 0), "ADFM") /\ Called(WithImmediate(0, 1), "ADI")
      /\ Called(WithImmediate(2, 1), "ADIM") /\ Called(ThreeRegisters(2, 0), "ADM")
      /\ Called(ThreeRegisters(20, 0), "AN") /\ Called(WithImmediate(20, 1), "ANI")
      /\ Called(ThreeRegisters(22, 0), "ANM")
    BY <1>1, <1>2, <1>3, ThreeRegistersCalled, WithImmediateCalled, SMT
<1>5. /\ InstructionsA.AD = ThreeRegisters(0, 0) /\ InstructionsA.ADC = ThreeRegisters(32, 0)
      /\ InstructionsA.ADCI = WithImmediate(32, 1) /\ InstructionsA.ADCIM = WithImmediate(34, 1)
      /\ InstructionsA.ADCM = ThreeRegisters(34, 0) /\ InstructionsA.ADF = ThreeRegisters(1, 0)
      /\ InstructionsA.ADFM = ThreeRegisters(3, 0) /\ InstructionsA.ADI = WithImmediate(0, 1)
      /\ InstructionsA.ADIM = WithImmediate(2, 1) /\ InstructionsA.ADM = ThreeRegisters(2, 0)
      /\ InstructionsA.AN = ThreeRegisters(20, 0) /\ InstructionsA.ANI = WithImmediate(20, 1)
      /\ InstructionsA.ANM = ThreeRegisters(22, 0)
    BY SMT DEF InstructionsA
<1>6. DOMAIN InstructionsA =
        {"AD", "ADC", "ADCI", "ADCIM", "ADCM", "ADF", "ADFM", "ADI", "ADIM", "ADM", "AN", "ANI",
         "ANM"}
    BY DEF InstructionsA
<1> QED BY <1>4, <1>5, <1>6 DEF Telling

LEMMA TellingBC == Telling(InstructionsBC)
<1>1. /\ 48 \in 48 .. 63 /\ 332 \in 332 .. 335 /\ 2 \in 0 .. 3 /\ 334 \in 332 .. 335
      /\ 50 \in 48 .. 63 /\ 4 \in 1 .. 27 /\ 113 \in 112 .. 127 /\ 112 \in 112 .. 127
      /\ 53 \in 48 .. 63 /\ 115 \in 112 .. 127 /\ 114 \in 112 .. 127 /\ 184 \in 184 .. 191
      /\ 186 \in 184 .. 191 /\ 190 \in 184 .. 191 /\ 185 \in 184 .. 191 /\ 189 \in 184 .. 191
      /\ 188 \in 184 .. 191 /\ 55 \in 48 .. 63 /\ 3 \in 1 .. 27 /\ 64 = 32 * 2 /\ 452 = 4 * 113
      /\ 448 = 4 * 112 /\ 460 = 4 * 115 /\ 456 = 4 * 114
    BY SMT
<1>2. /\ (\A f \in 2 * 48 .. 2 * 48 + 1 : OfRest(f) = "B") /\ OfPair(332, 2) = "BF"
      /\ OfPair(334, 2) = "BFM" /\ (\A f \in 2 * 50 .. 2 * 50 + 1 : OfRest(f) = "BR")
      /\ OfRest(113) = "BRA" /\ OfRest(112) = "BRR"
      /\ (\A f \in 2 * 53 .. 2 * 53 + 1 : OfRest(f) = "C") /\ OfRest(115) = "CAA"
      /\ OfRest(114) = "CAR" /\ OfCompare(184) = "CM" /\ OfCompare(186) = "CMF"
      /\ OfCompare(190) = "CMFM" /\ OfCompare(185) = "CMI" /\ OfCompare(189) = "CMIM"
      /\ OfCompare(188) = "CMM" /\ (\A f \in 2 * 55 .. 2 * 55 + 1 : OfRest(f) = "CR")
    BY SMT DEF Four, OfCompare, OfPair, OfRest
<1>3. /\ "B" \notin Narrow /\ "BF" \notin Narrow /\ "BFM" \notin Narrow /\ "BR" \notin Narrow
      /\ "BRA" \notin Narrow /\ "BRR" \notin Narrow /\ "C" \notin Narrow /\ "CAA" \notin Narrow
      /\ "CAR" \notin Narrow
    BY DEF Narrow
<1>4. /\ Called(Branch(48), "B") /\ Called(TwoRegisters(332, 64), "BF")
      /\ Called(TwoRegisters(334, 64), "BFM") /\ Called(ToRegister(50, 4, 0), "BR")
      /\ Called(Far(452, "Location"), "BRA") /\ Called(Far(448, "Offset"), "BRR")
      /\ Called(Calling(53), "C") /\ Called(Far(460, "Location"), "CAA")
      /\ Called(Far(456, "Offset"), "CAR") /\ Called(Compare(184), "CM")
      /\ Called(Compare(186), "CMF") /\ Called(Compare(190), "CMFM")
      /\ Called(CompareImmediate(185), "CMI") /\ Called(CompareImmediate(189), "CMIM")
      /\ Called(Compare(188), "CMM") /\ Called(ToRegister(55, 3, 0), "CR")
    BY <1>1, <1>2, <1>3, BranchCalled, CallingCalled, CompareCalled, CompareImmediateCalled, FarCalled, ToRegisterCalled, TwoRegistersCalled, SMT
<1>5. /\ InstructionsBC.B = Branch(48) /\ InstructionsBC.BF = TwoRegisters(332, 64)
      /\ InstructionsBC.BFM = TwoRegisters(334, 64) /\ InstructionsBC.BR = ToRegister(50, 4, 0)
      /\ InstructionsBC.BRA = Far(452, "Location") /\ InstructionsBC.BRR = Far(448, "Offset")
      /\ InstructionsBC.C = Calling(53) /\ InstructionsBC.CAA = Far(460, "Location")
      /\ InstructionsBC.CAR = Far(456, "Offset") /\ InstructionsBC.CM = Compare(184)
      /\ InstructionsBC.CMF = Compare(186) /\ InstructionsBC.CMFM = Compare(190)
      /\ InstructionsBC.CMI = CompareImmediate(185) /\ InstructionsBC.CMIM = CompareImmediate(189)
      /\ InstructionsBC.CMM = Compare(188) /\ InstructionsBC.CR = ToRegister(55, 3, 0)
    BY SMT DEF InstructionsBC
<1>6. DOMAIN InstructionsBC =
        {"B", "BF", "BFM", "BR", "BRA", "BRR", "C", "CAA", "CAR", "CM", "CMF", "CMFM", "CMI",
         "CMIM", "CMM", "CR"}
    BY DEF InstructionsBC
<1> QED BY <1>4, <1>5, <1>6 DEF Telling

LEMMA TellingDE == Telling(InstructionsDE)
<1>1. /\ 5 \in 0 .. 31 /\ 52 \in Rest /\ 12 \in Tailed /\ 0 \in 0 .. 3 /\ 13 \in Tailed
      /\ 15 \in Tailed /\ 1 \in 0 .. 3 /\ 14 \in Tailed /\ 3 \in 0 .. 3 /\ 2 \in 0 .. 3
      /\ 4 \in 0 .. 31 /\ 2565 = 2560 + 5 /\ 2564 = 2560 + 4
    BY SMT DEF Tailed, Rest
<1>2. /\ OfFive(5) = "DI" /\ OfRest(52) = "DMT" /\ OfTail(12, 0) = "DV" /\ OfTail(13, 0) = "DVF"
      /\ OfTail(15, 0) = "DVFM" /\ OfTail(12, 1) = "DVI" /\ OfTail(14, 1) = "DVIM"
      /\ OfTail(12, 3) = "DVIS" /\ OfTail(14, 3) = "DVISM" /\ OfTail(14, 0) = "DVM"
      /\ OfTail(12, 2) = "DVS" /\ OfTail(14, 2) = "DVSM" /\ OfFive(4) = "EI"
    BY SMT DEF Four, OfFive, OfRest, OfTail
<1>3. /\ "DMT" \notin Narrow /\ "DV" \notin Narrow /\ "DVF" \notin Narrow /\ "DVFM" \notin Narrow
      /\ "DVI" \notin Narrow /\ "DVIM" \notin Narrow /\ "DVIS" \notin Narrow
      /\ "DVISM" \notin Narrow /\ "DVM" \notin Narrow /\ "DVS" \notin Narrow /\ "DVSM" \notin Narrow
    BY DEF Narrow
<1>4. /\ Called(Plain(17, 131071), "DBRK") /\ Called(Flags(2565), "DI")
      /\ Called(Transfer(52), "DMT") /\ Called(ThreeRegisters(12, 0), "DV")
      /\ Called(ThreeRegisters(13, 0), "DVF") /\ Called(ThreeRegisters(15, 0), "DVFM")
      /\ Called(WithImmediate(12, 1), "DVI") /\ Called(WithImmediate(14, 1), "DVIM")
      /\ Called(WithImmediate(12, 3), "DVIS") /\ Called(WithImmediate(14, 3), "DVISM")
      /\ Called(ThreeRegisters(14, 0), "DVM") /\ Called(ThreeRegisters(12, 2), "DVS")
      /\ Called(ThreeRegisters(14, 2), "DVSM") /\ Called(Flags(2564), "EI")
    BY <1>1, <1>2, <1>3, BreakCalled, FlagsCalled, ThreeRegistersCalled, TransferCalled, WithImmediateCalled, SMT
<1>5. /\ InstructionsDE.DBRK = Plain(17, 131071) /\ InstructionsDE.DI = Flags(2565)
      /\ InstructionsDE.DMT = Transfer(52) /\ InstructionsDE.DV = ThreeRegisters(12, 0)
      /\ InstructionsDE.DVF = ThreeRegisters(13, 0) /\ InstructionsDE.DVFM = ThreeRegisters(15, 0)
      /\ InstructionsDE.DVI = WithImmediate(12, 1) /\ InstructionsDE.DVIM = WithImmediate(14, 1)
      /\ InstructionsDE.DVIS = WithImmediate(12, 3) /\ InstructionsDE.DVISM = WithImmediate(14, 3)
      /\ InstructionsDE.DVM = ThreeRegisters(14, 0) /\ InstructionsDE.DVS = ThreeRegisters(12, 2)
      /\ InstructionsDE.DVSM = ThreeRegisters(14, 2) /\ InstructionsDE.EI = Flags(2564)
    BY SMT DEF InstructionsDE
<1>6. DOMAIN InstructionsDE =
        {"DBRK", "DI", "DMT", "DV", "DVF", "DVFM", "DVI", "DVIM", "DVIS", "DVISM", "DVM", "DVS",
         "DVSM", "EI"}
    BY DEF InstructionsDE
<1> QED BY <1>4, <1>5, <1>6 DEF Telling

LEMMA TellingFtoL == Telling(InstructionsFtoL)
<1>1. /\ 325 \in 324 .. 327 /\ 327 \in 324 .. 327 /\ 3 \in 0 .. 31 /\ 1 \in 0 .. 31
      /\ 324 \in 324 .. 327 /\ 326 \in 324 .. 327 /\ 84 \in Rest /\ 86 \in Rest /\ 85 \in Rest
      /\ 164032 = 163840 + 64 * 3 /\ 163904 = 163840 + 64 * 1
    BY SMT DEF Rest
<1>2. /\ OfConvert(325) = "FTI" /\ OfConvert(327) = "FTIM" /\ OfFive(3) = "HT" /\ OfFive(1) = "IR"
      /\ OfConvert(324) = "ITF" /\ OfConvert(326) = "ITFM" /\ OfRest(84) = "LDS"
      /\ OfRest(86) = "LDT" /\ OfRest(85) = "LDW"
    BY SMT DEF OfConvert, OfFive, OfRest
<1>3. /\ "FTI" \notin Narrow /\ "FTIM" \notin Narrow /\ "ITF" \notin Narrow /\ "ITFM" \notin Narrow
      /\ "LDS" \notin Narrow /\ "LDT" \notin Narrow /\ "LDW" \notin Narrow
    BY DEF Narrow
<1>4. /\ Called(Convert(325), "FTI") /\ Called(Convert(327), "FTIM")
      /\ Called(Plain(18, 164032), "HT") /\ Called(Plain(18, 163904), "IR")
      /\ Called(Convert(324), "ITF") /\ Called(Convert(326), "ITFM") /\ Called(Load(84), "LDS")
      /\ Called(Load(86), "LDT") /\ Called(Load(85), "LDW")
    BY <1>1, <1>2, <1>3, ConvertCalled, LoadCalled, PlainCalled, SMT
<1>5. /\ InstructionsFtoL.FTI = Convert(325) /\ InstructionsFtoL.FTIM = Convert(327)
      /\ InstructionsFtoL.HT = Plain(18, 164032) /\ InstructionsFtoL.IR = Plain(18, 163904)
      /\ InstructionsFtoL.ITF = Convert(324) /\ InstructionsFtoL.ITFM = Convert(326)
      /\ InstructionsFtoL.LDS = Load(84) /\ InstructionsFtoL.LDT = Load(86)
      /\ InstructionsFtoL.LDW = Load(85)
    BY SMT DEF InstructionsFtoL
<1>6. DOMAIN InstructionsFtoL =
        {"FTI", "FTIM", "HT", "IR", "ITF", "ITFM", "LDS", "LDT", "LDW"}
    BY DEF InstructionsFtoL
<1> QED BY <1>4, <1>5, <1>6 DEF Telling

LEMMA TellingMD == Telling(InstructionsMD)
<1>1. /\ 16 \in Tailed /\ 0 \in 0 .. 3 /\ 17 \in Tailed /\ 19 \in Tailed /\ 1 \in 0 .. 3
      /\ 18 \in Tailed /\ 3 \in 0 .. 3 /\ 2 \in 0 .. 3
    BY SMT DEF Tailed
<1>2. /\ OfTail(16, 0) = "MD" /\ OfTail(17, 0) = "MDF" /\ OfTail(19, 0) = "MDFM"
      /\ OfTail(16, 1) = "MDI" /\ OfTail(18, 1) = "MDIM" /\ OfTail(16, 3) = "MDIS"
      /\ OfTail(18, 3) = "MDISM" /\ OfTail(18, 0) = "MDM" /\ OfTail(16, 2) = "MDS"
      /\ OfTail(18, 2) = "MDSM"
    BY SMT DEF Four, OfTail
<1>3. /\ "MD" \notin Narrow /\ "MDF" \notin Narrow /\ "MDFM" \notin Narrow /\ "MDI" \notin Narrow
      /\ "MDIM" \notin Narrow /\ "MDIS" \notin Narrow /\ "MDISM" \notin Narrow
      /\ "MDM" \notin Narrow /\ "MDS" \notin Narrow /\ "MDSM" \notin Narrow
    BY DEF Narrow
<1>4. /\ Called(ThreeRegisters(16, 0), "MD") /\ Called(ThreeRegisters(17, 0), "MDF")
      /\ Called(ThreeRegisters(19, 0), "MDFM") /\ Called(WithImmediate(16, 1), "MDI")
      /\ Called(WithImmediate(18, 1), "MDIM") /\ Called(WithImmediate(16, 3), "MDIS")
      /\ Called(WithImmediate(18, 3), "MDISM") /\ Called(ThreeRegisters(18, 0), "MDM")
      /\ Called(ThreeRegisters(16, 2), "MDS") /\ Called(ThreeRegisters(18, 2), "MDSM")
    BY <1>1, <1>2, <1>3, ThreeRegistersCalled, WithImmediateCalled, SMT
<1>5. /\ InstructionsMD.MD = ThreeRegisters(16, 0) /\ InstructionsMD.MDF = ThreeRegisters(17, 0)
      /\ InstructionsMD.MDFM = ThreeRegisters(19, 0) /\ InstructionsMD.MDI = WithImmediate(16, 1)
      /\ InstructionsMD.MDIM = WithImmediate(18, 1) /\ InstructionsMD.MDIS = WithImmediate(16, 3)
      /\ InstructionsMD.MDISM = WithImmediate(18, 3) /\ InstructionsMD.MDM = ThreeRegisters(18, 0)
      /\ InstructionsMD.MDS = ThreeRegisters(16, 2) /\ InstructionsMD.MDSM = ThreeRegisters(18, 2)
    BY SMT DEF InstructionsMD
<1>6. DOMAIN InstructionsMD =
        {"MD", "MDF", "MDFM", "MDI", "MDIM", "MDIS", "MDISM", "MDM", "MDS", "MDSM"}
    BY DEF InstructionsMD
<1> QED BY <1>4, <1>5, <1>6 DEF Telling

LEMMA TellingMHtoMU == Telling(InstructionsMHtoMU)
<1>1. /\ 17 \in 17 .. 19 /\ 18 \in 17 .. 19 /\ 19 \in 17 .. 19 /\ 8 \in Tailed /\ 0 \in 0 .. 3
      /\ 9 \in Tailed /\ 11 \in Tailed /\ 1 \in 0 .. 3 /\ 10 \in Tailed /\ 3 \in 0 .. 3
      /\ 2 \in 0 .. 3
    BY SMT DEF Tailed
<1>2. /\ (\A f \in 4 * 17 .. 4 * 17 + 3 : OfRest(f) = "MH")
      /\ (\A f \in 4 * 18 .. 4 * 18 + 3 : OfRest(f) = "ML")
      /\ (\A f \in 4 * 19 .. 4 * 19 + 3 : OfRest(f) = "MS") /\ OfTail(8, 0) = "MU"
      /\ OfTail(9, 0) = "MUF" /\ OfTail(11, 0) = "MUFM" /\ OfTail(8, 1) = "MUI"
      /\ OfTail(10, 1) = "MIUM" /\ OfTail(8, 3) = "MUIS" /\ OfTail(10, 3) = "MUISM"
      /\ OfTail(10, 0) = "MUM" /\ OfTail(8, 2) = "MUS" /\ OfTail(10, 2) = "MUSM"
    BY SMT DEF Four, OfRest, OfTail
<1>3. /\ "MH" \notin Narrow /\ "ML" \notin Narrow /\ "MS" \notin Narrow /\ "MU" \notin Narrow
      /\ "MUF" \notin Narrow /\ "MUFM" \notin Narrow /\ "MUI" \notin Narrow /\ "MIUM" \notin Narrow
      /\ "MUIS" \notin Narrow /\ "MUISM" \notin Narrow /\ "MUM" \notin Narrow /\ "MUS" \notin Narrow
      /\ "MUSM" \notin Narrow
    BY DEF Narrow
<1>4. /\ Called(MoveImmediate(17), "MH") /\ Called(MoveImmediate(18), "ML")
      /\ Called(MoveImmediate(19), "MS") /\ Called(ThreeRegisters(8, 0), "MU")
      /\ Called(ThreeRegisters(9, 0), "MUF") /\ Called(ThreeRegisters(11, 0), "MUFM")
      /\ Called(WithImmediate(8, 1), "MUI") /\ Called(WithImmediate(10, 1), "MIUM")
      /\ Called(WithUnsigned(8, 3), "MUIS") /\ Called(WithImmediate(10, 3), "MUISM")
      /\ Called(ThreeRegisters(10, 0), "MUM") /\ Called(ThreeRegisters(8, 2), "MUS")
      /\ Called(ThreeRegisters(10, 2), "MUSM")
    BY <1>1, <1>2, <1>3, MoveImmediateCalled, ThreeRegistersCalled, WithImmediateCalled, WithUnsignedCalled, SMT
<1>5. /\ InstructionsMHtoMU.MH = MoveImmediate(17) /\ InstructionsMHtoMU.ML = MoveImmediate(18)
      /\ InstructionsMHtoMU.MS = MoveImmediate(19) /\ InstructionsMHtoMU.MU = ThreeRegisters(8, 0)
      /\ InstructionsMHtoMU.MUF = ThreeRegisters(9, 0)
      /\ InstructionsMHtoMU.MUFM = ThreeRegisters(11, 0)
      /\ InstructionsMHtoMU.MUI = WithImmediate(8, 1)
      /\ InstructionsMHtoMU.MIUM = WithImmediate(10, 1)
      /\ InstructionsMHtoMU.MUIS = WithUnsigned(8, 3)
      /\ InstructionsMHtoMU.MUISM = WithImmediate(10, 3)
      /\ InstructionsMHtoMU.MUM = ThreeRegisters(10, 0)
      /\ InstructionsMHtoMU.MUS = ThreeRegisters(8, 2)
      /\ InstructionsMHtoMU.MUSM = ThreeRegisters(10, 2)
    BY SMT DEF InstructionsMHtoMU
<1>6. DOMAIN InstructionsMHtoMU =
        {"MH", "ML", "MS", "MU", "MUF", "MUFM", "MUI", "MIUM", "MUIS", "MUISM", "MUM", "MUS",
         "MUSM"}
    BY DEF InstructionsMHtoMU
<1> QED BY <1>4, <1>5, <1>6 DEF Telling

LEMMA TellingNO == Telling(InstructionsNO)
<1>1. /\ 332 \in 332 .. 335 /\ 0 \in 0 .. 3 /\ 333 \in 332 .. 335 /\ 335 \in 332 .. 335
      /\ 334 \in 332 .. 335 /\ 1 \in 0 .. 3 /\ 24 \in Tailed /\ 26 \in Tailed /\ 0 = 32 * 0
      /\ 32 = 32 * 1
    BY SMT DEF Tailed
<1>2. /\ OfPair(332, 0) = "NG" /\ OfPair(333, 0) = "NGF" /\ OfPair(335, 0) = "NGFM"
      /\ OfPair(334, 0) = "NGM" /\ OfPair(332, 1) = "NT" /\ OfPair(334, 1) = "NTM"
      /\ OfTail(24, 0) = "OR" /\ OfTail(24, 1) = "ORI" /\ OfTail(26, 0) = "ORM"
    BY SMT DEF Four, OfPair, OfTail
<1>3. /\ "NG" \notin Narrow /\ "NGF" \notin Narrow /\ "NGFM" \notin Narrow /\ "NGM" \notin Narrow
      /\ "NT" \notin Narrow /\ "NTM" \notin Narrow /\ "OR" \notin Narrow /\ "ORI" \notin Narrow
      /\ "ORM" \notin Narrow
    BY DEF Narrow
<1>4. /\ Called(TwoRegisters(332, 0), "NG") /\ Called(TwoRegisters(333, 0), "NGF")
      /\ Called(TwoRegisters(335, 0), "NGFM") /\ Called(TwoRegisters(334, 0), "NGM")
      /\ Called(TwoRegisters(332, 32), "NT") /\ Called(TwoRegisters(334, 32), "NTM")
      /\ Called(ThreeRegisters(24, 0), "OR") /\ Called(WithImmediate(24, 1), "ORI")
      /\ Called(ThreeRegisters(26, 0), "ORM")
    BY <1>1, <1>2, <1>3, ThreeRegistersCalled, TwoRegistersCalled, WithImmediateCalled, SMT
<1>5. /\ InstructionsNO.NG = TwoRegisters(332, 0) /\ InstructionsNO.NGF = TwoRegisters(333, 0)
      /\ InstructionsNO.NGFM = TwoRegisters(335, 0) /\ InstructionsNO.NGM = TwoRegisters(334, 0)
      /\ InstructionsNO.NT = TwoRegisters(332, 32) /\ InstructionsNO.NTM = TwoRegisters(334, 32)
      /\ InstructionsNO.OR = ThreeRegisters(24, 0) /\ InstructionsNO.ORI = WithImmediate(24, 1)
      /\ InstructionsNO.ORM = ThreeRegisters(26, 0)
    BY SMT DEF InstructionsNO
<1>6. DOMAIN InstructionsNO =
        {"NG", "NGF", "NGFM", "NGM", "NT", "NTM", "OR", "ORI", "ORM"}
    BY DEF InstructionsNO
<1> QED BY <1>4, <1>5, <1>6 DEF Telling

LEMMA TellingR == Telling(InstructionsR)
<1>1. /\ 0 \in 0 .. 31 /\ 12 \in 0 .. 31 /\ 48 \in Tailed /\ 0 \in 0 .. 3 /\ 64 \in Tailed
      /\ 66 \in Tailed /\ 50 \in Tailed /\ 332 \in 332 .. 335 /\ 3 \in 0 .. 3 /\ 334 \in 332 .. 335
      /\ 49 \in Tailed /\ 65 \in Tailed /\ 67 \in Tailed /\ 51 \in Tailed
      /\ 163840 = 163840 + 64 * 0 /\ 2572 = 2560 + 12 /\ 96 = 32 * 3
    BY SMT DEF Tailed
<1>2. /\ OfFive(0) = "RE" /\ OfFive(12) = "RF" /\ OfTail(48, 0) = "RL" /\ OfTail(64, 0) = "RLI"
      /\ OfTail(66, 0) = "RLIM" /\ OfTail(50, 0) = "RLM" /\ OfPair(332, 3) = "RND"
      /\ OfPair(334, 3) = "RNDM" /\ OfTail(49, 0) = "RR" /\ OfTail(65, 0) = "RRI"
      /\ OfTail(67, 0) = "RRIM" /\ OfTail(51, 0) = "RRM"
    BY SMT DEF Four, OfFive, OfPair, OfTail
<1>3. /\ "RL" \notin Narrow /\ "RLI" \notin Narrow /\ "RLIM" \notin Narrow /\ "RLM" \notin Narrow
      /\ "RND" \notin Narrow /\ "RNDM" \notin Narrow /\ "RR" \notin Narrow /\ "RRI" \notin Narrow
      /\ "RRIM" \notin Narrow /\ "RRM" \notin Narrow
    BY DEF Narrow
<1>4. /\ Called(Plain(18, 163840), "RE") /\ Called(Flags(2572), "RF")
      /\ Called(ThreeRegisters(48, 0), "RL") /\ Called(WithImmediate(64, 0), "RLI")
      /\ Called(WithImmediate(66, 0), "RLIM") /\ Called(ThreeRegisters(50, 0), "RLM")
      /\ Called(ReadProtection(82), "RMP") /\ Called(Random(332, 96), "RND")
      /\ Called(Random(334, 96), "RNDM") /\ Called(ThreeRegisters(49, 0), "RR")
      /\ Called(WithImmediate(65, 0), "RRI") /\ Called(WithImmediate(67, 0), "RRIM")
      /\ Called(ThreeRegisters(51, 0), "RRM")
    BY <1>1, <1>2, <1>3, FlagsCalled, PlainCalled, ProtectionCalled, RandomCalled, ThreeRegistersCalled, WithImmediateCalled, SMT
<1>5. /\ InstructionsR.RE = Plain(18, 163840) /\ InstructionsR.RF = Flags(2572)
      /\ InstructionsR.RL = ThreeRegisters(48, 0) /\ InstructionsR.RLI = WithImmediate(64, 0)
      /\ InstructionsR.RLIM = WithImmediate(66, 0) /\ InstructionsR.RLM = ThreeRegisters(50, 0)
      /\ InstructionsR.RMP = ReadProtection(82) /\ InstructionsR.RND = Random(332, 96)
      /\ InstructionsR.RNDM = Random(334, 96) /\ InstructionsR.RR = ThreeRegisters(49, 0)
      /\ InstructionsR.RRI = WithImmediate(65, 0) /\ InstructionsR.RRIM = WithImmediate(67, 0)
      /\ InstructionsR.RRM = ThreeRegisters(51, 0)
    BY SMT DEF InstructionsR
<1>6. DOMAIN InstructionsR =
        {"RE", "RF", "RL", "RLI", "RLIM", "RLM", "RMP", "RND", "RNDM", "RR", "RRI", "RRIM", "RRM"}
    BY DEF InstructionsR
<1> QED BY <1>4, <1>5, <1>6 DEF Telling

LEMMA TellingSAtoSBI == Telling(InstructionsSAtoSBI)
<1>1. /\ 45 \in Tailed /\ 0 \in 0 .. 3 /\ 61 \in Tailed /\ 63 \in Tailed /\ 47 \in Tailed
      /\ 4 \in Tailed /\ 36 \in Tailed /\ 1 \in 0 .. 3 /\ 38 \in Tailed /\ 5 \in Tailed
      /\ 7 \in Tailed
    BY SMT DEF Tailed
<1>2. /\ OfTail(45, 0) = "SA" /\ OfTail(61, 0) = "SAI" /\ OfTail(63, 0) = "SAIM"
      /\ OfTail(47, 0) = "SAM" /\ OfTail(4, 0) = "SB" /\ OfTail(36, 0) = "SBC"
      /\ OfTail(36, 1) = "SBCI" /\ OfTail(38, 1) = "SBCIM" /\ OfTail(38, 0) = "SBCM"
      /\ OfTail(5, 0) = "SBF" /\ OfTail(7, 0) = "SBFM" /\ OfTail(4, 1) = "SBI"
    BY SMT DEF Four, OfTail
<1>3. /\ "SA" \notin Narrow /\ "SAI" \notin Narrow /\ "SAIM" \notin Narrow /\ "SAM" \notin Narrow
      /\ "SB" \notin Narrow /\ "SBC" \notin Narrow /\ "SBCI" \notin Narrow /\ "SBCIM" \notin Narrow
      /\ "SBCM" \notin Narrow /\ "SBF" \notin Narrow /\ "SBFM" \notin Narrow /\ "SBI" \notin Narrow
    BY DEF Narrow
<1>4. /\ Called(ThreeRegisters(45, 0), "SA") /\ Called(WithImmediate(61, 0), "SAI")
      /\ Called(WithImmediate(63, 0), "SAIM") /\ Called(ThreeRegisters(47, 0), "SAM")
      /\ Called(ThreeRegisters(4, 0), "SB") /\ Called(ThreeRegisters(36, 0), "SBC")
      /\ Called(WithImmediate(36, 1), "SBCI") /\ Called(WithImmediate(38, 1), "SBCIM")
      /\ Called(ThreeRegisters(38, 0), "SBCM") /\ Called(ThreeRegisters(5, 0), "SBF")
      /\ Called(ThreeRegisters(7, 0), "SBFM") /\ Called(WithImmediate(4, 1), "SBI")
    BY <1>1, <1>2, <1>3, ThreeRegistersCalled, WithImmediateCalled, SMT
<1>5. /\ InstructionsSAtoSBI.SA = ThreeRegisters(45, 0)
      /\ InstructionsSAtoSBI.SAI = WithImmediate(61, 0)
      /\ InstructionsSAtoSBI.SAIM = WithImmediate(63, 0)
      /\ InstructionsSAtoSBI.SAM = ThreeRegisters(47, 0)
      /\ InstructionsSAtoSBI.SB = ThreeRegisters(4, 0)
      /\ InstructionsSAtoSBI.SBC = ThreeRegisters(36, 0)
      /\ InstructionsSAtoSBI.SBCI = WithImmediate(36, 1)
      /\ InstructionsSAtoSBI.SBCIM = WithImmediate(38, 1)
      /\ InstructionsSAtoSBI.SBCM = ThreeRegisters(38, 0)
      /\ InstructionsSAtoSBI.SBF = ThreeRegisters(5, 0)
      /\ InstructionsSAtoSBI.SBFM = ThreeRegisters(7, 0)
      /\ InstructionsSAtoSBI.SBI = WithImmediate(4, 1)
    BY SMT DEF InstructionsSAtoSBI
<1>6. DOMAIN InstructionsSAtoSBI =
        {"SA", "SAI", "SAIM", "SAM", "SB", "SBC", "SBCI", "SBCIM", "SBCM", "SBF", "SBFM", "SBI"}
    BY DEF InstructionsSAtoSBI
<1> QED BY <1>4, <1>5, <1>6 DEF Telling

LEMMA TellingSBIMtoSRIM == Telling(InstructionsSBIMtoSRIM)
<1>1. /\ 6 \in Tailed /\ 1 \in 0 .. 3 /\ 0 \in 0 .. 3 /\ 7 \in 0 .. 31 /\ 8 \in 0 .. 31
      /\ 11 \in 0 .. 31 /\ 40 \in Tailed /\ 56 \in Tailed /\ 58 \in Tailed /\ 42 \in Tailed
      /\ 41 \in Tailed /\ 57 \in Tailed /\ 59 \in Tailed /\ 2567 = 2560 + 7 /\ 2568 = 2560 + 8
      /\ 2571 = 2560 + 11
    BY SMT DEF Tailed
<1>2. /\ OfTail(6, 1) = "SBIM" /\ OfTail(6, 0) = "SBM" /\ OfFive(7) = "SES" /\ OfFive(8) = "SEW"
      /\ OfFive(11) = "SF" /\ OfTail(40, 0) = "SL" /\ OfTail(56, 0) = "SLI"
      /\ OfTail(58, 0) = "SLIM" /\ OfTail(42, 0) = "SLM" /\ OfTail(41, 0) = "SR"
      /\ OfTail(57, 0) = "SRI" /\ OfTail(59, 0) = "SRIM"
    BY SMT DEF Four, OfFive, OfTail
<1>3. /\ "SBIM" \notin Narrow /\ "SBM" \notin Narrow /\ "SL" \notin Narrow /\ "SLI" \notin Narrow
      /\ "SLIM" \notin Narrow /\ "SLM" \notin Narrow /\ "SR" \notin Narrow /\ "SRI" \notin Narrow
      /\ "SRIM" \notin Narrow
    BY DEF Narrow
<1>4. /\ Called(WithImmediate(6, 1), "SBIM") /\ Called(ThreeRegisters(6, 0), "SBM")
      /\ Called(Extend(2567), "SES") /\ Called(Extend(2568), "SEW") /\ Called(Flags(2571), "SF")
      /\ Called(ThreeRegisters(40, 0), "SL") /\ Called(WithImmediate(56, 0), "SLI")
      /\ Called(WithImmediate(58, 0), "SLIM") /\ Called(ThreeRegisters(42, 0), "SLM")
      /\ Called(SetProtection(82), "SMP") /\ Called(ThreeRegisters(41, 0), "SR")
      /\ Called(WithImmediate(57, 0), "SRI") /\ Called(WithImmediate(59, 0), "SRIM")
    BY <1>1, <1>2, <1>3, ExtendCalled, FlagsCalled, ProtectionCalled, ThreeRegistersCalled, WithImmediateCalled, SMT
<1>5. /\ InstructionsSBIMtoSRIM.SBIM = WithImmediate(6, 1)
      /\ InstructionsSBIMtoSRIM.SBM = ThreeRegisters(6, 0)
      /\ InstructionsSBIMtoSRIM.SES = Extend(2567) /\ InstructionsSBIMtoSRIM.SEW = Extend(2568)
      /\ InstructionsSBIMtoSRIM.SF = Flags(2571)
      /\ InstructionsSBIMtoSRIM.SL = ThreeRegisters(40, 0)
      /\ InstructionsSBIMtoSRIM.SLI = WithImmediate(56, 0)
      /\ InstructionsSBIMtoSRIM.SLIM = WithImmediate(58, 0)
      /\ InstructionsSBIMtoSRIM.SLM = ThreeRegisters(42, 0)
      /\ InstructionsSBIMtoSRIM.SMP = SetProtection(82)
      /\ InstructionsSBIMtoSRIM.SR = ThreeRegisters(41, 0)
      /\ InstructionsSBIMtoSRIM.SRI = WithImmediate(57, 0)
      /\ InstructionsSBIMtoSRIM.SRIM = WithImmediate(59, 0)
    BY SMT DEF InstructionsSBIMtoSRIM
<1>6. DOMAIN InstructionsSBIMtoSRIM =
        {"SBIM", "SBM", "SES", "SEW", "SF", "SL", "SLI", "SLIM", "SLM", "SMP", "SR", "SRI",
         "SRIM"}
    BY DEF InstructionsSBIMtoSRIM
<1> QED BY <1>4, <1>5, <1>6 DEF Telling

LEMMA TellingSRMtoZEW == Telling(InstructionsSRMtoZEW)
<1>1. /\ 43 \in Tailed /\ 0 \in 0 .. 3 /\ 88 \in Rest /\ 90 \in Rest /\ 89 \in Rest /\ 2 \in 0 .. 31
      /\ 28 \in Tailed /\ 1 \in 0 .. 3 /\ 30 \in Tailed /\ 9 \in 0 .. 31 /\ 10 \in 0 .. 31
      /\ 163968 = 163840 + 64 * 2 /\ 2569 = 2560 + 9 /\ 2570 = 2560 + 10
    BY SMT DEF Tailed, Rest
<1>2. /\ OfTail(43, 0) = "SRM" /\ OfRest(88) = "STS" /\ OfRest(90) = "STT" /\ OfRest(89) = "STW"
      /\ OfFive(2) = "WT" /\ OfTail(28, 0) = "XR" /\ OfTail(28, 1) = "XRI" /\ OfTail(30, 0) = "XRM"
      /\ OfFive(9) = "ZES" /\ OfFive(10) = "ZEW"
    BY SMT DEF Four, OfFive, OfRest, OfTail
<1>3. /\ "SRM" \notin Narrow /\ "STS" \notin Narrow /\ "STT" \notin Narrow /\ "STW" \notin Narrow
      /\ "XR" \notin Narrow /\ "XRI" \notin Narrow /\ "XRM" \notin Narrow
    BY DEF Narrow
<1>4. /\ Called(ThreeRegisters(43, 0), "SRM") /\ Called(Store(88), "STS")
      /\ Called(Store(90), "STT") /\ Called(Store(89), "STW") /\ Called(Plain(18, 163968), "WT")
      /\ Called(ThreeRegisters(28, 0), "XR") /\ Called(WithImmediate(28, 1), "XRI")
      /\ Called(ThreeRegisters(30, 0), "XRM") /\ Called(Extend(2569), "ZES")
      /\ Called(Extend(2570), "ZEW")
    BY <1>1, <1>2, <1>3, ExtendCalled, PlainCalled, StoreCalled, ThreeRegistersCalled, WithImmediateCalled, SMT
<1>5. /\ InstructionsSRMtoZEW.SRM = ThreeRegisters(43, 0) /\ InstructionsSRMtoZEW.STS = Store(88)
      /\ InstructionsSRMtoZEW.STT = Store(90) /\ InstructionsSRMtoZEW.STW = Store(89)
      /\ InstructionsSRMtoZEW.WT = Plain(18, 163968)
      /\ InstructionsSRMtoZEW.XR = ThreeRegisters(28, 0)
      /\ InstructionsSRMtoZEW.XRI = WithImmediate(28, 1)
      /\ InstructionsSRMtoZEW.XRM = ThreeRegisters(30, 0) /\ InstructionsSRMtoZEW.ZES = Extend(2569)
      /\ InstructionsSRMtoZEW.ZEW = Extend(2570)
    BY SMT DEF InstructionsSRMtoZEW
<1>6. DOMAIN InstructionsSRMtoZEW =
        {"SRM", "STS", "STT", "STW", "WT", "XR", "XRI", "XRM", "ZES", "ZEW"}
    BY DEF InstructionsSRMtoZEW
<1> QED BY <1>4, <1>5, <1>6 DEF Telling

LEMMA MergedTelling ==
    ASSUME NEW f, NEW g, Telling(f), Telling(g)
    PROVE  Telling(Over(f, g))
<1> DEFINE h == Over(f, g)
<1>1. /\ DOMAIN h = (DOMAIN f) \cup DOMAIN g
      /\ \A x \in DOMAIN f : h[x] = f[x]
      /\ \A x \in (DOMAIN g) \ DOMAIN f : h[x] = g[x]
    BY Merged
<1> HIDE DEF h
<1>2. ASSUME NEW x \in DOMAIN h PROVE (x \in DOMAIN f /\ h[x] = f[x]) \/ (x \in DOMAIN g /\ h[x] = g[x])
    BY <1>1
<1>3. Telling(h)
    BY <1>2 DEF Telling
<1> QED BY <1>3 DEF h

LEMMA InstructionsTell == Telling(Instructions)
<1> DEFINE f1 == InstructionsSRMtoZEW
           f2 == Over(InstructionsSBIMtoSRIM, f1)
           f3 == Over(InstructionsSAtoSBI, f2)
           f4 == Over(InstructionsR, f3)
           f5 == Over(InstructionsNO, f4)
           f6 == Over(InstructionsMHtoMU, f5)
           f7 == Over(InstructionsMD, f6)
           f8 == Over(InstructionsFtoL, f7)
           f9 == Over(InstructionsDE, f8)
           f10 == Over(InstructionsBC, f9)
           f11 == Over(InstructionsA, f10)
<1>1. Instructions = f11
    BY DEF Instructions
<1> HIDE DEF f1, f2, f3, f4, f5, f6, f7, f8, f9, f10, f11
<1>2. Telling(f1)
    BY TellingSRMtoZEW DEF f1
<1>3. Telling(f2)
    BY <1>2, TellingSBIMtoSRIM, MergedTelling DEF f2
<1>4. Telling(f3)
    BY <1>3, TellingSAtoSBI, MergedTelling DEF f3
<1>5. Telling(f4)
    BY <1>4, TellingR, MergedTelling DEF f4
<1>6. Telling(f5)
    BY <1>5, TellingNO, MergedTelling DEF f5
<1>7. Telling(f6)
    BY <1>6, TellingMHtoMU, MergedTelling DEF f6
<1>8. Telling(f7)
    BY <1>7, TellingMD, MergedTelling DEF f7
<1>9. Telling(f8)
    BY <1>8, TellingFtoL, MergedTelling DEF f8
<1>10. Telling(f9)
    BY <1>9, TellingDE, MergedTelling DEF f9
<1>11. Telling(f10)
    BY <1>10, TellingBC, MergedTelling DEF f10
<1>12. Telling(f11)
    BY <1>11, TellingA, MergedTelling DEF f11
<1> QED BY <1>1, <1>12

LEMMA CodeLengths ==
    \A name : name \notin NeverCode \cup Misread =>
        TotalOf(name) \in {18, 27, 54} /\ (TotalOf(name) < 27 => name \in Narrow)
BY DEF TotalOf, Narrow, NeverCode, Misread

\* Code says what was asked for.
LEMMA FittingSays ==
    ASSUME NEW name \in DOMAIN Instructions, NEW args \in Arguments(Instructions[name]),
           name \notin Misread, Assemble(name, args).result = "code"
    PROVE  LET bits == WordBits(Assemble(name, args).hex)
           IN  /\ Len(bits) = Len(Masks[name])
               /\ {n \in DOMAIN Instructions : Alike(Masks[n], bits)} = {name}
               /\ Carries(Instructions[name], bits, args)
<1> DEFINE layout == Instructions[name]
           bits == BitsOfLayout(layout, args)
           total == TotalOf(name)
<1>1. name \notin NeverCode /\ ("Condition" \in DOMAIN args => args.Condition # "SL")
    BY FittingAssembles
<1>2. total \in {18, 27, 54} /\ (total < 27 => name \in Narrow) /\ name \notin Unnamed
    BY <1>1, CodeLengths DEF NeverCode, Unnamed
<1>3. Sound(layout, total) /\ Named(layout)
    BY <1>2, InstructionsAre DEF Group, WellFormed
<1>4. layout \in Seq(Parts) /\ args \in Arguments(layout)
    BY <1>3 DEF Sound
<1> HIDE DEF total
<1>5. \A n \in DOMAIN Instructions : Masks[n] = Mask(Instructions[n])
    BY DEF Masks
<1>6. Telling(Instructions)
    BY InstructionsTell
<1>7. Assemble(name, args) = Bin2Hex(bits)
       /\ \A i \in DOMAIN layout : Takes(layout[i], args)
                                    /\ (Free(layout, i) => args[layout[i].name] \in Fitting(layout[i]))
    <2>1. \A i \in DOMAIN layout : Takes(layout[i], args)
                                    /\ (Free(layout, i) => args[layout[i].name] \in Fitting(layout[i]))
        <3> HIDE DEF layout
        <3> QED BY <1>1, <1>3, <1>4, FittingTakes
    <2> QED BY <1>4, <2>1, AssembledFrom
<1>8. layout = Instructions[name] /\ DOMAIN layout = 1 .. Len(layout)
    BY <1>4
<1> HIDE DEF layout
<1>9. bits \in Seq(Bit) /\ Len(bits) = total
    <2>1. total \in Nat
        BY <1>2
    <2> QED BY <1>3, <1>7, <2>1, LayoutIs
<1>10. PICK g : Widths(g, layout)
    BY <1>4, PartsShaped, LaidOut
<1>11. Alike(Mask(layout), bits) /\ Len(Mask(layout)) = Len(bits)
    BY <1>4, <1>7, <1>8, <1>10, OwnMask
<1>12. Carries(layout, bits, args)
    BY <1>3, <1>4, <1>7, <1>8, <1>10, ArgumentsRead
<1> HIDE DEF bits
<1>13. WordBits(Assemble(name, args).hex) = bits
    BY <1>2, <1>7, <1>9, WordsRead
<1>14. Len(bits) >= 18 /\ (Len(bits) < 27 => name \in Narrow)
    BY <1>2, <1>9
<1>15. Like(layout, bits)
    BY <1>9, <1>11, <1>14 DEF Like
<1>16. Met(bits)
    BY <1>6, <1>8, <1>14, <1>15 DEF Telling, Called, Met
<1>17. ASSUME NEW n \in DOMAIN Instructions, Alike(Mask(Instructions[n]), bits)
       PROVE  Told(bits) = n
    <2>1. Like(Instructions[n], bits)
        BY <1>9, <1>14, <1>17 DEF Like
    <2> QED BY <1>6, <1>16, <2>1 DEF Telling, Called
<1>18. {n \in DOMAIN Instructions : Alike(Masks[n], bits)} = {name}
    BY <1>5, <1>8, <1>11, <1>17
<1> QED BY <1>5, <1>8, <1>11, <1>12, <1>13, <1>18

\* The code of every function of cLEMENCy.py but DBRK says what was asked for:
\* the instruction and all its arguments can be read in the words it fills, and
\* no other of the 132 instructions, though a hundred of them were copied from
\* each other by hand.
THEOREM CodeIsRead == AssemblerSpec => []CodeSaysInstruction
<1>1. Message.result # "code"
    BY DEF Message
<1>2. CallInv => CodeSaysInstruction
    BY <1>1, FittingSays DEF CallInv, CodeSaysInstruction
<1> QED BY <1>2, CallInvHolds, PTL

=============================================================================
