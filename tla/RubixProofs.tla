----------------------------- MODULE RubixProofs -----------------------------
(***************************************************************************)
(* Theorems about Rubix: whatever the check composes fits the page it sends *)
(* and prints what the check expects, and a service that works passes the  *)
(* check.                                                                  *)
(***************************************************************************)
EXTENDS AssemblerProofs

-----------------------------------------------------------------------------
(* The words of a program.                                                   *)

\* The words of an instruction of that many hexadecimal digits.
Weight(hex) == IF Len(hex) = 5 THEN 2 ELSE IF Len(hex) = 7 THEN 3 ELSE 6
Sized(hex) == Len(hex) \in {5, 7, 14}

\* g is where the instructions of a program begin, and its length the last of it.
Places(g, program, n) ==
    /\ g \in [0 .. Len(program) -> Nat]
    /\ g[0] = 0
    /\ \A i \in 1 .. Len(program) : g[i] = g[i - 1] + Weight(program[i])
    /\ g[Len(program)] = n
Weighs(program, n) ==
    /\ \E S : program \in Seq(S)
    /\ \A i \in 1 .. Len(program) : Sized(program[i])
    /\ \E g : Places(g, program, n)

LEMMA WeightIs == \A hex : Weight(hex) \in {2, 3, 6}
BY DEF Weight

LEMMA WeighsNothing == Weighs(<<>>, 0)
<1> DEFINE g == [i \in 0 .. 0 |-> 0]
<1>1. <<>> \in Seq({}) /\ Len(<<>>) = 0
    BY EmptySeq
<1>2. g \in [0 .. 0 -> Nat] /\ g[0] = 0
    OBVIOUS
<1> HIDE DEF g
<1>3. Places(g, <<>>, 0)
    BY <1>1, <1>2 DEF Places
<1> QED BY <1>1, <1>3 DEF Weighs

LEMMA WeighsMore ==
    ASSUME NEW c, NEW d, NEW m \in Nat, NEW n \in Nat, Weighs(c, m), Weighs(d, n)
    PROVE  Weighs(c \o d, m + n)
<1> DEFINE v == c \o d
           k == Len(c)
           l == Len(d)
<1>1. PICK S : c \in Seq(S)
    BY DEF Weighs
<1>2. PICK R : d \in Seq(R)
    BY DEF Weighs
<1>3. c \in Seq(S \cup R) /\ d \in Seq(S \cup R)
    BY <1>1, <1>2
<1>4. /\ v \in Seq(S \cup R) /\ Len(v) = k + l
      /\ \A i \in 1 .. k + l : v[i] = IF i <= k THEN c[i] ELSE d[i - k]
    BY <1>3, ConcatProperties
<1>5. k \in Nat /\ l \in Nat
    BY <1>3, LenProperties
<1>6. PICK g : Places(g, c, m)
    BY DEF Weighs
<1>7. PICK f : Places(f, d, n)
    BY DEF Weighs
<1> HIDE DEF v, k, l
<1>8. /\ g \in [0 .. k -> Nat] /\ g[0] = 0 /\ g[k] = m
      /\ \A i \in 1 .. k : g[i] = g[i - 1] + Weight(c[i])
    BY <1>6 DEF Places, k
<1>9. /\ f \in [0 .. l -> Nat] /\ f[0] = 0 /\ f[l] = n
      /\ \A i \in 1 .. l : f[i] = f[i - 1] + Weight(d[i])
    BY <1>7 DEF Places, l
<1> DEFINE h == [i \in 0 .. k + l |-> IF i <= k THEN g[i] ELSE m + f[i - k]]
<1>10. /\ \A i \in 0 .. k : h[i] = g[i]
       /\ \A i \in 0 .. k + l : ~(i <= k) => h[i] = m + f[i - k]
    BY <1>5
<1>11. h \in [0 .. k + l -> Nat]
    <2>1. ASSUME NEW i \in 0 .. k + l PROVE (IF i <= k THEN g[i] ELSE m + f[i - k]) \in Nat
        <3>1. CASE i <= k
            <4>1. i \in 0 .. k
                BY <1>5, <3>1
            <4> QED BY <1>8, <3>1, <4>1
        <3>2. CASE ~(i <= k)
            <4>1. i - k \in 0 .. l
                BY <1>5, <3>2
            <4>2. f[i - k] \in Nat
                BY <1>9, <4>1
            <4> QED BY <3>2, <4>2
        <3> QED BY <3>1, <3>2
    <2> QED BY <2>1
<1> HIDE DEF h
<1>12. ASSUME NEW i \in 1 .. k + l PROVE h[i] = h[i - 1] + Weight(v[i])
    <2>1. CASE i <= k
        <3>1. i \in 1 .. k /\ i \in 0 .. k /\ i - 1 \in 0 .. k
            BY <1>5, <2>1
        <3>2. v[i] = c[i]
            BY <1>4, <2>1
        <3> QED BY <1>8, <1>10, <3>1, <3>2
    <2>2. CASE ~(i <= k)
        <3> DEFINE j == i - k
        <3>1. j \in 1 .. l /\ j - 1 \in 0 .. l /\ j \in 0 .. l /\ i \in 0 .. k + l /\ i - 1 \in 0 .. k + l
              /\ i = k + j
            BY <1>5, <2>2
        <3>2. v[i] = d[j] /\ h[i] = m + f[j]
            BY <1>4, <1>10, <2>2, <3>1
        <3>3. f[j] = f[j - 1] + Weight(d[j]) /\ f[j - 1] \in Nat /\ Weight(d[j]) \in Nat
            BY <1>9, <3>1, WeightIs
        <3>4. h[i - 1] = m + f[j - 1]
            <4>1. CASE i - 1 <= k
                <5>1. i - 1 = k /\ j - 1 = 0 /\ k \in 0 .. k
                    BY <1>5, <2>2, <3>1, <4>1
                <5> QED BY <1>8, <1>9, <1>10, <5>1
            <4>2. CASE ~(i - 1 <= k)
                <5>1. (i - 1) - k = j - 1
                    BY <1>5, <3>1
                <5> QED BY <1>10, <3>1, <4>2, <5>1
            <4> QED BY <4>1, <4>2
        <3> HIDE DEF j
        <3> QED BY <3>2, <3>3, <3>4
    <2> QED BY <2>1, <2>2
<1>13. h[0] = 0 /\ h[k + l] = m + n
    <2>1. 0 \in 0 .. k /\ k \in 0 .. k /\ k + l \in 0 .. k + l
        BY <1>5
    <2>2. CASE l = 0
        <3>1. n = 0 /\ k + l = k
            BY <1>5, <1>9, <2>2
        <3> QED BY <1>8, <1>10, <2>1, <3>1
    <2>3. CASE l # 0
        <3>1. ~(k + l <= k) /\ (k + l) - k = l
            BY <1>5, <2>3
        <3> QED BY <1>8, <1>9, <1>10, <2>1, <3>1
    <2> QED BY <2>2, <2>3
<1>14. Places(h, v, m + n)
    BY <1>4, <1>11, <1>12, <1>13 DEF Places
<1>15. ASSUME NEW i \in 1 .. k + l PROVE Sized(v[i])
    <2>1. CASE i <= k
        <3>1. i \in 1 .. Len(c)
            BY <2>1 DEF k
        <3> QED BY <1>4, <2>1, <3>1 DEF Weighs
    <2>2. CASE ~(i <= k)
        <3>1. i - k \in 1 .. Len(d)
            BY <1>5, <2>2 DEF l
        <3> QED BY <1>4, <2>2, <3>1 DEF Weighs
    <2> QED BY <2>1, <2>2
<1>16. Weighs(v, m + n)
    BY <1>4, <1>14, <1>15 DEF Weighs
<1> QED BY <1>16 DEF v

\* The words of one instruction.
LEMMA WordsAre ==
    ASSUME NEW hex, Sized(hex)
    PROVE  \E S : Words(hex) \in Seq(S) /\ Len(Words(hex)) = Weight(hex)
<1>1. CASE Len(hex) = 5
    <2> DEFINE a == Word(hex, 0)
               b == Word(hex, 9)
    <2>1. Words(hex) = <<a, b>>
        BY <1>1 DEF Words
    <2> HIDE DEF a, b
    <2>2. <<a, b>> \in Seq({a, b}) /\ Len(<<a, b>>) = 2
        OBVIOUS
    <2>3. Weight(hex) = 2
        BY <1>1 DEF Weight
    <2> QED BY <2>1, <2>2, <2>3
<1>2. CASE Len(hex) = 7
    <2> DEFINE a == Word(hex, 9)
               b == Word(hex, 18)
               c == Word(hex, 0)
    <2>1. Words(hex) = <<a, b, c>>
        BY <1>2 DEF Words
    <2> HIDE DEF a, b, c
    <2>2. <<a, b, c>> \in Seq({a, b, c}) /\ Len(<<a, b, c>>) = 3
        OBVIOUS
    <2>3. Weight(hex) = 3
        BY <1>2 DEF Weight
    <2> QED BY <2>1, <2>2, <2>3
<1>3. CASE Len(hex) = 14
    <2> DEFINE first == SubSeq(hex, 1, 7)
               rest == SubSeq(hex, 8, 14)
               a == Word(first, 8)
               b == Word(first, 17)
               c == Word(first, 0)
               d == Word(rest, 8)
               e == Word(rest, 17)
               f == Word(rest, 0)
    <2>1. Words(hex) = <<a, b, c, d, e, f>>
        BY <1>3 DEF Words
    <2> HIDE DEF first, rest, a, b, c, d, e, f
    <2>2. <<a, b, c, d, e, f>> \in Seq({a, b, c, d, e, f}) /\ Len(<<a, b, c, d, e, f>>) = 6
        OBVIOUS
    <2>3. Weight(hex) = 6
        BY <1>3 DEF Weight
    <2> QED BY <2>1, <2>2, <2>3
<1> QED BY <1>1, <1>2, <1>3 DEF Sized

\* A program that weighs no more than a page fills one.
LEMMA MakesPage ==
    ASSUME NEW whole, NEW n \in Nat, Weighs(whole, n), n <= PageSize
    PROVE  Len(MakeSc(whole)) = PageSize
<1> DEFINE S == {Words(whole[i])[j] : i \in 1 .. Len(whole), j \in 1 .. 6}
           seqs == [i \in DOMAIN whole |-> Words(whole[i])]
           sc == FlattenSeq(seqs)
           fill == [i \in 1 .. PageSize - Len(sc) |-> 0]
<1>1. PICK Q : whole \in Seq(Q)
    BY DEF Weighs
<1>2. DOMAIN whole = 1 .. Len(whole) /\ Len(whole) \in Nat
    BY <1>1
<1>3. ASSUME NEW i \in 1 .. Len(whole)
      PROVE  Words(whole[i]) \in Seq(S) /\ Len(Words(whole[i])) = Weight(whole[i])
    <2> DEFINE w == Words(whole[i])
    <2>1. PICK R : w \in Seq(R) /\ Len(w) = Weight(whole[i])
        BY WordsAre DEF Weighs
    <2>2. Len(w) \in 1 .. 6
        BY <2>1, WeightIs
    <2>3. \A j \in 1 .. Len(w) : w[j] \in S
        BY <2>2
    <2> HIDE DEF w, S
    <2>4. w \in Seq(S)
        <3>1. w = [j \in 1 .. Len(w) |-> w[j]] /\ Len(w) \in Nat
            BY <2>1
        <3> QED BY <2>3, <3>1
    <2> QED BY <2>1, <2>4 DEF w
<1> HIDE DEF S
<1>4. seqs \in [1 .. Len(whole) -> Seq(S)] /\ \A i \in 1 .. Len(whole) : seqs[i] = Words(whole[i])
    BY <1>2, <1>3
<1>5. MakeSc(whole) = sc \o fill
    BY DEF MakeSc
<1> HIDE DEF seqs
<1>6. seqs \in Seq(Seq(S)) /\ Len(seqs) = Len(whole)
    BY <1>2, <1>4
<1>7. PICK g : Places(g, whole, n)
    BY DEF Weighs
<1>8. Begins(g, seqs)
    BY <1>3, <1>4, <1>6, <1>7 DEF Places, Begins
<1>9. Len(sc) = n
    BY <1>6, <1>7, <1>8, FlattenPlaces DEF Places
<1>10. sc \in Seq(S)
    BY <1>6, FlattenType
<1> HIDE DEF sc
<1>11. PageSize - n \in Nat /\ PageSize \in Nat
    BY DEF PageSize
<1>12. fill \in Seq({0}) /\ Len(fill) = PageSize - n
    BY <1>9, <1>11
<1> HIDE DEF fill
<1>13. sc \in Seq(S \cup {0}) /\ fill \in Seq(S \cup {0})
    BY <1>10, <1>12
<1>14. Len(sc \o fill) = Len(sc) + Len(fill)
    BY <1>13, ConcatProperties
<1> QED BY <1>5, <1>9, <1>11, <1>12, <1>14

-----------------------------------------------------------------------------
(* The calls that a program is composed of.                                  *)

\* The instructions that the tests call.
Composed ==
    DrawnThree \cup DrawnWith \cup DrawnTwo \cup DrawnMove
      \cup {"CMI", "DVI", "MDI", "STS", "STT", "B", "HT"}

LEMMA ComposedAre ==
    \A name \in Composed :
        name \in DOMAIN Instructions /\ name \notin Unnamed /\ name \notin NeverCode
<1>1. /\ {"AD", "ADC", "AN", "ADCI", "ADI", "ANI"} \subseteq DOMAIN InstructionsA
      /\ {"CM", "CMI", "B"} \subseteq DOMAIN InstructionsBC
      /\ {"DVI"} \subseteq DOMAIN InstructionsDE
      /\ {"HT"} \subseteq DOMAIN InstructionsFtoL
      /\ {"MDI"} \subseteq DOMAIN InstructionsMD
      /\ {"MU", "MUS", "MUI", "MH", "ML", "MS"} \subseteq DOMAIN InstructionsMHtoMU
      /\ {"OR", "ORI", "NG", "NT"} \subseteq DOMAIN InstructionsNO
      /\ {"RL", "RR", "RLI", "RRI"} \subseteq DOMAIN InstructionsR
      /\ {"SA", "SB", "SAI", "SBI"} \subseteq DOMAIN InstructionsSAtoSBI
      /\ {"SL", "SR", "SLI", "SRI"} \subseteq DOMAIN InstructionsSBIMtoSRIM
      /\ {"XR", "XRI", "STS", "STT"} \subseteq DOMAIN InstructionsSRMtoZEW
    <2>1. {"AD", "ADC", "AN", "ADCI", "ADI", "ANI"} \subseteq DOMAIN InstructionsA
        BY DEF InstructionsA
    <2>2. {"CM", "CMI", "B"} \subseteq DOMAIN InstructionsBC
        BY DEF InstructionsBC
    <2>3. {"DVI"} \subseteq DOMAIN InstructionsDE
        BY DEF InstructionsDE
    <2>4. {"HT"} \subseteq DOMAIN InstructionsFtoL
        BY DEF InstructionsFtoL
    <2>5. {"MDI"} \subseteq DOMAIN InstructionsMD
        BY DEF InstructionsMD
    <2>6. {"MU", "MUS", "MUI", "MH", "ML", "MS"} \subseteq DOMAIN InstructionsMHtoMU
        BY DEF InstructionsMHtoMU
    <2>7. {"OR", "ORI", "NG", "NT"} \subseteq DOMAIN InstructionsNO
        BY DEF InstructionsNO
    <2>8. {"RL", "RR", "RLI", "RRI"} \subseteq DOMAIN InstructionsR
        BY DEF InstructionsR
    <2>9. {"SA", "SB", "SAI", "SBI"} \subseteq DOMAIN InstructionsSAtoSBI
        BY DEF InstructionsSAtoSBI
    <2>10. {"SL", "SR", "SLI", "SRI"} \subseteq DOMAIN InstructionsSBIMtoSRIM
        BY DEF InstructionsSBIMtoSRIM
    <2>11. {"XR", "XRI", "STS", "STT"} \subseteq DOMAIN InstructionsSRMtoZEW
        BY DEF InstructionsSRMtoZEW
    <2> QED BY <2>1, <2>2, <2>3, <2>4, <2>5, <2>6, <2>7, <2>8, <2>9, <2>10, <2>11
<1>2. Composed =
        {"AD", "ADC", "AN", "ADCI", "ADI", "ANI"} \cup {"CM", "CMI", "B"} \cup {"DVI"} \cup {"HT"}
          \cup {"MDI"} \cup {"MU", "MUS", "MUI", "MH", "ML", "MS"} \cup {"OR", "ORI", "NG", "NT"}
          \cup {"RL", "RR", "RLI", "RRI"} \cup {"SA", "SB", "SAI", "SBI"} \cup {"SL", "SR", "SLI", "SRI"}
          \cup {"XR", "XRI", "STS", "STT"}
    BY DEF Composed, DrawnThree, DrawnWith, DrawnTwo, DrawnMove
<1>3. Composed \subseteq DOMAIN Instructions
    BY <1>1, <1>2, InstructionsAre
<1>4. \A name \in Composed : name \notin Unnamed /\ name \notin NeverCode
    BY <1>2 DEF Unnamed, NeverCode
<1> QED BY <1>3, <1>4

\* A call that assembles to that many words.
Makes(c, w) ==
    /\ Assemble(c.name, c.args).result = "code"
    /\ Sized(Assemble(c.name, c.args).hex)
    /\ Weight(Assemble(c.name, c.args).hex) = w

LEMMA CallMakes ==
    ASSUME NEW name \in Composed, name # "B", NEW args, \A x \in NamesOf(name) : args[x] \in Small
    PROVE  /\ TotalOf(name) = 54 => Makes(Call(name, args), 6)
           /\ TotalOf(name) = 27 => Makes(Call(name, args), 3)
           /\ TotalOf(name) = 18 => Makes(Call(name, args), 2)
<1> DEFINE layout == Instructions[name]
<1>1. name \in DOMAIN Instructions /\ name \notin Unnamed /\ name \notin NeverCode
    BY ComposedAre
<1>2. WellFormed(layout, TotalOf(name), NamesOf(name))
    BY <1>1, InstructionsAre DEF Group
<1>3. "Condition" \notin NamesOf(name)
    BY DEF NamesOf, Composed, DrawnTwo
<1>4. layout \in Seq(Parts) /\ DOMAIN layout = 1 .. Len(layout)
    BY <1>2 DEF WellFormed, Sound
<1>5. ASSUME NEW i \in DOMAIN layout PROVE Takes(layout[i], args)
    <2> DEFINE p == layout[i]
    <2>1. p \in Parts
        BY <1>4
    <2>2. p.kind \in Kinds /\ p.width \in 1 .. 27 /\ (p.kind = "condition" <=> p.name = "Condition")
        BY <2>1, PartsAre
    <2>3. p.kind # "fixed" => p.name \in NamesOf(name)
        BY <1>2, <1>4 DEF WellFormed, Within
    <2> HIDE DEF p
    <2>4. p.kind # "condition"
        BY <1>3, <2>2, <2>3
    <2>5. p.kind # "fixed" => args[p.name] \in Small
        BY <2>3
    <2>6. p.width - 1 \in 0 .. 30
        BY <2>2
    <2>7. Power[p.width - 1] \in Nat
        BY <2>6, PowerTable
    <2>8. p.kind = "signed" =>
            args[p.name] \in Int /\ -Power[p.width - 1] <= args[p.name] /\ args[p.name] < 2^30
        BY <2>5, <2>7 DEF Small
    <2> QED BY <2>4, <2>5, <2>8 DEF Takes, p
<1>6. Assemble(name, args).result = "code" /\ Len(Assemble(name, args).hex) = 1 + TotalOf(name) \div 4
    BY <1>1, <1>5, AssembleIs
<1>7. Call(name, args).name = name /\ Call(name, args).args = args
    BY DEF Call
<1>8. 1 + 54 \div 4 = 14 /\ 1 + 27 \div 4 = 7 /\ 1 + 18 \div 4 = 5
    OBVIOUS
<1> DEFINE hex == Assemble(name, args).hex
<1>9. Len(hex) = 1 + TotalOf(name) \div 4
    BY <1>6
<1>10. (TotalOf(name) = 54 => Len(hex) = 14) /\ (TotalOf(name) = 27 => Len(hex) = 7)
       /\ (TotalOf(name) = 18 => Len(hex) = 5)
    BY <1>8, <1>9
<1> HIDE DEF hex
<1>11. /\ Len(hex) = 14 => Sized(hex) /\ Weight(hex) = 6
       /\ Len(hex) = 7 => Sized(hex) /\ Weight(hex) = 3
       /\ Len(hex) = 5 => Sized(hex) /\ Weight(hex) = 2
    BY DEF Sized, Weight
<1> QED BY <1>6, <1>7, <1>10, <1>11 DEF Makes, hex

LEMMA ThreeMakes ==
    ASSUME NEW name \in DrawnThree, NEW rA \in Small, NEW rB \in Small, NEW rC \in Small
    PROVE  Makes(Three(name, rA, rB, rC), 3)
<1> DEFINE args == [rA |-> rA, rB |-> rB, rC |-> rC, UF |-> 1]
<1>1. name \in Composed /\ name # "B"
    BY DEF Composed, DrawnThree
<1>2. TotalOf(name) = 27 /\ NamesOf(name) = {"rA", "rB", "rC", "UF"}
    <2>1. /\ TotalOf("AD") = 27 /\ TotalOf("ADC") = 27 /\ TotalOf("AN") = 27 /\ TotalOf("MU") = 27
          /\ TotalOf("MUS") = 27 /\ TotalOf("OR") = 27 /\ TotalOf("RL") = 27 /\ TotalOf("RR") = 27
          /\ TotalOf("SA") = 27 /\ TotalOf("SB") = 27 /\ TotalOf("SL") = 27 /\ TotalOf("SR") = 27
          /\ TotalOf("XR") = 27
        BY DEF TotalOf, Narrow
    <2>2. /\ NamesOf("AD") = {"rA", "rB", "rC", "UF"} /\ NamesOf("ADC") = {"rA", "rB", "rC", "UF"}
          /\ NamesOf("AN") = {"rA", "rB", "rC", "UF"} /\ NamesOf("MU") = {"rA", "rB", "rC", "UF"}
          /\ NamesOf("MUS") = {"rA", "rB", "rC", "UF"} /\ NamesOf("OR") = {"rA", "rB", "rC", "UF"}
          /\ NamesOf("RL") = {"rA", "rB", "rC", "UF"} /\ NamesOf("RR") = {"rA", "rB", "rC", "UF"}
          /\ NamesOf("SA") = {"rA", "rB", "rC", "UF"} /\ NamesOf("SB") = {"rA", "rB", "rC", "UF"}
          /\ NamesOf("SL") = {"rA", "rB", "rC", "UF"} /\ NamesOf("SR") = {"rA", "rB", "rC", "UF"}
          /\ NamesOf("XR") = {"rA", "rB", "rC", "UF"}
        BY DEF NamesOf, DrawnThree, DrawnWith, DrawnMove
    <2> QED BY <2>1, <2>2 DEF DrawnThree
<1>3. args["rA"] = rA /\ args["rB"] = rB /\ args["rC"] = rC /\ args["UF"] = 1
    OBVIOUS
<1>4. Three(name, rA, rB, rC) = Call(name, args)
    BY DEF Three
<1> HIDE DEF args
<1>5. \A x \in NamesOf(name) : args[x] \in Small
    BY <1>2, <1>3, ZeroOne
<1> QED BY <1>1, <1>2, <1>4, <1>5, CallMakes

LEMMA WithMakes ==
    ASSUME NEW name \in DrawnWith \cup {"DVI", "MDI"}, NEW rA \in Small, NEW rB \in Small, NEW n \in Small
    PROVE  Makes(With(name, rA, rB, n), 3)
<1> DEFINE args == [rA |-> rA, rB |-> rB, Immediate |-> n, UF |-> 1]
<1>1. name \in Composed /\ name # "B"
    BY DEF Composed, DrawnWith
<1>2. TotalOf(name) = 27 /\ NamesOf(name) = {"rA", "rB", "Immediate", "UF"}
    <2>1. /\ TotalOf("ADCI") = 27 /\ TotalOf("ADI") = 27 /\ TotalOf("ANI") = 27 /\ TotalOf("MUI") = 27
          /\ TotalOf("ORI") = 27 /\ TotalOf("RLI") = 27 /\ TotalOf("RRI") = 27 /\ TotalOf("SAI") = 27
          /\ TotalOf("SBI") = 27 /\ TotalOf("SLI") = 27 /\ TotalOf("SRI") = 27 /\ TotalOf("XRI") = 27
          /\ TotalOf("DVI") = 27 /\ TotalOf("MDI") = 27
        BY DEF TotalOf, Narrow
    <2>2. /\ NamesOf("ADCI") = {"rA", "rB", "Immediate", "UF"} /\ NamesOf("ADI") = {"rA", "rB", "Immediate", "UF"}
          /\ NamesOf("ANI") = {"rA", "rB", "Immediate", "UF"} /\ NamesOf("MUI") = {"rA", "rB", "Immediate", "UF"}
          /\ NamesOf("ORI") = {"rA", "rB", "Immediate", "UF"} /\ NamesOf("RLI") = {"rA", "rB", "Immediate", "UF"}
          /\ NamesOf("RRI") = {"rA", "rB", "Immediate", "UF"} /\ NamesOf("SAI") = {"rA", "rB", "Immediate", "UF"}
          /\ NamesOf("SBI") = {"rA", "rB", "Immediate", "UF"} /\ NamesOf("SLI") = {"rA", "rB", "Immediate", "UF"}
          /\ NamesOf("SRI") = {"rA", "rB", "Immediate", "UF"} /\ NamesOf("XRI") = {"rA", "rB", "Immediate", "UF"}
          /\ NamesOf("DVI") = {"rA", "rB", "Immediate", "UF"} /\ NamesOf("MDI") = {"rA", "rB", "Immediate", "UF"}
        BY DEF NamesOf, DrawnThree, DrawnWith, DrawnMove
    <2> QED BY <2>1, <2>2 DEF DrawnWith
<1>3. args["rA"] = rA /\ args["rB"] = rB /\ args["Immediate"] = n /\ args["UF"] = 1
    OBVIOUS
<1>4. With(name, rA, rB, n) = Call(name, args)
    BY DEF With
<1> HIDE DEF args
<1>5. \A x \in NamesOf(name) : args[x] \in Small
    BY <1>2, <1>3, ZeroOne
<1> QED BY <1>1, <1>2, <1>4, <1>5, CallMakes

LEMMA TwoMakes ==
    ASSUME NEW name \in DrawnTwo, NEW rA \in Small, NEW rB \in Small
    PROVE  Makes(Two(name, rA, rB), 2) \/ Makes(Two(name, rA, rB), 3)
<1> DEFINE args == [rA |-> rA, rB |-> rB, UF |-> 1]
<1>1. name \in Composed /\ name # "B"
    BY DEF Composed, DrawnTwo
<1>2. TotalOf(name) \in {18, 27} /\ NamesOf(name) \subseteq {"rA", "rB", "UF"}
    <2>1. TotalOf("CM") = 18 /\ TotalOf("NG") = 27 /\ TotalOf("NT") = 27
        BY DEF TotalOf, Narrow
    <2>2. NamesOf("CM") = {"rA", "rB"} /\ NamesOf("NG") = {"rA", "rB", "UF"}
          /\ NamesOf("NT") = {"rA", "rB", "UF"}
        BY DEF NamesOf, DrawnThree, DrawnWith, DrawnMove
    <2> QED BY <2>1, <2>2 DEF DrawnTwo
<1>3. args["rA"] = rA /\ args["rB"] = rB /\ args["UF"] = 1
    OBVIOUS
<1>4. Two(name, rA, rB) = Call(name, args)
    BY DEF Two
<1> HIDE DEF args
<1>5. \A x \in NamesOf(name) : args[x] \in Small
    BY <1>2, <1>3, ZeroOne
<1> QED BY <1>1, <1>2, <1>4, <1>5, CallMakes

LEMMA MoveMakes ==
    ASSUME NEW name \in DrawnMove \cup {"CMI"}, NEW rA \in Small, NEW n \in Small
    PROVE  Makes(Move(name, rA, n), 3)
<1> DEFINE args == [rA |-> rA, Immediate |-> n]
<1>1. name \in Composed /\ name # "B"
    BY DEF Composed, DrawnMove
<1>2. TotalOf(name) = 27 /\ NamesOf(name) = {"rA", "Immediate"}
    <2>1. /\ TotalOf("MH") = 27 /\ TotalOf("ML") = 27 /\ TotalOf("MS") = 27 /\ TotalOf("CMI") = 27
        BY DEF TotalOf, Narrow
    <2>2. /\ NamesOf("MH") = {"rA", "Immediate"} /\ NamesOf("ML") = {"rA", "Immediate"}
          /\ NamesOf("MS") = {"rA", "Immediate"} /\ NamesOf("CMI") = {"rA", "Immediate"}
        BY DEF NamesOf, DrawnThree, DrawnWith, DrawnMove
    <2> QED BY <2>1, <2>2 DEF DrawnMove
<1>3. args["rA"] = rA /\ args["Immediate"] = n
    OBVIOUS
<1>4. Move(name, rA, n) = Call(name, args)
    BY DEF Move
<1> HIDE DEF args
<1>5. \A x \in NamesOf(name) : args[x] \in Small
    BY <1>2, <1>3
<1> QED BY <1>1, <1>2, <1>4, <1>5, CallMakes

LEMMA StoresMakes ==
    ASSUME NEW name \in {"STS", "STT"}, NEW rA \in Small, NEW rB \in Small
    PROVE  Makes(Stores(name, rA, rB), 6)
<1> DEFINE args == [rA |-> rA, rB |-> rB, RegCount |-> 0, AdjustRb |-> 0, MemOffset |-> 0]
<1>1. name \in Composed /\ name # "B"
    BY DEF Composed
<1>2. TotalOf(name) = 54 /\ NamesOf(name) = {"rA", "rB", "RegCount", "AdjustRb", "MemOffset"}
    BY DEF TotalOf, Narrow, NamesOf, DrawnThree, DrawnWith, DrawnMove
<1>3. args["rA"] = rA /\ args["rB"] = rB /\ args["RegCount"] = 0 /\ args["AdjustRb"] = 0
      /\ args["MemOffset"] = 0
    OBVIOUS
<1>4. Stores(name, rA, rB) = Call(name, args)
    BY DEF Stores
<1> HIDE DEF args
<1>5. \A x \in NamesOf(name) : args[x] \in Small
    BY <1>2, <1>3, ZeroOne
<1> QED BY <1>1, <1>2, <1>4, <1>5, CallMakes

LEMMA HaltMakes == Makes(Halt, 2)
<1>1. "HT" \in Composed /\ "HT" # "B"
    BY DEF Composed
<1>2. TotalOf("HT") = 18 /\ NamesOf("HT") = {}
    BY DEF TotalOf, Narrow, NamesOf, DrawnThree, DrawnWith, DrawnMove
<1>3. \A x \in NamesOf("HT") : <<>>[x] \in Small
    BY <1>2
<1> QED BY <1>1, <1>2, <1>3, CallMakes DEF Halt

\* A branch back to where its loop begins.
LEMMA BackMakes ==
    ASSUME NEW offset \in -100 .. 0
    PROVE  Makes(Back("N", offset), 3)
<1> DEFINE args == [Condition |-> "N", Offset |-> offset]
           layout == Branch(48)
           a == Fixed(6, 48)
           b == Condition
           c == Field("signed", "Offset", 17)
<1>1. "B" \in DOMAIN Instructions /\ "B" \notin Unnamed /\ "B" \notin NeverCode
    BY ComposedAre DEF Composed
<1>2. Instructions["B"] = layout
    <2> DEFINE rest == Over(InstructionsDE, Over(InstructionsFtoL,
                         Over(InstructionsMD, Over(InstructionsMHtoMU, Over(InstructionsNO, Over(InstructionsR,
                         Over(InstructionsSAtoSBI, Over(InstructionsSBIMtoSRIM, InstructionsSRMtoZEW))))))))
               more == Over(InstructionsBC, rest)
    <2>1. Instructions = Over(InstructionsA, more)
        BY DEF Instructions
    <2>2. "B" \notin DOMAIN InstructionsA /\ "B" \in DOMAIN InstructionsBC
        BY DEF InstructionsA, InstructionsBC
    <2>3. InstructionsBC["B"] = layout
        BY SMT DEF InstructionsBC
    <2> HIDE DEF rest, layout
    <2>4. "B" \in DOMAIN more /\ more["B"] = layout
        <3>1. /\ DOMAIN more = (DOMAIN InstructionsBC) \cup DOMAIN rest
              /\ \A x \in DOMAIN InstructionsBC : more[x] = InstructionsBC[x]
            BY Merged
        <3> HIDE DEF more
        <3> QED BY <2>2, <2>3, <3>1
    <2> HIDE DEF more
    <2>5. \A x \in (DOMAIN more) \ DOMAIN InstructionsA : Over(InstructionsA, more)[x] = more[x]
        BY Merged
    <2> QED BY <2>1, <2>2, <2>4, <2>5
<1>3. layout = <<a, b, c>>
    BY DEF Branch, Signed
<1>4. a.kind = "fixed" /\ b.kind = "condition" /\ c.kind = "signed" /\ c.name = "Offset" /\ c.width = 17
    BY DEF Fixed, Condition, Field
<1>5. args["Condition"] = "N" /\ args["Offset"] = offset
    OBVIOUS
<1>6. Back("N", offset) = Call("B", args)
    BY DEF Back
<1> HIDE DEF args, layout, a, b, c
<1>7. Takes(a, args)
    BY <1>4 DEF Takes
<1>8. Takes(b, args)
    <2>1. "N" \in DOMAIN Conditions /\ "N" # "SL"
        BY DEF Conditions
    <2> QED BY <1>4, <1>5, <2>1, OnlySLShadowed DEF Takes
<1>9. Takes(c, args)
    <2>1. -Power[17 - 1] <= offset
        <3>1. 16 \in 0 .. 30 /\ 7 \in 0 .. 30 /\ 17 - 1 = 16
            OBVIOUS
        <3>2. Power[7] = 128 /\ Power[7] <= Power[16] /\ Power[16] \in Nat
            <4>1. Power[7] = 2^7
                BY <3>1, PowerTable
            <4>2. 2^7 = 128
                BY SMT
            <4> QED BY <3>1, <4>1, <4>2, PowerTable
        <3> QED BY <3>1, <3>2
    <2>2. offset < 2^30 /\ offset \in Int
        BY SMT
    <2> QED BY <1>4, <1>5, <2>1, <2>2 DEF Takes
<1>10. \A i \in DOMAIN Instructions["B"] : Takes(Instructions["B"][i], args)
    BY <1>2, <1>3, <1>7, <1>8, <1>9
<1>11. TotalOf("B") = 27
    BY DEF TotalOf, Narrow
<1>12. Assemble("B", args).result = "code" /\ Len(Assemble("B", args).hex) = 1 + 27 \div 4
    BY <1>1, <1>10, <1>11, AssembleIs
<1>13. Call("B", args).name = "B" /\ Call("B", args).args = args
    BY DEF Call
<1> DEFINE hex == Assemble("B", args).hex
<1>14. Len(hex) = 7
    <2>1. 1 + 27 \div 4 = 7
        OBVIOUS
    <2> QED BY <1>12, <2>1
<1> HIDE DEF hex
<1>15. Sized(hex) /\ Weight(hex) = 3
    BY <1>14 DEF Sized, Weight
<1> QED BY <1>6, <1>12, <1>13, <1>15 DEF Makes, hex

-----------------------------------------------------------------------------
(* Several calls.                                                            *)

Hexes(calls) == [i \in DOMAIN calls |-> Assemble(calls[i].name, calls[i].args).hex]

\* Calls that all assemble, to that many words.
Costs(calls, n) ==
    /\ \E S : calls \in Seq(S)
    /\ \A i \in DOMAIN calls : \E w : Makes(calls[i], w)
    /\ Weighs(Hexes(calls), n)

LEMMA FunctionIsSeq ==
    ASSUME NEW S, NEW n \in Nat, NEW f, DOMAIN f = 1 .. n, f = [i \in 1 .. n |-> f[i]],
           \A i \in 1 .. n : f[i] \in S
    PROVE  f \in Seq(S) /\ Len(f) = n
<1>1. f \in [1 .. n -> S]
    OBVIOUS
<1> QED BY <1>1

LEMMA CostsNothing == Costs(<<>>, 0)
<1>1. <<>> \in Seq({}) /\ DOMAIN <<>> = {}
    BY EmptySeq
<1>2. Hexes(<<>>) = <<>>
    BY <1>1 DEF Hexes
<1> QED BY <1>1, <1>2, WeighsNothing DEF Costs

LEMMA CostsOne ==
    ASSUME NEW a,
           NEW wa \in Nat,
           Makes(a, wa)
    PROVE  Costs(<<a>>, wa)
<1> DEFINE t == <<a>>
           h == Hexes(t)
<1>1. /\ t \in Seq({a}) /\ Len(t) = 1 /\ DOMAIN t = 1 .. 1
      /\ t[1] = a
    OBVIOUS
<1> HIDE DEF t
<1>2. /\ DOMAIN h = 1 .. 1 /\ h = [i \in 1 .. 1 |-> h[i]]
      /\ \A i \in 1 .. 1 : h[i] = Assemble(t[i].name, t[i].args).hex
    BY <1>1 DEF Hexes
<1> HIDE DEF h
<1>3. /\ Sized(h[1]) /\ Weight(h[1]) = wa
    BY <1>1, <1>2 DEF Makes
<1>4. h \in Seq({h[1]}) /\ Len(h) = 1
    <2> DEFINE S == {h[1]}
    <2>1. \A i \in 1 .. 1 : i = 1
        OBVIOUS
    <2> HIDE DEF S
    <2>2. \A i \in 1 .. 1 : h[i] \in S
        BY <2>1 DEF S
    <2>3. 1 \in Nat
        OBVIOUS
    <2>4. h \in Seq(S) /\ Len(h) = 1
        BY <1>2, <2>2, <2>3, FunctionIsSeq
    <2> QED BY <2>4 DEF S
<1> DEFINE g == [i \in 0 .. 1 |-> IF i = 0 THEN 0 ELSE wa]
<1>5. /\ g[0] = 0
      /\ g[1] = wa
      /\ g \in [0 .. 1 -> Nat]
    OBVIOUS
<1> HIDE DEF g
<1>6. \A i \in 1 .. 1 : g[i] = g[i - 1] + Weight(h[i])
    <2>1. \A i \in 1 .. 1 : (i = 1 /\ i - 1 = 0)
        OBVIOUS
    <2> QED BY <1>3, <1>5, <2>1
<1>7. Places(g, h, wa)
    BY <1>4, <1>5, <1>6 DEF Places
<1>8. \A i \in 1 .. 1 : Sized(h[i])
    <2>1. \A i \in 1 .. 1 : i = 1
        OBVIOUS
    <2> QED BY <1>3, <2>1
<1>9. Weighs(h, wa)
    BY <1>4, <1>7, <1>8 DEF Weighs
<1>10. \A i \in DOMAIN t : \E w : Makes(t[i], w)
    <2>1. \A i \in 1 .. 1 : i = 1
        OBVIOUS
    <2> QED BY <1>1, <2>1
<1>11. Costs(t, wa)
    BY <1>1, <1>9, <1>10 DEF Costs, h
<1> QED BY <1>11 DEF t

LEMMA CostsTwo ==
    ASSUME NEW a, NEW b,
           NEW wa \in Nat, NEW wb \in Nat,
           Makes(a, wa), Makes(b, wb)
    PROVE  Costs(<<a, b>>, wa + wb)
<1> DEFINE t == <<a, b>>
           h == Hexes(t)
<1>1. /\ t \in Seq({a, b}) /\ Len(t) = 2 /\ DOMAIN t = 1 .. 2
      /\ t[1] = a /\ t[2] = b
    OBVIOUS
<1> HIDE DEF t
<1>2. /\ DOMAIN h = 1 .. 2 /\ h = [i \in 1 .. 2 |-> h[i]]
      /\ \A i \in 1 .. 2 : h[i] = Assemble(t[i].name, t[i].args).hex
    BY <1>1 DEF Hexes
<1> HIDE DEF h
<1>3. /\ Sized(h[1]) /\ Weight(h[1]) = wa
      /\ Sized(h[2]) /\ Weight(h[2]) = wb
    BY <1>1, <1>2 DEF Makes
<1>4. h \in Seq({h[1], h[2]}) /\ Len(h) = 2
    <2> DEFINE S == {h[1], h[2]}
    <2>1. \A i \in 1 .. 2 : i = 1 \/ i = 2
        OBVIOUS
    <2> HIDE DEF S
    <2>2. \A i \in 1 .. 2 : h[i] \in S
        BY <2>1 DEF S
    <2>3. 2 \in Nat
        OBVIOUS
    <2>4. h \in Seq(S) /\ Len(h) = 2
        BY <1>2, <2>2, <2>3, FunctionIsSeq
    <2> QED BY <2>4 DEF S
<1> DEFINE g == [i \in 0 .. 2 |-> IF i = 0 THEN 0 ELSE IF i = 1 THEN wa ELSE wa + wb]
<1>5. /\ g[0] = 0
      /\ g[1] = wa
      /\ g[2] = wa + wb
      /\ g \in [0 .. 2 -> Nat]
    OBVIOUS
<1> HIDE DEF g
<1>6. \A i \in 1 .. 2 : g[i] = g[i - 1] + Weight(h[i])
    <2>1. \A i \in 1 .. 2 : (i = 1 /\ i - 1 = 0) \/ (i = 2 /\ i - 1 = 1)
        OBVIOUS
    <2> QED BY <1>3, <1>5, <2>1
<1>7. Places(g, h, wa + wb)
    BY <1>4, <1>5, <1>6 DEF Places
<1>8. \A i \in 1 .. 2 : Sized(h[i])
    <2>1. \A i \in 1 .. 2 : i = 1 \/ i = 2
        OBVIOUS
    <2> QED BY <1>3, <2>1
<1>9. Weighs(h, wa + wb)
    BY <1>4, <1>7, <1>8 DEF Weighs
<1>10. \A i \in DOMAIN t : \E w : Makes(t[i], w)
    <2>1. \A i \in 1 .. 2 : i = 1 \/ i = 2
        OBVIOUS
    <2> QED BY <1>1, <2>1
<1>11. Costs(t, wa + wb)
    BY <1>1, <1>9, <1>10 DEF Costs, h
<1> QED BY <1>11 DEF t

LEMMA CostsFour ==
    ASSUME NEW a, NEW b, NEW c, NEW d,
           NEW wa \in Nat, NEW wb \in Nat, NEW wc \in Nat, NEW wd \in Nat,
           Makes(a, wa), Makes(b, wb), Makes(c, wc), Makes(d, wd)
    PROVE  Costs(<<a, b, c, d>>, wa + wb + wc + wd)
<1> DEFINE t == <<a, b, c, d>>
           h == Hexes(t)
<1>1. /\ t \in Seq({a, b, c, d}) /\ Len(t) = 4 /\ DOMAIN t = 1 .. 4
      /\ t[1] = a /\ t[2] = b /\ t[3] = c /\ t[4] = d
    OBVIOUS
<1> HIDE DEF t
<1>2. /\ DOMAIN h = 1 .. 4 /\ h = [i \in 1 .. 4 |-> h[i]]
      /\ \A i \in 1 .. 4 : h[i] = Assemble(t[i].name, t[i].args).hex
    BY <1>1 DEF Hexes
<1> HIDE DEF h
<1>3. /\ Sized(h[1]) /\ Weight(h[1]) = wa
      /\ Sized(h[2]) /\ Weight(h[2]) = wb
      /\ Sized(h[3]) /\ Weight(h[3]) = wc
      /\ Sized(h[4]) /\ Weight(h[4]) = wd
    BY <1>1, <1>2 DEF Makes
<1>4. h \in Seq({h[1], h[2], h[3], h[4]}) /\ Len(h) = 4
    <2> DEFINE S == {h[1], h[2], h[3], h[4]}
    <2>1. \A i \in 1 .. 4 : i = 1 \/ i = 2 \/ i = 3 \/ i = 4
        OBVIOUS
    <2> HIDE DEF S
    <2>2. \A i \in 1 .. 4 : h[i] \in S
        BY <2>1 DEF S
    <2>3. 4 \in Nat
        OBVIOUS
    <2>4. h \in Seq(S) /\ Len(h) = 4
        BY <1>2, <2>2, <2>3, FunctionIsSeq
    <2> QED BY <2>4 DEF S
<1> DEFINE g == [i \in 0 .. 4 |-> IF i = 0 THEN 0 ELSE IF i = 1 THEN wa ELSE IF i = 2 THEN wa + wb ELSE IF i = 3 THEN wa + wb + wc ELSE wa + wb + wc + wd]
<1>5. /\ g[0] = 0
      /\ g[1] = wa
      /\ g[2] = wa + wb
      /\ g[3] = wa + wb + wc
      /\ g[4] = wa + wb + wc + wd
      /\ g \in [0 .. 4 -> Nat]
    OBVIOUS
<1> HIDE DEF g
<1>6. \A i \in 1 .. 4 : g[i] = g[i - 1] + Weight(h[i])
    <2>1. \A i \in 1 .. 4 : (i = 1 /\ i - 1 = 0) \/ (i = 2 /\ i - 1 = 1) \/ (i = 3 /\ i - 1 = 2) \/ (i = 4 /\ i - 1 = 3)
        OBVIOUS
    <2> QED BY <1>3, <1>5, <2>1
<1>7. Places(g, h, wa + wb + wc + wd)
    BY <1>4, <1>5, <1>6 DEF Places
<1>8. \A i \in 1 .. 4 : Sized(h[i])
    <2>1. \A i \in 1 .. 4 : i = 1 \/ i = 2 \/ i = 3 \/ i = 4
        OBVIOUS
    <2> QED BY <1>3, <2>1
<1>9. Weighs(h, wa + wb + wc + wd)
    BY <1>4, <1>7, <1>8 DEF Weighs
<1>10. \A i \in DOMAIN t : \E w : Makes(t[i], w)
    <2>1. \A i \in 1 .. 4 : i = 1 \/ i = 2 \/ i = 3 \/ i = 4
        OBVIOUS
    <2> QED BY <1>1, <2>1
<1>11. Costs(t, wa + wb + wc + wd)
    BY <1>1, <1>9, <1>10 DEF Costs, h
<1> QED BY <1>11 DEF t

LEMMA CostsSix ==
    ASSUME NEW a, NEW b, NEW c, NEW d, NEW e, NEW f,
           NEW wa \in Nat, NEW wb \in Nat, NEW wc \in Nat, NEW wd \in Nat, NEW we \in Nat, NEW wf \in Nat,
           Makes(a, wa), Makes(b, wb), Makes(c, wc), Makes(d, wd), Makes(e, we), Makes(f, wf)
    PROVE  Costs(<<a, b, c, d, e, f>>, wa + wb + wc + wd + we + wf)
<1> DEFINE t == <<a, b, c, d, e, f>>
           h == Hexes(t)
<1>1. /\ t \in Seq({a, b, c, d, e, f}) /\ Len(t) = 6 /\ DOMAIN t = 1 .. 6
      /\ t[1] = a /\ t[2] = b /\ t[3] = c /\ t[4] = d /\ t[5] = e /\ t[6] = f
    OBVIOUS
<1> HIDE DEF t
<1>2. /\ DOMAIN h = 1 .. 6 /\ h = [i \in 1 .. 6 |-> h[i]]
      /\ \A i \in 1 .. 6 : h[i] = Assemble(t[i].name, t[i].args).hex
    BY <1>1 DEF Hexes
<1> HIDE DEF h
<1>3. /\ Sized(h[1]) /\ Weight(h[1]) = wa
      /\ Sized(h[2]) /\ Weight(h[2]) = wb
      /\ Sized(h[3]) /\ Weight(h[3]) = wc
      /\ Sized(h[4]) /\ Weight(h[4]) = wd
      /\ Sized(h[5]) /\ Weight(h[5]) = we
      /\ Sized(h[6]) /\ Weight(h[6]) = wf
    BY <1>1, <1>2 DEF Makes
<1>4. h \in Seq({h[1], h[2], h[3], h[4], h[5], h[6]}) /\ Len(h) = 6
    <2> DEFINE S == {h[1], h[2], h[3], h[4], h[5], h[6]}
    <2>1. \A i \in 1 .. 6 : i = 1 \/ i = 2 \/ i = 3 \/ i = 4 \/ i = 5 \/ i = 6
        OBVIOUS
    <2> HIDE DEF S
    <2>2. \A i \in 1 .. 6 : h[i] \in S
        BY <2>1 DEF S
    <2>3. 6 \in Nat
        OBVIOUS
    <2>4. h \in Seq(S) /\ Len(h) = 6
        BY <1>2, <2>2, <2>3, FunctionIsSeq
    <2> QED BY <2>4 DEF S
<1> DEFINE g == [i \in 0 .. 6 |-> IF i = 0 THEN 0 ELSE IF i = 1 THEN wa ELSE IF i = 2 THEN wa + wb ELSE IF i = 3 THEN wa + wb + wc ELSE IF i = 4 THEN wa + wb + wc + wd ELSE IF i = 5 THEN wa + wb + wc + wd + we ELSE wa + wb + wc + wd + we + wf]
<1>5. /\ g[0] = 0
      /\ g[1] = wa
      /\ g[2] = wa + wb
      /\ g[3] = wa + wb + wc
      /\ g[4] = wa + wb + wc + wd
      /\ g[5] = wa + wb + wc + wd + we
      /\ g[6] = wa + wb + wc + wd + we + wf
      /\ g \in [0 .. 6 -> Nat]
    OBVIOUS
<1> HIDE DEF g
<1>6. \A i \in 1 .. 6 : g[i] = g[i - 1] + Weight(h[i])
    <2>1. \A i \in 1 .. 6 : (i = 1 /\ i - 1 = 0) \/ (i = 2 /\ i - 1 = 1) \/ (i = 3 /\ i - 1 = 2) \/ (i = 4 /\ i - 1 = 3) \/ (i = 5 /\ i - 1 = 4) \/ (i = 6 /\ i - 1 = 5)
        OBVIOUS
    <2> QED BY <1>3, <1>5, <2>1
<1>7. Places(g, h, wa + wb + wc + wd + we + wf)
    BY <1>4, <1>5, <1>6 DEF Places
<1>8. \A i \in 1 .. 6 : Sized(h[i])
    <2>1. \A i \in 1 .. 6 : i = 1 \/ i = 2 \/ i = 3 \/ i = 4 \/ i = 5 \/ i = 6
        OBVIOUS
    <2> QED BY <1>3, <2>1
<1>9. Weighs(h, wa + wb + wc + wd + we + wf)
    BY <1>4, <1>7, <1>8 DEF Weighs
<1>10. \A i \in DOMAIN t : \E w : Makes(t[i], w)
    <2>1. \A i \in 1 .. 6 : i = 1 \/ i = 2 \/ i = 3 \/ i = 4 \/ i = 5 \/ i = 6
        OBVIOUS
    <2> QED BY <1>1, <2>1
<1>11. Costs(t, wa + wb + wc + wd + we + wf)
    BY <1>1, <1>9, <1>10 DEF Costs, h
<1> QED BY <1>11 DEF t

LEMMA CostsMore ==
    ASSUME NEW c, NEW d, NEW m \in Nat, NEW n \in Nat, Costs(c, m), Costs(d, n)
    PROVE  Costs(c \o d, m + n)
<1> DEFINE v == c \o d
           k == Len(c)
           l == Len(d)
<1>1. PICK S : c \in Seq(S)
    BY DEF Costs
<1>2. PICK R : d \in Seq(R)
    BY DEF Costs
<1>3. c \in Seq(S \cup R) /\ d \in Seq(S \cup R)
    BY <1>1, <1>2
<1>4. /\ v \in Seq(S \cup R) /\ Len(v) = k + l
      /\ \A i \in 1 .. k + l : v[i] = IF i <= k THEN c[i] ELSE d[i - k]
    BY <1>3, ConcatProperties
<1>5. k \in Nat /\ l \in Nat /\ DOMAIN c = 1 .. k /\ DOMAIN d = 1 .. l
    BY <1>3, LenProperties
<1>6. DOMAIN v = 1 .. k + l
    BY <1>4, LenProperties
<1>7. ASSUME NEW i \in 1 .. k + l
      PROVE  (i \in 1 .. k /\ v[i] = c[i]) \/ (i - k \in 1 .. l /\ ~(i <= k) /\ v[i] = d[i - k])
    BY <1>4, <1>5
<1> HIDE DEF v, k, l
<1>8. \A i \in DOMAIN v : \E w : Makes(v[i], w)
    BY <1>5, <1>6, <1>7 DEF Costs
<1> DEFINE a == Hexes(c)
           b == Hexes(d)
           h == Hexes(v)
           T == {h[i] : i \in 1 .. k + l}
<1>9. /\ a = [i \in 1 .. k |-> Assemble(c[i].name, c[i].args).hex]
      /\ b = [i \in 1 .. l |-> Assemble(d[i].name, d[i].args).hex]
      /\ h = [i \in 1 .. k + l |-> Assemble(v[i].name, v[i].args).hex]
    BY <1>5, <1>6 DEF Hexes
<1>10. ASSUME NEW i \in 1 .. k + l
       PROVE  /\ i \in 1 .. k => h[i] = a[i]
              /\ i \notin 1 .. k => i - k \in 1 .. l /\ h[i] = b[i - k]
    <2>1. CASE i \in 1 .. k
        <3>1. v[i] = c[i]
            BY <1>5, <1>7, <2>1
        <3> QED BY <1>9, <2>1, <3>1
    <2>2. CASE i \notin 1 .. k
        <3>1. i - k \in 1 .. l /\ v[i] = d[i - k]
            BY <1>7, <2>2
        <3> QED BY <1>9, <2>2, <3>1
    <2> QED BY <2>1, <2>2
<1>11. DOMAIN h = 1 .. k + l /\ DOMAIN a = 1 .. k /\ DOMAIN b = 1 .. l
       /\ h = [i \in 1 .. k + l |-> h[i]] /\ a = [i \in 1 .. k |-> a[i]] /\ b = [i \in 1 .. l |-> b[i]]
    BY <1>9
<1> HIDE DEF a, b, h
<1>12. a \o b = h
    <2>1. ASSUME NEW i \in 1 .. k PROVE a[i] \in T
        <3>1. i \in 1 .. k + l
            BY <1>5
        <3>2. h[i] = a[i]
            BY <1>10, <3>1
        <3> QED BY <3>1, <3>2
    <2>2. ASSUME NEW i \in 1 .. l PROVE b[i] \in T
        <3> DEFINE j == k + i
        <3>1. j \in 1 .. k + l /\ j \notin 1 .. k /\ j - k = i
            BY <1>5
        <3>2. h[j] = b[i]
            <4> HIDE DEF j
            <4> QED BY <1>10, <3>1
        <3> QED BY <3>1, <3>2
    <2>3. \A i \in 1 .. k + l : h[i] \in T
        OBVIOUS
    <2> HIDE DEF T
    <2>4. a \in Seq(T) /\ Len(a) = k
        BY <1>5, <1>11, <2>1, FunctionIsSeq
    <2>5. b \in Seq(T) /\ Len(b) = l
        BY <1>5, <1>11, <2>2, FunctionIsSeq
    <2>6. k + l \in Nat
        BY <1>5
    <2>7. h \in Seq(T) /\ Len(h) = k + l
        BY <1>11, <2>3, <2>6, FunctionIsSeq
    <2>8. /\ a \o b \in Seq(T) /\ Len(a \o b) = k + l
          /\ \A i \in 1 .. k + l : (a \o b)[i] = IF i <= k THEN a[i] ELSE b[i - k]
        BY <2>4, <2>5, ConcatProperties
    <2>9. \A i \in 1 .. k + l : (a \o b)[i] = h[i]
        <3>1. \A i \in 1 .. k + l : i <= k <=> i \in 1 .. k
            BY <1>5
        <3> QED BY <1>10, <2>8, <3>1
    <2> QED BY <2>7, <2>8, <2>9, SeqEqual
<1>13. Weighs(a \o b, m + n)
    BY WeighsMore DEF Costs, a, b
<1>14. Costs(v, m + n)
    BY <1>4, <1>8, <1>12, <1>13 DEF Costs, h
<1> QED BY <1>14 DEF v

\* What is composed of such calls gets that much longer, and the check does not end.
LEMMA AddsIs ==
    ASSUME NEW calls, NEW m \in Nat, NEW n \in Nat, Weighs(code, m), Costs(calls, n), Adds(calls)
    PROVE  /\ exit' = exit /\ Weighs(code', m + n)
           /\ at' = at + 1
           /\ UNCHANGED <<test, job, phase>>
<1> DEFINE I == [i \in DOMAIN calls |-> Assemble(calls[i].name, calls[i].args)]
<1>1. /\ IF \E i \in DOMAIN I : I[i].result = "raises"
         THEN exit' = 1 /\ UNCHANGED code
         ELSE exit' = exit /\ code' = code \o [i \in DOMAIN I |-> I[i].hex]
      /\ at' = at + 1
      /\ UNCHANGED <<test, job, phase>>
    BY DEF Adds
<1>2. ASSUME NEW i \in DOMAIN I PROVE I[i].result # "raises"
    BY DEF Costs, Makes
<1>3. [i \in DOMAIN I |-> I[i].hex] = Hexes(calls)
    BY DEF Hexes
<1> HIDE DEF I
<1>4. exit' = exit /\ code' = code \o Hexes(calls)
    BY <1>1, <1>2, <1>3
<1>5. Weighs(code \o Hexes(calls), m + n)
    BY WeighsMore DEF Costs
<1> QED BY <1>1, <1>4, <1>5

-----------------------------------------------------------------------------
(* Every program fits its page.                                              *)

\* What the two tests draw.
Drawn ==
    /\ test \in {"echo", "math"}
    /\ test = "echo" => job \in Echoes
    /\ test = "math" => job \in Sums

\* What the operands can come to.
Outputs == {n \in Nat : n <= 16129}

LEMMA ProductBound ==
    ASSUME NEW x \in 1 .. 127, NEW y \in 1 .. 127
    PROVE  x * y \in Outputs
<1>1. x * y \in Nat /\ x * y <= 127 * y
    BY SMT
<1>2. 127 * y <= 16129
    BY SMT
<1> QED BY <1>1, <1>2, SMT DEF Outputs

LEMMA QuotientBound ==
    ASSUME NEW x \in 1 .. 127, NEW y \in 1 .. 127
    PROVE  x \div y \in 0 .. 127
<1> DEFINE q == x \div y
<1>1. q \in Int /\ x = y * q + (x % y) /\ x % y \in 0 .. y - 1
    BY SMT
<1> HIDE DEF q
<1>2. x % y \in Int
    BY <1>1
<1>3. q >= 0
    BY <1>1, <1>2, SMT
<1>4. q <= 127
    BY <1>1, <1>2, SMT
<1> QED BY <1>1, <1>3, <1>4 DEF q

\* What they come to, in decimal, is a few characters.
LEMMA DigitsOfOutput ==
    ASSUME NEW n \in Outputs
    PROVE  Len(Reversed(n)) \in 1 .. 9
<1> DEFINE Is(k) == n < 10^k /\ (k = 1 \/ n >= 10^(k - 1))
           length == CHOOSE k \in 1 .. 9 : Is(k)
           digits == [i \in 1 .. length |-> 48 + ((n \div 10^(i - 1)) % 10)]
<1>1. /\ 10^1 = 10 /\ 10^2 = 100 /\ 10^3 = 1000 /\ 10^4 = 10000 /\ 10^5 = 100000
      /\ 2 - 1 = 1 /\ 3 - 1 = 2 /\ 4 - 1 = 3 /\ 5 - 1 = 4
    BY SMT
<1>2. \/ n < 10 \/ (n >= 10 /\ n < 100) \/ (n >= 100 /\ n < 1000)
      \/ (n >= 1000 /\ n < 10000) \/ (n >= 10000 /\ n < 100000)
    BY SMT DEF Outputs
<1>3. (n < 10 => Is(1)) /\ (n >= 10 /\ n < 100 => Is(2)) /\ (n >= 100 /\ n < 1000 => Is(3))
    BY <1>1, SMT
<1>4. (n >= 1000 /\ n < 10000 => Is(4)) /\ (n >= 10000 /\ n < 100000 => Is(5))
    BY <1>1, SMT
<1> HIDE DEF Is
<1>5. \E k \in 1 .. 9 : Is(k)
    <2>1. 1 \in 1 .. 9 /\ 2 \in 1 .. 9 /\ 3 \in 1 .. 9 /\ 4 \in 1 .. 9 /\ 5 \in 1 .. 9
        OBVIOUS
    <2> QED BY <1>2, <1>3, <1>4, <2>1, SMT
<1>6. length \in 1 .. 9
    BY <1>5
<1>7. Reversed(n) = digits
    BY DEF Reversed, Is
<1> HIDE DEF length
<1> DEFINE S == {48 + ((n \div 10^(i - 1)) % 10) : i \in 1 .. length}
<1>8. DOMAIN digits = 1 .. length /\ digits = [i \in 1 .. length |-> digits[i]]
      /\ (\A i \in 1 .. length : digits[i] \in S) /\ length \in Nat
    BY <1>6
<1> HIDE DEF digits, S
<1>9. Len(digits) = length
    BY <1>8, FunctionIsSeq
<1> QED BY <1>6, <1>7, <1>9

LEMMA Between ==
    /\ \A n \in 0 .. 127 : n \in Small
    /\ 81984 \in Small /\ 81992 \in Small
BY SMT DEF Small

\* The numbers that are written into the program.
LEMMA NumbersSmall ==
    ASSUME Drawn
    PROVE  /\ NumChars \in Small
           /\ test = "echo" => job[2] \in Small
           /\ test = "math" => Input1 \in Small /\ Input2 \in Small
                                 /\ job[1] \in {"+", "-", "*", "/"}
<1>1. CASE test = "echo"
    <2> DEFINE n == job[1]
               c == job[2]
               expected == [i \in 1 .. n |-> c]
    <2>1. n \in 1 .. 20 /\ c \in 33 .. 126
        BY <1>1, JobsAssumption DEF Drawn
    <2>2. ExpectedResponse = expected
        BY <1>1 DEF ExpectedResponse
    <2> HIDE DEF n, c
    <2>3. DOMAIN expected = 1 .. n /\ expected = [i \in 1 .. n |-> expected[i]]
          /\ (\A i \in 1 .. n : expected[i] \in {c}) /\ n \in Nat
        BY <2>1
    <2> HIDE DEF expected
    <2>4. Len(expected) = n
        BY <2>3, FunctionIsSeq
    <2>5. n \in 0 .. 127 /\ c \in 0 .. 127
        BY <2>1
    <2>6. NumChars = n
        BY <2>2, <2>4 DEF NumChars
    <2>7. NumChars \in Small /\ c \in Small
        BY <2>5, <2>6, Between
    <2>8. job[2] \in Small
        BY <2>7 DEF c
    <2> QED BY <1>1, <2>7, <2>8
<1>2. CASE test = "math"
    <2> DEFINE x == job[2]
               y == job[3]
    <2>1. job[1] \in {"+", "-", "*", "/"} /\ x \in 1 .. 127 /\ y \in 1 .. 127
        BY <1>2, JobsAssumption DEF Drawn
    <2>2. Output = CASE job[1] = "+" -> x + y
                     [] job[1] = "-" -> IF x < y THEN y - x ELSE x - y
                     [] job[1] = "*" -> x * y
                     [] job[1] = "/" -> x \div y
        BY DEF Output
    <2>3. Input1 \in {x, y} /\ Input2 \in {x, y}
        BY DEF Input1, Input2
    <2> HIDE DEF x, y
    <2> DEFINE sum == x + y
               difference == IF x < y THEN y - x ELSE x - y
               product == x * y
               quotient == x \div y
    <2>4. sum \in Outputs /\ difference \in Outputs /\ product \in Outputs /\ quotient \in Outputs
        <3>1. sum \in Outputs
            BY <2>1, SMT DEF Outputs
        <3>2. difference \in Outputs
            BY <2>1, SMT DEF Outputs
        <3>3. product \in Outputs
            BY <2>1, ProductBound
        <3>4. quotient \in Outputs
            BY <2>1, QuotientBound, SMT DEF Outputs
        <3> HIDE DEF sum, difference, product, quotient
        <3> QED BY <3>1, <3>2, <3>3, <3>4
    <2>5. Output \in Outputs
        <3>1. Output = CASE job[1] = "+" -> sum [] job[1] = "-" -> difference
                         [] job[1] = "*" -> product [] job[1] = "/" -> quotient
            BY <2>2
        <3> HIDE DEF sum, difference, product, quotient
        <3> QED BY <2>1, <2>4, <3>1
    <2>6. NumChars \in 1 .. 9
        <3>1. ExpectedResponse = Reversed(Output)
            BY <1>2 DEF ExpectedResponse
        <3>2. NumChars = Len(Reversed(Output))
            BY <3>1 DEF NumChars
        <3> QED BY <2>5, <3>2, DigitsOfOutput
    <2>7. NumChars \in 0 .. 127 /\ x \in 0 .. 127 /\ y \in 0 .. 127
        BY <2>1, <2>6
    <2> QED BY <1>2, <2>1, <2>3, <2>7, Between
<1> QED BY <1>1, <1>2 DEF Drawn

\* What each part of a program costs.
LEMMA SetCountCosts == Costs(SetCount, 6)
<1>1. 2 \in Small /\ 0 \in Small /\ OutputCountAddr \in Small
    BY Between DEF OutputCountAddr
<1>2. Makes(Move("ML", 2, 0), 3) /\ Makes(Move("MH", 2, OutputCountAddr), 3)
    BY <1>1, MoveMakes DEF DrawnMove
<1>3. Costs(SetCount, 3 + 3)
    BY <1>2, CostsTwo DEF SetCount
<1> QED BY <1>3

LEMMA SetUpCosts ==
    ASSUME Drawn PROVE \A order \in SetUps : Costs(order, 12)
<1> DEFINE lower == Move("ML", 1, 0)
           upper == Move("MH", 1, OutputBufAddr)
           length == Move("ML", 3, NumChars)
           char == Move("ML", 8, job[2])
           input == Move("ML", 7, Input1)
<1>1. 0 \in Small /\ 1 \in Small /\ 3 \in Small /\ 7 \in Small /\ 8 \in Small /\ OutputBufAddr \in Small
    BY Between DEF OutputBufAddr
<1>2. "ML" \in DrawnMove \cup {"CMI"} /\ "MH" \in DrawnMove \cup {"CMI"}
    BY DEF DrawnMove
<1>3. Makes(lower, 3) /\ Makes(upper, 3) /\ Makes(length, 3)
    BY <1>1, <1>2, MoveMakes, NumbersSmall
<1>4. CASE test = "echo"
    <2>1. Makes(char, 3)
        BY <1>1, <1>2, <1>4, MoveMakes, NumbersSmall
    <2>2. SetUps = {<<lower, upper, char, length>>, <<char, lower, upper, length>>,
                    <<lower, char, length, upper>>, <<length, lower, char, upper>>}
        BY <1>4 DEF SetUps
    <2> HIDE DEF lower, upper, length, char
    <2>3. /\ Costs(<<lower, upper, char, length>>, 3 + 3 + 3 + 3)
          /\ Costs(<<char, lower, upper, length>>, 3 + 3 + 3 + 3)
          /\ Costs(<<lower, char, length, upper>>, 3 + 3 + 3 + 3)
          /\ Costs(<<length, lower, char, upper>>, 3 + 3 + 3 + 3)
        <3>1. 3 \in Nat
            OBVIOUS
        <3> QED BY <1>3, <2>1, <3>1, CostsFour
    <2>4. 3 + 3 + 3 + 3 = 12
        OBVIOUS
    <2> QED BY <2>2, <2>3, <2>4
<1>5. CASE test = "math"
    <2>1. Makes(input, 3)
        BY <1>1, <1>2, <1>5, MoveMakes, NumbersSmall
    <2>2. SetUps = {<<lower, upper, length, input>>}
        BY <1>5 DEF SetUps
    <2> HIDE DEF lower, upper, length, input
    <2>3. Costs(<<lower, upper, length, input>>, 3 + 3 + 3 + 3)
        <3>1. 3 \in Nat
            OBVIOUS
        <3> QED BY <1>3, <2>1, <3>1, CostsFour
    <2>4. 3 + 3 + 3 + 3 = 12
        OBVIOUS
    <2> QED BY <2>2, <2>3, <2>4
<1> QED BY <1>4, <1>5 DEF Drawn

LEMMA OperationCosts ==
    ASSUME Drawn, test = "math" PROVE Costs(Operation, 3)
<1> DEFINE name == CASE job[1] = "+" -> "ADI" [] job[1] = "-" -> "SBI"
                     [] job[1] = "*" -> "MUI" [] job[1] = "/" -> "DVI"
<1>1. job[1] \in {"+", "-", "*", "/"} /\ Input2 \in Small /\ 7 \in Small /\ 8 \in Small
    BY NumbersSmall, Between
<1>2. name \in DrawnWith \cup {"DVI", "MDI"}
    <2>1. name \in {"ADI", "SBI", "MUI", "DVI"}
        BY <1>1
    <2> HIDE DEF name
    <2> QED BY <2>1 DEF DrawnWith
<1>3. Operation = <<With(name, 8, 7, Input2)>>
    BY DEF Operation
<1> HIDE DEF name
<1>4. Makes(With(name, 8, 7, Input2), 3)
    BY <1>1, <1>2, WithMakes
<1> QED BY <1>3, <1>4, CostsOne

LEMMA LoopNumbers ==
    /\ 1 \in Small /\ 2 \in Small /\ 3 \in Small /\ 8 \in Small /\ 9 \in Small /\ 10 \in Small
    /\ 48 \in Small
    /\ {"ADI", "SBI", "MDI", "DVI"} \subseteq DrawnWith \cup {"DVI", "MDI"}
    /\ {"ML", "MH"} \subseteq DrawnMove \cup {"CMI"}
BY Between DEF DrawnWith, DrawnMove

LEMMA EchoLoopCosts == Costs(EchoLoop, 15)
<1> DEFINE a == Stores("STS", 8, 1)
           b == With("ADI", 1, 1, 1)
           c == With("SBI", 3, 3, 1)
           d == Back("N", -12)
<1>1. Makes(a, 6)
    BY LoopNumbers, StoresMakes
<1>2. Makes(b, 3) /\ Makes(c, 3)
    BY LoopNumbers, WithMakes
<1>3. Makes(d, 3)
    <2>1. -12 \in -100 .. 0
        OBVIOUS
    <2> QED BY <2>1, BackMakes
<1>4. EchoLoop = <<a, b, c, d>>
    BY DEF EchoLoop
<1> HIDE DEF a, b, c, d
<1>5. 3 \in Nat /\ 6 \in Nat /\ 6 + 3 + 3 + 3 = 15
    OBVIOUS
<1>6. Costs(<<a, b, c, d>>, 6 + 3 + 3 + 3)
    BY <1>1, <1>2, <1>3, <1>5, CostsFour
<1> QED BY <1>4, <1>5, <1>6

LEMMA MathLoopCosts == Costs(MathLoop, 21)
<1> DEFINE a == With("MDI", 9, 8, 10)
           b == With("ADI", 9, 9, 48)
           c == Stores("STS", 9, 1)
           d == With("ADI", 1, 1, 1)
           e == With("DVI", 8, 8, 10)
           f == Back("N", -18)
<1>1. Makes(c, 6)
    BY LoopNumbers, StoresMakes
<1>2. Makes(a, 3) /\ Makes(b, 3) /\ Makes(d, 3) /\ Makes(e, 3)
    BY LoopNumbers, WithMakes
<1>3. Makes(f, 3)
    <2>1. -18 \in -100 .. 0
        OBVIOUS
    <2> QED BY <2>1, BackMakes
<1>4. MathLoop = <<a, b, c, d, e, f>>
    BY DEF MathLoop
<1> HIDE DEF a, b, c, d, e, f
<1>5. 3 \in Nat /\ 6 \in Nat /\ 3 + 3 + 6 + 3 + 3 + 3 = 21
    OBVIOUS
<1>6. Costs(<<a, b, c, d, e, f>>, 3 + 3 + 6 + 3 + 3 + 3)
    BY <1>1, <1>2, <1>3, <1>5, CostsSix
<1> QED BY <1>4, <1>5, <1>6

LEMMA FinishCosts ==
    ASSUME Drawn PROVE Costs(Finish, IF countSet THEN 9 ELSE 15)
<1> DEFINE last == <<Move("ML", 3, NumChars), Stores("STT", 3, 2)>>
<1>1. Makes(Move("ML", 3, NumChars), 3) /\ Makes(Stores("STT", 3, 2), 6)
    BY LoopNumbers, MoveMakes, StoresMakes, NumbersSmall
<1>2. 3 \in Nat /\ 6 \in Nat /\ 0 \in Nat /\ 9 \in Nat /\ 3 + 6 = 9 /\ 6 + 9 = 15 /\ 0 + 9 = 9
    OBVIOUS
<1>3. Costs(last, 3 + 6)
    BY <1>1, <1>2, CostsTwo
<1>4. Finish = (IF countSet THEN <<>> ELSE SetCount) \o last
    BY DEF Finish
<1> HIDE DEF last
<1>5. Costs(<<>> \o last, 0 + 9)
    BY <1>2, <1>3, CostsNothing, CostsMore
<1>6. Costs(SetCount \o last, 6 + 9)
    BY <1>2, <1>3, SetCountCosts, CostsMore
<1> QED BY <1>2, <1>4, <1>5, <1>6

LEMMA RandomCosts ==
    ASSUME NEW draw \in Draws
    PROVE  \E w \in 0 .. 3 : Costs(<<RandomInstruction(draw)>>, w)
<1> DEFINE c == RandomInstruction(draw)
<1>1. /\ draw.name \in DrawnThree \cup DrawnWith \cup DrawnTwo \cup {"CMI"} \cup DrawnMove
      /\ draw.rA \in AvailableRegisters /\ draw.rB \in AvailableRegisters /\ draw.rC \in AvailableRegisters
      /\ draw.Immediate \in 0 .. 127 /\ draw.Immediate17 \in 0 .. 2^17 - 1
    BY DrawsAssumption, Zenon
<1>2. draw.rA \in Small /\ draw.rB \in Small /\ draw.rC \in Small /\ draw.Immediate \in Small
    <2>1. \A r \in AvailableRegisters : r \in 0 .. 127
        BY DEF AvailableRegisters
    <2> QED BY <1>1, <2>1, Between
<1>3. draw.Immediate17 \in Small
    BY <1>1, SmallNumbers
<1> DEFINE name == draw.name
           three == Three(draw.name, draw.rA, draw.rB, draw.rC)
           with == With(draw.name, draw.rA, draw.rB, draw.Immediate)
           two == Two(draw.name, draw.rA, draw.rB)
           compared == Move(draw.name, draw.rA, draw.Immediate)
           moved == Move(draw.name, draw.rA, draw.Immediate17)
<1>4. c = CASE name \in DrawnThree -> three [] name \in DrawnWith -> with
            [] name \in DrawnTwo -> two [] name = "CMI" -> compared [] name \in DrawnMove -> moved
    BY DEF RandomInstruction
<1>5. /\ name \in DrawnThree => Makes(three, 3)
      /\ name \in DrawnWith => Makes(with, 3)
      /\ name \in DrawnTwo => Makes(two, 2) \/ Makes(two, 3)
      /\ name = "CMI" => Makes(compared, 3)
      /\ name \in DrawnMove => Makes(moved, 3)
    <2>1. name \in DrawnThree => Makes(three, 3)
        BY <1>2, ThreeMakes
    <2>2. name \in DrawnWith => Makes(with, 3)
        BY <1>2, WithMakes
    <2>3. name \in DrawnTwo => Makes(two, 2) \/ Makes(two, 3)
        BY <1>2, TwoMakes
    <2>4. name = "CMI" => Makes(compared, 3)
        BY <1>2, MoveMakes
    <2>5. name \in DrawnMove => Makes(moved, 3)
        BY <1>2, <1>3, MoveMakes
    <2> QED BY <2>1, <2>2, <2>3, <2>4, <2>5
<1>6. /\ DrawnWith \cap DrawnThree = {} /\ DrawnTwo \cap (DrawnThree \cup DrawnWith) = {}
      /\ DrawnMove \cap (DrawnThree \cup DrawnWith \cup DrawnTwo) = {}
      /\ "CMI" \notin DrawnThree \cup DrawnWith \cup DrawnTwo \cup DrawnMove
    BY DEF DrawnWith, DrawnThree, DrawnTwo, DrawnMove
<1>7. Makes(c, 2) \/ Makes(c, 3)
    <2> HIDE DEF c, three, with, two, compared, moved
    <2>1. CASE name \in DrawnThree
        <3>1. name \notin DrawnWith /\ name \notin DrawnTwo /\ name # "CMI" /\ name \notin DrawnMove
            BY <1>6, <2>1
        <3>2. c = three
            BY <1>4, <2>1, <3>1
        <3> QED BY <1>5, <2>1, <3>2
    <2>2. CASE name \in DrawnWith
        <3>1. name \notin DrawnThree /\ name \notin DrawnTwo /\ name # "CMI" /\ name \notin DrawnMove
            BY <1>6, <2>2
        <3>2. c = with
            BY <1>4, <2>2, <3>1
        <3> QED BY <1>5, <2>2, <3>2
    <2>3. CASE name \in DrawnTwo
        <3>1. name \notin DrawnThree /\ name \notin DrawnWith /\ name # "CMI" /\ name \notin DrawnMove
            BY <1>6, <2>3
        <3>2. c = two
            BY <1>4, <2>3, <3>1
        <3> QED BY <1>5, <2>3, <3>2
    <2>4. CASE name = "CMI"
        <3>1. name \notin DrawnThree /\ name \notin DrawnWith /\ name \notin DrawnTwo /\ name \notin DrawnMove
            BY <1>6, <2>4
        <3>2. c = compared
            BY <1>4, <2>4, <3>1
        <3> QED BY <1>5, <2>4, <3>2
    <2>5. CASE name \in DrawnMove
        <3>1. name \notin DrawnThree /\ name \notin DrawnWith /\ name \notin DrawnTwo /\ name # "CMI"
            BY <1>6, <2>5
        <3>2. c = moved
            BY <1>4, <2>5, <3>1
        <3> QED BY <1>5, <2>5, <3>2
    <2> QED BY <1>1, <2>1, <2>2, <2>3, <2>4, <2>5
<1>8. 2 \in Nat /\ 3 \in Nat /\ 2 \in 0 .. 3 /\ 3 \in 0 .. 3
    OBVIOUS
<1> HIDE DEF c
<1>9. Costs(<<c>>, 2) \/ Costs(<<c>>, 3)
    BY <1>7, <1>8, CostsOne
<1> QED BY <1>8, <1>9 DEF c


-----------------------------------------------------------------------------
(* The words that are still to come: what the parts behind the present one   *)
(* cost (Left), the count register while it is not set (CountLeft), and      *)
(* three for each random instruction still available.  With the words that   *)
(* are there they never come to more than 53 of the 54 of a page.            *)
FinishAt == IF test = "echo" THEN 10 ELSE 11
CountLeft == IF ~ countSet /\ at <= FinishAt THEN 6 ELSE 0
LeftOfEcho == IF at <= 4 THEN 38 ELSE IF at <= 8 THEN 26 ELSE IF at <= 10 THEN 11 ELSE 2
LeftOfMath ==
    IF at <= 4 THEN 47 ELSE IF at <= 8 THEN 35 ELSE IF at <= 9 THEN 32 ELSE IF at <= 11 THEN 11 ELSE 2
Left == IF test = "echo" THEN LeftOfEcho ELSE LeftOfMath
Budget == 3 * available + CountLeft + Left

\* While a program is composed the check has not ended.
Composing ==
    /\ exit = Running
    /\ at \in 1 .. (IF test = "echo" THEN 12 ELSE 13)
    /\ countSet \in BOOLEAN
    /\ available \in 0 .. 3
    /\ test = "math" => available = 0
    /\ \E n \in Nat : Weighs(code, n) /\ n + Budget <= 53
FitInv == Drawn /\ (phase = "compose" => Composing)

\* Where the parts are.
LEMMA EchoPlan ==
    ASSUME test = "echo", at \in 1 .. 12
    PROVE  /\ Plan[at] = "count" => at \in {2, 6}
           /\ Plan[at] = "set up" => at = 4
           /\ Plan[at] = "echo loop" => at = 8
           /\ Plan[at] = "finish" => at = 10
           /\ Plan[at] = "random" => at \in {1, 3, 5, 7, 9, 11}
           /\ Plan[at] = "halt" => at = 12
           /\ Plan[at] \notin {"operation", "math loop"}
<1> DEFINE p == <<"random", "count", "random", "set up", "random", "count", "random", "echo loop",
                  "random", "finish", "random", "halt">>
<1>1. Plan = p
    BY DEF Plan
<1>2. /\ p[1] = "random" /\ p[2] = "count" /\ p[3] = "random" /\ p[4] = "set up"
      /\ p[5] = "random" /\ p[6] = "count" /\ p[7] = "random" /\ p[8] = "echo loop"
      /\ p[9] = "random" /\ p[10] = "finish" /\ p[11] = "random" /\ p[12] = "halt"
    OBVIOUS
<1> HIDE DEF p
<1>3. at \in {1, 2, 3, 4, 5, 6, 7, 8, 9, 10, 11, 12}
    OBVIOUS
<1> QED BY <1>1, <1>2, <1>3

LEMMA MathPlan ==
    ASSUME test = "math", at \in 1 .. 13
    PROVE  /\ Plan[at] = "count" => at \in {2, 6}
           /\ Plan[at] = "set up" => at = 4
           /\ Plan[at] = "operation" => at = 8
           /\ Plan[at] = "math loop" => at = 9
           /\ Plan[at] = "finish" => at = 11
           /\ Plan[at] = "random" => at \in {1, 3, 5, 7, 10, 12}
           /\ Plan[at] = "halt" => at = 13
           /\ Plan[at] # "echo loop"
<1> DEFINE p == <<"random", "count", "random", "set up", "random", "count", "random", "operation",
                  "math loop", "random", "finish", "random", "halt">>
<1>1. Plan = p
    BY DEF Plan
<1>2. /\ p[1] = "random" /\ p[2] = "count" /\ p[3] = "random" /\ p[4] = "set up"
      /\ p[5] = "random" /\ p[6] = "count" /\ p[7] = "random" /\ p[8] = "operation"
      /\ p[9] = "math loop" /\ p[10] = "random" /\ p[11] = "finish" /\ p[12] = "random"
      /\ p[13] = "halt"
    OBVIOUS
<1> HIDE DEF p
<1>3. at \in {1, 2, 3, 4, 5, 6, 7, 8, 9, 10, 11, 12, 13}
    OBVIOUS
<1> QED BY <1>1, <1>2, <1>3

\* A part that costs no more than the budget then lets go.
LEMMA PartFits ==
    ASSUME FitInv, phase = "compose", NEW calls, NEW k \in Nat, Costs(calls, k), Adds(calls),
           at # (IF test = "echo" THEN 12 ELSE 13),
           available' \in 0 .. 3, test = "math" => available' = 0, countSet' \in BOOLEAN,
           k + Budget' <= Budget
    PROVE  FitInv'
<1>1. PICK n \in Nat : Weighs(code, n) /\ n + Budget <= 53
    BY DEF FitInv, Composing
<1>2. exit' = exit /\ Weighs(code', n + k) /\ at' = at + 1 /\ UNCHANGED <<test, job, phase>>
    BY <1>1, AddsIs
<1>3. Drawn'
    BY <1>2 DEF FitInv, Drawn
<1>4. exit' = Running
    BY <1>2 DEF FitInv, Composing
<1>5. at' \in 1 .. (IF test' = "echo" THEN 12 ELSE 13)
    BY <1>2 DEF FitInv, Composing
<1>6. Budget \in Nat
    <2>1. CountLeft \in {0, 6} /\ Left \in Nat
        BY DEF CountLeft, Left, LeftOfEcho, LeftOfMath
    <2>2. available \in 0 .. 3
        BY DEF FitInv, Composing
    <2> QED BY <2>1, <2>2 DEF Budget
<1>7. Budget' \in Nat
    <2>1. CountLeft' \in {0, 6} /\ Left' \in Nat
        BY DEF CountLeft, Left, LeftOfEcho, LeftOfMath
    <2> DEFINE a == available'
               c == CountLeft'
               l == Left'
    <2>2. Budget' = 3 * a + c + l
        BY DEF Budget
    <2>3. a \in 0 .. 3 /\ c \in {0, 6} /\ l \in Nat
        BY <2>1
    <2> HIDE DEF a, c, l
    <2>4. 3 * a + c + l \in Nat
        BY <2>3
    <2> QED BY <2>2, <2>4
<1>8. n + k \in Nat /\ (n + k) + Budget' <= 53
    <2> DEFINE b == Budget
               c == Budget'
    <2>1. b \in Nat /\ c \in Nat /\ k + c <= b /\ n + b <= 53
        BY <1>1, <1>6, <1>7
    <2> HIDE DEF b, c
    <2>2. n + k \in Nat /\ (n + k) + c <= 53
        BY <2>1
    <2> QED BY <2>2 DEF c
<1>9. Composing'
    BY <1>2, <1>4, <1>5, <1>8 DEF Composing
<1> QED BY <1>3, <1>9 DEF FitInv

LEMMA RandomFits ==
    ASSUME FitInv, MaybeRandom PROVE FitInv'
<1>1. phase = "compose" /\ Plan[at] = "random" /\ countSet' = countSet
    BY DEF MaybeRandom, Part
<1>2. Drawn /\ Composing
    BY <1>1 DEF FitInv
<1>3. \/ test = "echo" /\ at \in {1, 3, 5, 7, 9, 11}
      \/ test = "math" /\ at \in {1, 3, 5, 7, 10, 12}
    BY <1>1, <1>2, EchoPlan, MathPlan DEF Drawn, Composing
<1>4. countSet \in BOOLEAN /\ available \in 0 .. 3 /\ (test = "math" => available = 0)
    BY <1>2 DEF Composing
<1>5. at # (IF test = "echo" THEN 12 ELSE 13)
    BY <1>3
<1>6. ASSUME at' = at + 1, test' = test PROVE CountLeft' <= CountLeft /\ Left' = Left
                                                /\ CountLeft' \in {0, 6} /\ CountLeft \in {0, 6} /\ Left \in Nat
    BY <1>1, <1>3, <1>4, <1>6 DEF CountLeft, Left, LeftOfEcho, LeftOfMath, FinishAt
<1>7. CASE Adds(<<>>) /\ available' = available
    <2>1. at' = at + 1 /\ test' = test
        BY <1>7 DEF Adds
    <2>2. 0 + Budget' <= Budget
        BY <1>4, <1>6, <1>7, <2>1 DEF Budget
    <2>3. 0 \in Nat
        OBVIOUS
    <2> QED BY <1>1, <1>4, <1>5, <1>7, <2>2, <2>3, CostsNothing, PartFits
<1>8. CASE available > 0 /\ available' = available - 1 /\ (\E draw \in Draws : Adds(<<RandomInstruction(draw)>>))
    <2>1. PICK draw \in Draws : Adds(<<RandomInstruction(draw)>>)
        BY <1>8
    <2>2. PICK k \in 0 .. 3 : Costs(<<RandomInstruction(draw)>>, k)
        BY RandomCosts
    <2>3. at' = at + 1 /\ test' = test
        BY <2>1 DEF Adds
    <2>4. k \in Nat /\ k + Budget' <= Budget
        BY <1>4, <1>6, <1>8, <2>2, <2>3 DEF Budget
    <2>5. available' \in 0 .. 3 /\ (test = "math" => available' = 0)
        BY <1>4, <1>8
    <2> QED BY <1>1, <1>4, <1>5, <2>1, <2>2, <2>4, <2>5, PartFits
<1> QED BY <1>7, <1>8 DEF MaybeRandom

LEMMA CountFits ==
    ASSUME FitInv, MaybeCount PROVE FitInv'
<1>1. phase = "compose" /\ Plan[at] = "count" /\ available' = available
    BY DEF MaybeCount, Part
<1>2. Drawn /\ Composing
    BY <1>1 DEF FitInv
<1>3. at \in {2, 6} /\ test \in {"echo", "math"}
    BY <1>1, <1>2, EchoPlan, MathPlan DEF Drawn, Composing
<1>4. countSet \in BOOLEAN /\ available \in 0 .. 3 /\ (test = "math" => available = 0)
    BY <1>2 DEF Composing
<1>5. at # (IF test = "echo" THEN 12 ELSE 13)
    BY <1>3
<1>6. ASSUME at' = at + 1, test' = test PROVE Left' = Left /\ Left \in Nat
    BY <1>3, <1>6 DEF Left, LeftOfEcho, LeftOfMath
<1>7. CASE Adds(<<>>) /\ countSet' = countSet
    <2>1. at' = at + 1 /\ test' = test
        BY <1>7 DEF Adds
    <2>2. CountLeft' = CountLeft /\ CountLeft \in {0, 6}
        BY <1>3, <1>7, <2>1 DEF CountLeft, FinishAt
    <2>3. 0 + Budget' <= Budget
        BY <1>1, <1>4, <1>6, <2>1, <2>2 DEF Budget
    <2>4. 0 \in Nat
        OBVIOUS
    <2> QED BY <1>1, <1>4, <1>5, <1>7, <2>3, <2>4, CostsNothing, PartFits
<1>8. CASE ~ countSet /\ Adds(SetCount) /\ countSet' = TRUE
    <2>1. at' = at + 1 /\ test' = test
        BY <1>8 DEF Adds
    <2>2. CountLeft' = 0 /\ CountLeft = 6
        BY <1>3, <1>8, <2>1 DEF CountLeft, FinishAt
    <2>3. 6 + Budget' <= Budget
        BY <1>1, <1>4, <1>6, <2>1, <2>2 DEF Budget
    <2>4. 6 \in Nat /\ countSet' \in BOOLEAN
        BY <1>8
    <2>5. available' \in 0 .. 3 /\ (test = "math" => available' = 0)
        BY <1>1, <1>4
    <2> QED BY <1>1, <1>5, <1>8, <2>3, <2>4, <2>5, SetCountCosts, PartFits
<1> QED BY <1>7, <1>8 DEF MaybeCount

\* A part whose cost is what it takes off what is left.
LEMMA FixedFits ==
    ASSUME FitInv, phase = "compose", NEW calls, NEW k \in Nat, Costs(calls, k), Adds(calls),
           at # (IF test = "echo" THEN 12 ELSE 13),
           UNCHANGED <<available, countSet>>,
           at' = at + 1 /\ test' = test => k + CountLeft' + Left' <= CountLeft + Left
    PROVE  FitInv'
<1>1. Drawn /\ Composing
    BY DEF FitInv
<1>2. countSet \in BOOLEAN /\ available \in 0 .. 3 /\ (test = "math" => available = 0)
      /\ at \in 1 .. (IF test = "echo" THEN 12 ELSE 13)
    BY <1>1 DEF Composing
<1>3. at' = at + 1 /\ test' = test
    <2>1. PICK n \in Nat : Weighs(code, n)
        BY <1>1 DEF Composing
    <2>2. Adds(calls) /\ Costs(calls, k)
        OBVIOUS
    <2>3. at' = at + 1 /\ UNCHANGED <<test, job, phase>>
        BY <2>1, <2>2, AddsIs
    <2>4. test' = test
        BY <2>3
    <2> QED BY <2>3, <2>4
<1>4. CountLeft \in Nat /\ CountLeft' \in Nat /\ Left \in Nat /\ Left' \in Nat
    BY DEF CountLeft, Left, LeftOfEcho, LeftOfMath
<1>5. k + Budget' <= Budget
    <2> DEFINE c == CountLeft
               d == CountLeft'
               l == Left
               m == Left'
    <2>1. k + d + m <= c + l /\ c \in Nat /\ d \in Nat /\ l \in Nat /\ m \in Nat
        BY <1>3, <1>4
    <2>2. Budget = 3 * available + c + l /\ Budget' = 3 * available + d + m
        BY DEF Budget
    <2> HIDE DEF c, d, l, m
    <2> QED BY <1>2, <2>1, <2>2
<1>6. available' \in 0 .. 3 /\ (test = "math" => available' = 0) /\ countSet' \in BOOLEAN
    BY <1>2
<1> QED BY <1>5, <1>6, PartFits

LEMMA SetUpFits ==
    ASSUME FitInv, SetUp PROVE FitInv'
<1>1. phase = "compose" /\ Plan[at] = "set up" /\ UNCHANGED <<available, countSet>>
    BY DEF SetUp, Part
<1>2. Drawn /\ Composing
    BY <1>1 DEF FitInv
<1>3. at = 4 /\ test \in {"echo", "math"}
    BY <1>1, <1>2, EchoPlan, MathPlan DEF Drawn, Composing
<1>4. PICK order \in SetUps : Adds(order)
    BY DEF SetUp
<1>5. Costs(order, 12)
    BY <1>2, SetUpCosts
<1>6. at # (IF test = "echo" THEN 12 ELSE 13)
    BY <1>3
<1>7. ASSUME at' = at + 1, test' = test PROVE 12 + CountLeft' + Left' <= CountLeft + Left
    <2>1. at = 4 /\ at' = 5
        BY <1>3, <1>7
    <2>2. CountLeft' = CountLeft /\ CountLeft \in {0, 6}
        <3>1. 4 <= FinishAt /\ 5 <= FinishAt /\ FinishAt' = FinishAt
            BY <1>7 DEF FinishAt
        <3>2. countSet' = countSet
            BY <1>1
        <3>3. CountLeft = (IF ~ countSet THEN 6 ELSE 0) /\ CountLeft' = (IF ~ countSet THEN 6 ELSE 0)
            BY <2>1, <3>1, <3>2 DEF CountLeft
        <3> QED BY <3>3
    <2>3. LeftOfEcho = 38 /\ LeftOfEcho' = 26 /\ LeftOfMath = 47 /\ LeftOfMath' = 35
        BY <2>1 DEF LeftOfEcho, LeftOfMath
    <2>4. Left' + 12 = Left /\ Left' \in {26, 35}
        BY <1>7, <2>3 DEF Left
    <2> QED BY <2>2, <2>4
<1>8. 12 \in Nat
    OBVIOUS
<1> QED BY <1>1, <1>4, <1>5, <1>6, <1>7, <1>8, FixedFits

LEMMA ComputeFits ==
    ASSUME FitInv, Compute PROVE FitInv'
<1>1. phase = "compose" /\ UNCHANGED <<available, countSet>>
    BY DEF Compute, Part
<1>2. Drawn /\ Composing
    BY <1>1 DEF FitInv
<1>3. /\ (test = "echo" /\ at \in 1 .. 12) \/ (test = "math" /\ at \in 1 .. 13)
      /\ countSet \in BOOLEAN
    BY <1>2 DEF Drawn, Composing
<1>4. CASE Part("operation") /\ Adds(Operation)
    <2>1. test = "math" /\ at = 8
        BY <1>3, <1>4, EchoPlan, MathPlan DEF Part
    <2>2. Costs(Operation, 3)
        BY <1>2, <2>1, OperationCosts
    <2>3. at' = at + 1 /\ test' = test => 3 + CountLeft' + Left' <= CountLeft + Left
        BY <1>1, <2>1 DEF CountLeft, Left, LeftOfMath, FinishAt
    <2>4. 3 \in Nat /\ at # (IF test = "echo" THEN 12 ELSE 13)
        BY <2>1
    <2> QED BY <1>1, <1>4, <2>2, <2>3, <2>4, FixedFits
<1>5. CASE Part("echo loop") /\ Adds(EchoLoop)
    <2>1. test = "echo" /\ at = 8
        BY <1>3, <1>5, EchoPlan, MathPlan DEF Part
    <2>2. at' = at + 1 /\ test' = test => 15 + CountLeft' + Left' <= CountLeft + Left
        BY <1>1, <2>1 DEF CountLeft, Left, LeftOfEcho, FinishAt
    <2>3. 15 \in Nat /\ at # (IF test = "echo" THEN 12 ELSE 13)
        BY <2>1
    <2> QED BY <1>1, <1>5, <2>2, <2>3, EchoLoopCosts, FixedFits
<1>6. CASE Part("math loop") /\ Adds(MathLoop)
    <2>1. test = "math" /\ at = 9
        BY <1>3, <1>6, EchoPlan, MathPlan DEF Part
    <2>2. at' = at + 1 /\ test' = test => 21 + CountLeft' + Left' <= CountLeft + Left
        BY <1>1, <2>1 DEF CountLeft, Left, LeftOfMath, FinishAt
    <2>3. 21 \in Nat /\ at # (IF test = "echo" THEN 12 ELSE 13)
        BY <2>1
    <2> QED BY <1>1, <1>6, <2>2, <2>3, MathLoopCosts, FixedFits
<1>7. CASE Part("finish") /\ Adds(Finish)
    <2> DEFINE k == IF countSet THEN 9 ELSE 15
    <2>1. at = FinishAt
        BY <1>3, <1>7, EchoPlan, MathPlan DEF Part, FinishAt
    <2>2. Costs(Finish, k)
        BY <1>2, FinishCosts
    <2>3. at' = at + 1 /\ test' = test => k + CountLeft' + Left' <= CountLeft + Left
        BY <1>1, <1>3, <2>1 DEF CountLeft, Left, LeftOfEcho, LeftOfMath, FinishAt
    <2>4. k \in Nat /\ at # (IF test = "echo" THEN 12 ELSE 13)
        BY <2>1 DEF FinishAt
    <2> HIDE DEF k
    <2> QED BY <1>1, <1>7, <2>2, <2>3, <2>4, FixedFits
<1> QED BY <1>4, <1>5, <1>6, <1>7 DEF Compute

\* The halt fits as well, so that the check goes on with its service.
LEMMA HaltFits ==
    ASSUME FitInv, Assembled PROVE FitInv'
<1> DEFINE halt == Assemble(Halt.name, Halt.args).hex
           whole == Append(code, halt)
<1>1. phase = "compose" /\ Plan[at] = "halt" /\ UNCHANGED <<test, job>>
    BY DEF Assembled, Part
<1>2. Drawn /\ Composing
    BY <1>1 DEF FitInv
<1>3. PICK n \in Nat : Weighs(code, n) /\ n + Budget <= 53
    BY <1>2 DEF Composing
<1>4. Budget >= 2 /\ Budget \in Nat
    BY <1>2 DEF Composing, Budget, CountLeft, Left, LeftOfEcho, LeftOfMath
<1>5. n <= 51 /\ n + 2 \in Nat /\ n + 2 <= PageSize
    BY <1>3, <1>4 DEF PageSize
<1>6. whole = code \o <<halt>>
    <2>1. PICK S : code \in Seq(S)
        BY <1>3 DEF Weighs
    <2>2. code \in Seq(S \cup {halt}) /\ halt \in S \cup {halt}
        BY <2>1
    <2> HIDE DEF halt
    <2> QED BY <2>2, AppendIsConcat
<1>7. Weighs(<<halt>>, 2)
    <2>1. Weighs(Hexes(<<Halt>>), 2)
        BY HaltMakes, CostsOne DEF Costs
    <2>2. Hexes(<<Halt>>) = <<halt>>
        BY DEF Hexes
    <2> QED BY <2>1, <2>2
<1> HIDE DEF halt
<1>8. Weighs(whole, n + 2)
    BY <1>3, <1>6, <1>7, WeighsMore
<1> HIDE DEF whole
<1>9. Len(MakeSc(whole)) = PageSize
    BY <1>5, <1>8, MakesPage
<1>10. \A i \in DOMAIN whole : Len(whole[i]) \in {5, 7, 14}
    BY <1>8 DEF Weighs, Sized
<1>11. ~ (\E i \in DOMAIN whole : Len(whole[i]) \notin {3, 5, 7, 14})
    BY <1>10
<1>12. ~ (Len(MakeSc(whole)) > PageSize)
    BY <1>9 DEF PageSize
<1>13. phase' = "greeting"
    BY <1>11, <1>12 DEF Assembled, whole, halt
<1> QED BY <1>1, <1>2, <1>13 DEF FitInv, Drawn

\* Nothing else touches what is composed, and nothing else happens to the check before that is done.
LEMMA RestFits ==
    ASSUME FitInv,
           \/ UNCHANGED <<compose, phase, exit>>
           \/ UNCHANGED compose /\ phase' # "compose"
    PROVE  FitInv'
<1>1. UNCHANGED <<test, job, at, code, available, countSet>>
    BY DEF compose
<1>2. Drawn'
    BY <1>1 DEF FitInv, Drawn
<1>3. CASE UNCHANGED <<phase, exit>>
    BY <1>1, <1>2, <1>3
       DEF FitInv, Composing, Budget, CountLeft, Left, LeftOfEcho, LeftOfMath, FinishAt
<1>4. CASE phase' # "compose"
    BY <1>2, <1>4 DEF FitInv
<1> QED BY <1>3, <1>4

LEMMA FitInit == Init => FitInv
<1> SUFFICES ASSUME Init PROVE FitInv
    OBVIOUS
<1>1. /\ \/ test = "echo" /\ job \in Echoes /\ available = 3
         \/ test = "math" /\ job \in Sums /\ available = 0
      /\ at = 1 /\ code = <<>> /\ countSet = FALSE /\ exit = Running
    BY DEF Init
<1>2. Drawn
    BY <1>1 DEF Drawn
<1>3. 0 \in Nat /\ 0 + Budget <= 53
    BY <1>1 DEF Budget, CountLeft, Left, LeftOfEcho, LeftOfMath, FinishAt
<1>4. \E n \in Nat : Weighs(code, n) /\ n + Budget <= 53
    BY <1>1, <1>3, WeighsNothing
<1>5. at \in 1 .. (IF test = "echo" THEN 12 ELSE 13)
    BY <1>1
<1>6. available \in 0 .. 3 /\ (test = "math" => available = 0) /\ countSet \in BOOLEAN
    <2>1. CASE test = "echo" /\ available = 3
        <3>1. 3 \in 0 .. 3 /\ "echo" # "math"
            OBVIOUS
        <3> QED BY <1>1, <2>1, <3>1
    <2>2. CASE test = "math" /\ available = 0
        <3>1. 0 \in 0 .. 3
            OBVIOUS
        <3> QED BY <1>1, <2>2, <3>1
    <2> QED BY <1>1, <2>1, <2>2
<1>7. Composing
    BY <1>1, <1>4, <1>5, <1>6 DEF Composing
<1> QED BY <1>2, <1>7 DEF FitInv

LEMMA FitStep == FitInv /\ [Next]_vars => FitInv'
<1> SUFFICES ASSUME FitInv, [Next]_vars PROVE FitInv'
    OBVIOUS
<1>1. CASE MaybeRandom
    BY <1>1, RandomFits
<1>2. CASE MaybeCount
    BY <1>2, CountFits
<1>3. CASE SetUp
    BY <1>3, SetUpFits
<1>4. CASE Compute
    BY <1>4, ComputeFits
<1>5. CASE Assembled
    BY <1>5, HaltFits
<1>6. CASE Execute
    BY <1>6, RestFits, Zenon DEF Execute, outcome
<1>7. CASE ShowCube
    BY <1>7, RestFits DEF ShowCube, outcome
<1>8. CASE HangUp
    BY <1>8, RestFits DEF HangUp, outcome
<1>9. ASSUME NEW message, Reply(message) PROVE FitInv'
    BY <1>9, RestFits DEF Reply, outcome
<1>10. CASE SendSc
    <2>1. UNCHANGED compose /\ phase = "greeting" /\ phase' \in {"initial", phase}
        BY <1>10 DEF SendSc
    <2> QED BY <2>1, RestFits
<1>11. CASE ReadInitial
    <2>1. UNCHANGED compose /\ phase' = "cube"
        BY <1>11 DEF ReadInitial
    <2> QED BY <2>1, RestFits
<1>12. CASE SendMove
    <2>1. UNCHANGED compose /\ phase = "cube" /\ phase' \in {"reply", phase}
        BY <1>12 DEF SendMove
    <2> QED BY <2>1, RestFits
<1>13. CASE ReadReply
    <2>1. UNCHANGED compose /\ phase' = "cube"
        BY <1>13 DEF ReadReply
    <2> QED BY <2>1, RestFits
<1>14. CASE Alarm
    <2>1. UNCHANGED compose /\ phase # "compose" /\ phase' = phase
        BY <1>14 DEF Alarm
    <2> QED BY <2>1, RestFits
<1>15. CASE UNCHANGED vars
    BY <1>15, RestFits DEF vars, outcome
<1> QED BY <1>1, <1>2, <1>3, <1>4, <1>5, <1>6, <1>7, <1>8, <1>9, <1>10, <1>11, <1>12, <1>13, <1>14,
           <1>15 DEF Next

\* Every program the check composes is sent: whatever it draws, the words it has and those it has
\* still to add are 53 at most, one less than a page, and all that it composes assembles; so
\* scripts/rubix/availability never ends, as if the service had passed, before it has sent anything.
THEOREM EveryProgramFits == Spec => []ProgramsFit
<1>1. Init => FitInv
    BY FitInit
<1>2. FitInv /\ [Next]_vars => FitInv'
    BY FitStep
<1>3. FitInv => ProgramsFit
    BY DEF FitInv, Composing, ProgramsFit
<1> QED BY <1>1, <1>2, <1>3, PTL DEF Spec

-----------------------------------------------------------------------------
(* Numbers cut into words.                                                   *)

\* What the first bits come to.
LEMMA FirstBound ==
    ASSUME NEW b \in Seq(Bit) PROVE \A w \in 0 .. 30 : w <= Len(b) => First(b, w) \in Nat /\ First(b, w) < Power[w]
<1> DEFINE T == {w \in Nat : w \in 0 .. 30 /\ w <= Len(b) => First(b, w) \in Nat /\ First(b, w) < Power[w]}
<1>1. 0 \in T
    BY FirstNone, SmallPowers
<1>2. ASSUME NEW w \in Nat, w \in T PROVE w + 1 \in T
    <2> SUFFICES ASSUME w + 1 \in 0 .. 30, w + 1 <= Len(b)
                 PROVE  First(b, w + 1) \in Nat /\ First(b, w + 1) < Power[w + 1]
        OBVIOUS
    <2>1. w \in 0 .. 30 /\ w <= Len(b) /\ w \in 0 .. 29
        OBVIOUS
    <2>2. First(b, w) \in Nat /\ First(b, w) < Power[w]
        BY <1>2, <2>1
    <2>3. First(b, w + 1) \in Nat /\ First(b, w + 1) \in {2 * First(b, w), 2 * First(b, w) + 1}
        BY FirstHalf
    <2>4. Power[w + 1] = 2 * Power[w] /\ Power[w] \in Nat
        BY <2>1, PowerTable
    <2> DEFINE p == Power[w]
               f == First(b, w)
    <2> HIDE DEF p, f
    <2>5. p \in Nat /\ f \in Nat /\ f < p => 2 * f < 2 * p /\ 2 * f + 1 < 2 * p
        OBVIOUS
    <2> QED BY <2>2, <2>3, <2>4, <2>5 DEF p, f
<1> HIDE DEF T
<1>3. Nat \subseteq T
    BY <1>1, <1>2, NaturalInduction
<1> QED BY <1>3 DEF T

\* Some of the bits of a sequence.
LEMMA Cut ==
    ASSUME NEW b \in Seq(Bit), NEW k \in Nat, NEW n \in Nat, k + n <= Len(b)
    PROVE  /\ SubSeq(b, k + 1, k + n) \in Seq(Bit) /\ Len(SubSeq(b, k + 1, k + n)) = n
           /\ \A i \in 1 .. n : SubSeq(b, k + 1, k + n)[i] = b[k + i]
<1>1. k + 1 \in 1 .. Len(b) + 1 /\ k + n \in (k + 1) - 1 .. Len(b) /\ (k + n) - (k + 1) + 1 = n
    OBVIOUS
<1>2. SubSeq(b, k + 1, k + n) \in Seq(Bit) /\ Len(SubSeq(b, k + 1, k + n)) = (k + n) - (k + 1) + 1
      /\ \A i \in 1 .. (k + n) - (k + 1) + 1 : SubSeq(b, k + 1, k + n)[i] = b[(k + 1) + i - 1]
    BY <1>1, SubSeqProperties
<1>3. \A i \in 1 .. n : (k + 1) + i - 1 = k + i
    OBVIOUS
<1> QED BY <1>1, <1>2, <1>3

LEMMA FirstAll == ASSUME NEW s \in Seq(Bit) PROVE First(s, Len(s)) = Number(s)
<1> DEFINE n == Len(s)
           t == SubSeq(s, 1, n)
<1>1. 0 \in Nat /\ n \in Nat /\ 0 + n <= Len(s) /\ 0 + 1 = 1 /\ 0 + n = n /\ \A i \in 1 .. n : 0 + i = i
    OBVIOUS
<1>2. SubSeq(s, 0 + 1, 0 + n) \in Seq(Bit) /\ Len(SubSeq(s, 0 + 1, 0 + n)) = n
      /\ \A i \in 1 .. n : SubSeq(s, 0 + 1, 0 + n)[i] = s[0 + i]
    BY <1>1, Cut
<1>3. t \in Seq(Bit) /\ Len(t) = n /\ \A i \in 1 .. n : t[i] = s[i]
    BY <1>1, <1>2
<1>4. t = s
    BY <1>3, SeqEqual
<1> QED BY <1>4 DEF First

\* Where two sequences begin with the same bits, so do the numbers.
LEMMA FirstAlike ==
    ASSUME NEW b \in Seq(Bit), NEW d \in Seq(Bit), NEW w \in Nat, w <= Len(b), w <= Len(d),
           \A i \in 1 .. w : b[i] = d[i]
    PROVE  First(b, w) = First(d, w)
<1> DEFINE T == {v \in Nat : v <= w => First(b, v) = First(d, v)}
<1>1. 0 \in T
    BY FirstNone
<1>2. ASSUME NEW v \in Nat, v \in T PROVE v + 1 \in T
    <2> SUFFICES ASSUME v + 1 <= w PROVE First(b, v + 1) = First(d, v + 1)
        OBVIOUS
    <2>1. v <= w /\ v + 1 <= Len(b) /\ v + 1 <= Len(d) /\ v + 1 \in 1 .. w
        OBVIOUS
    <2>2. First(b, v) = First(d, v)
        BY <1>2, <2>1
    <2>3. First(b, v + 1) = 2 * First(b, v) + b[v + 1] /\ First(d, v + 1) = 2 * First(d, v) + d[v + 1]
        BY <2>1, FirstMore
    <2> QED BY <2>1, <2>2, <2>3
<1> HIDE DEF T
<1>3. Nat \subseteq T
    BY <1>1, <1>2, NaturalInduction
<1> QED BY <1>3 DEF T

\* A number is what its upper bits are, moved by the lower ones, and these.
LEMMA FirstSplits ==
    ASSUME NEW b \in Seq(Bit), NEW k \in Nat, NEW n \in 0 .. 30, k + n <= Len(b)
    PROVE  First(b, k + n) = Power[n] * First(b, k) + Number(SubSeq(b, k + 1, k + n))
<1> DEFINE s == SubSeq(b, k + 1, k + n)
<1>1. s \in Seq(Bit) /\ Len(s) = n /\ \A i \in 1 .. n : s[i] = b[k + i]
    <2>1. n \in Nat
        OBVIOUS
    <2> QED BY <2>1, Cut
<1> HIDE DEF s
<1> DEFINE T == {m \in Nat : m <= n => First(b, k + m) = Power[m] * First(b, k) + First(s, m)}
<1>2. k \in 0 .. Len(b) /\ n \in Nat
    OBVIOUS
<1>3. First(b, k) \in Nat
    BY <1>2, FirstIsNat
<1>4. 0 \in T
    <2>1. k + 0 = k /\ First(s, 0) = 0 /\ Power[0] = 1
        BY <1>1, FirstNone, SmallPowers
    <2>2. First(b, k + 0) = Power[0] * First(b, k) + First(s, 0)
        BY <1>3, <2>1
    <2> QED BY <2>2
<1>5. ASSUME NEW m \in Nat, m \in T PROVE m + 1 \in T
    <2> SUFFICES ASSUME m + 1 <= n PROVE First(b, k + (m + 1)) = Power[m + 1] * First(b, k) + First(s, m + 1)
        OBVIOUS
    <2> DEFINE j == k + m
    <2>1. j \in Nat /\ j + 1 <= Len(b) /\ m + 1 <= Len(s) /\ k + (m + 1) = j + 1 /\ m <= n /\ m \in 0 .. 29
          /\ m \in 0 .. 30 /\ m \in 0 .. Len(s) /\ m + 1 \in 1 .. n /\ j \in 0 .. Len(b)
        BY <1>1, <1>2
    <2>2. First(b, j) = Power[m] * First(b, k) + First(s, m)
        BY <1>5, <2>1
    <2>3. b[j + 1] = s[m + 1]
        <3>1. k + (m + 1) = j + 1
            OBVIOUS
        <3> QED BY <1>1, <2>1, <3>1
    <2>8. s[m + 1] \in Nat
        <3>1. s[m + 1] \in Bit
            BY <1>1, <2>1
        <3> QED BY <3>1 DEF Bit
    <2> HIDE DEF j
    <2>4. First(b, j + 1) = 2 * First(b, j) + b[j + 1] /\ First(s, m + 1) = 2 * First(s, m) + s[m + 1]
        BY <1>1, <2>1, FirstMore
    <2>5. Power[m + 1] = 2 * Power[m] /\ Power[m] \in Nat
        BY <2>1, PowerTable
    <2>6. First(s, m) \in Nat
        BY <1>1, <2>1, FirstIsNat
    <2> DEFINE p == Power[m]
               f == First(b, k)
               h == First(s, m)
               e == s[m + 1]
    <2> HIDE DEF p, f, h, e
    <2>7. p \in Nat /\ f \in Nat /\ h \in Nat /\ e \in Nat => 2 * (p * f + h) + e = (2 * p) * f + (2 * h + e)
        BY SMT
    <2> QED BY <1>3, <2>1, <2>2, <2>3, <2>4, <2>5, <2>6, <2>7, <2>8 DEF p, f, h, e
<1> HIDE DEF T
<1>6. Nat \subseteq T
    BY <1>4, <1>5, NaturalInduction
<1>7. First(b, k + n) = Power[n] * First(b, k) + First(s, n)
    BY <1>2, <1>6 DEF T
<1>8. First(s, n) = Number(s)
    BY <1>1, FirstAll
<1> QED BY <1>7, <1>8 DEF s

\* The bits of a number read from bits are these.
LEMMA NumberSpells ==
    ASSUME NEW s \in Seq(Bit), Len(s) <= 30
    PROVE  \A j \in 1 .. Len(s) : s[j] = (Number(s) \div Power[Len(s) - j]) % 2
<1> DEFINE n == Len(s)
           N == Number(s)
<1>1. n \in 0 .. 30 /\ n \in Nat
    <2> HIDE DEF N
    <2>1. n \in Nat /\ n <= 30
        OBVIOUS
    <2> HIDE DEF n
    <2> QED BY <2>1
<1>2. First(s, n) = N
    BY FirstAll
<1> HIDE DEF n, N
<1>3. Len(s) = n
    BY DEF n
<1> DEFINE T == {m \in Nat : m <= n => N \div Power[m] = First(s, n - m)}
<1>4. \A m \in 0 .. n : First(s, m) \in Nat
    BY <1>3, FirstIsNat
<1>5. N \in Nat /\ n - 0 = n
    BY <1>1, <1>2, <1>4
<1>6. 0 \in T
    <2>1. Power[0] = 1 /\ N \div 1 = N
        BY <1>5, SmallPowers
    <2> QED BY <1>2, <1>5, <2>1
<1>7. ASSUME NEW m \in Nat, m + 1 <= n, N \div Power[m] = First(s, n - m)
      PROVE  N \div Power[m + 1] = First(s, n - (m + 1)) /\ s[n - m] = (N \div Power[m]) % 2
    <2> DEFINE k == n - (m + 1)
    <2>1. k \in Nat /\ k + 1 = n - m /\ k + 1 <= Len(s) /\ m \in 0 .. 29 /\ m \in 0 .. 30 /\ k \in 0 .. n
          /\ k + 1 \in 1 .. n
        BY <1>1, <1>3, <1>7
    <2> HIDE DEF k
    <2>2. First(s, k + 1) = 2 * First(s, k) + s[k + 1] /\ s[k + 1] \in {0, 1} /\ First(s, k) \in Nat
        BY <1>3, <1>4, <2>1, FirstMore DEF Bit
    <2>3. Power[m] \in Nat \ {0} /\ Power[m + 1] = 2 * Power[m]
        BY <2>1, PowerTable
    <2> DEFINE q == N \div Power[m]
               u == N \div (2 * Power[m])
    <2>4. u \in Nat /\ q = 2 * u + (q % 2) /\ q \in Nat
        BY <1>5, <2>3, DigitAndRest
    <2>5. q = First(s, k + 1)
        BY <1>7, <2>1
    <2>6. N \div Power[m + 1] = u
        BY <2>3
    <2> HIDE DEF q, u
    <2>7. u = First(s, k) /\ s[k + 1] = q % 2
        <3> DEFINE f == First(s, k)
                   e == s[k + 1]
        <3>1. q = 2 * f + e /\ e \in {0, 1} /\ f \in Nat
            BY <2>2, <2>5
        <3> HIDE DEF f, e
        <3>2. u = f /\ e = q % 2
            BY <2>4, <3>1
        <3> QED BY <3>2 DEF f, e
    <2> QED BY <2>1, <2>6, <2>7 DEF q, k
<1>8. ASSUME NEW m \in Nat, m \in T PROVE m + 1 \in T
    <2>1. m + 1 <= n => m <= n
        BY <1>1
    <2> QED BY <1>7, <1>8, <2>1
<1>9. \A m \in Nat : m <= n => N \div Power[m] = First(s, n - m)
    <2> HIDE DEF T
    <2>1. Nat \subseteq T
        BY <1>6, <1>8, NaturalInduction
    <2> QED BY <2>1 DEF T
<1>10. ASSUME NEW j \in 1 .. n PROVE s[j] = (N \div Power[n - j]) % 2
    <2>1. n - j \in Nat /\ (n - j) + 1 <= n /\ n - (n - j) = j /\ n - j <= n
        BY <1>1
    <2>2. N \div Power[n - j] = First(s, n - (n - j))
        BY <1>9, <2>1
    <2>3. s[n - (n - j)] = (N \div Power[n - j]) % 2
        BY <1>7, <2>1, <2>2
    <2> QED BY <2>1, <2>3
<1> QED BY <1>10 DEF n, N

\* Bits are what the number that they are is padded to.
LEMMA PaddedNumber ==
    ASSUME NEW s \in Seq(Bit), Len(s) \in 1 .. 27
    PROVE  Number(s) \in Small /\ Padded(Number(s), Len(s)) = s
<1> DEFINE n == Len(s)
           N == Number(s)
           p == Padded(N, n)
<1>1. n \in 1 .. 27 /\ n \in 0 .. 30 /\ 30 \in 0 .. 30 /\ n <= 30 /\ n <= Len(s)
    <2> HIDE DEF N, p
    <2>1. n \in 1 .. 27
        OBVIOUS
    <2>2. n <= Len(s)
        BY <2>1
    <2> HIDE DEF n
    <2> QED BY <2>1, <2>2
<1>2. N \in Nat /\ N < Power[n]
    <2>1. First(s, n) = N
        BY FirstAll
    <2> HIDE DEF N, p, n
    <2> QED BY <1>1, <2>1, FirstBound
<1>3. Power[n] <= Power[30] /\ Power[30] = 2^30 /\ Power[30] \in Nat /\ Power[n] \in Nat
    BY <1>1, PowerTable
<1>4. N \in Small
    BY <1>2, <1>3 DEF Small
<1>5. Spells(p, N, n)
    BY <1>1, <1>4, PaddedSpells
<1>6. \A j \in 1 .. n : s[j] = (N \div Power[n - j]) % 2
    BY <1>1, NumberSpells
<1> HIDE DEF p, N
<1>7. p \in Seq(Bit) /\ Len(p) = n /\ \A j \in 1 .. n : p[j] = s[j]
    BY <1>5, <1>6 DEF Spells
<1>8. p = s
    BY <1>7, SeqEqual
<1> QED BY <1>4, <1>8 DEF p, N

-----------------------------------------------------------------------------
(* The words that the machine is sent.                                       *)

\* The equation of the recursive function that HexNumber takes.
Sums16(g, s) == g = [i \in 0 .. Len(s) |-> IF i = 0 THEN 0 ELSE 16 * g[i - 1] + s[i]]

LEMMA HexNumberUnfolds ==
    ASSUME NEW s PROVE HexNumber(s) = (CHOOSE g : Sums16(g, s))[Len(s)]
BY DEF HexNumber, Sums16

Sixteens(h, s) == h[0] = 0 /\ \A i \in 1 .. Len(s) : h[i] = 16 * h[i - 1] + s[i]

LEMMA HexNumberIs ==
    ASSUME NEW s, Len(s) \in Nat, NEW h, Sixteens(h, s)
    PROVE  HexNumber(s) = h[Len(s)]
<1> DEFINE n == Len(s)
           f == [i \in 0 .. n |-> h[i]]
           c == CHOOSE g : Sums16(g, s)
<1>1. n \in Nat /\ h[0] = 0 /\ \A i \in 1 .. n : h[i] = 16 * h[i - 1] + s[i]
    BY DEF Sixteens
<1>2. Sums16(f, s)
    <2>1. ASSUME NEW i \in 0 .. n PROVE f[i] = IF i = 0 THEN 0 ELSE 16 * f[i - 1] + s[i]
        <3>1. CASE i = 0
            BY <1>1, <3>1
        <3>2. CASE i # 0
            <4>1. i \in 1 .. n /\ i - 1 \in 0 .. n
                BY <1>1, <3>2
            <4>2. f[i] = h[i] /\ f[i - 1] = h[i - 1]
                BY <4>1
            <4> HIDE DEF f
            <4> QED BY <1>1, <3>2, <4>1, <4>2
        <3> QED BY <3>1, <3>2
    <2>2. f = [i \in 0 .. n |-> f[i]]
        OBVIOUS
    <2> HIDE DEF f
    <2>3. f = [i \in 0 .. n |-> IF i = 0 THEN 0 ELSE 16 * f[i - 1] + s[i]]
        BY <2>1, <2>2
    <2> QED BY <2>3 DEF Sums16
<1> HIDE DEF f
<1>3. Sums16(c, s)
    BY <1>2
<1> HIDE DEF c
<1>4. c = [i \in 0 .. n |-> IF i = 0 THEN 0 ELSE 16 * c[i - 1] + s[i]]
    BY <1>3 DEF Sums16
<1> DEFINE T == {i \in Nat : i <= n => c[i] = h[i]}
<1>5. 0 \in T
    <2>1. 0 \in 0 .. n
        BY <1>1
    <2>2. c[0] = 0
        BY <1>4, <2>1
    <2> QED BY <1>1, <2>2
<1>6. ASSUME NEW i \in Nat, i \in T PROVE i + 1 \in T
    <2> SUFFICES ASSUME i + 1 <= n PROVE c[i + 1] = h[i + 1]
        OBVIOUS
    <2>1. i + 1 \in 0 .. n /\ i + 1 \in 1 .. n /\ i + 1 # 0 /\ (i + 1) - 1 = i /\ i <= n
        BY <1>1
    <2>2. c[i + 1] = 16 * c[i] + s[i + 1]
        BY <1>4, <2>1
    <2>3. c[i] = h[i]
        BY <1>6, <2>1
    <2>4. h[i + 1] = 16 * h[i] + s[i + 1]
        BY <1>1, <2>1
    <2> QED BY <2>2, <2>3, <2>4
<1> HIDE DEF T
<1>7. Nat \subseteq T
    BY <1>5, <1>6, NaturalInduction
<1>8. c[n] = h[n]
    BY <1>1, <1>7 DEF T
<1>9. HexNumber(s) = c[Len(s)]
    BY HexNumberUnfolds DEF c
<1> QED BY <1>8, <1>9

LEMMA Fours ==
    \A c \in {18, 27, 54} : c = 4 * (c \div 4) + (c % 4) /\ c % 4 \in {2, 3} /\ c \div 4 \in Nat /\ c \in Nat
<1>1. 18 % 4 = 2 /\ 27 % 4 = 3 /\ 54 % 4 = 2 /\ 18 \div 4 = 4 /\ 27 \div 4 = 6 /\ 54 \div 4 = 13
    OBVIOUS
<1> QED BY <1>1

\* The digits of an instruction.
LEMMA HexDigits ==
    ASSUME NEW bits \in Seq(Bit), Len(bits) \in {18, 27, 54}
    PROVE  LET hex == Bin2Hex(bits).hex
               r   == Len(bits) % 4
               q   == Len(bits) \div 4
           IN  /\ hex \in Seq(Nat) /\ Len(hex) = 1 + q
               /\ hex[1] = First(bits, r)
               /\ \A i \in 1 .. q : hex[i + 1] = Number(SubSeq(bits, (r + 4 * (i - 1)) + 1, (r + 4 * (i - 1)) + 4))
<1> DEFINE n == Len(bits)
           r == n % 4
           q == n \div 4
           chunks == Chunks(bits)
           hex == [i \in DOMAIN chunks |-> Number(chunks[i])]
<1>1. n = 4 * q + r /\ r \in {2, 3} /\ q \in Nat /\ n \in Nat
    <2> DEFINE c == n
    <2>2. c \in {18, 27, 54}
        OBVIOUS
    <2> HIDE DEF c
    <2>3. c = 4 * (c \div 4) + (c % 4) /\ c % 4 \in {2, 3} /\ c \div 4 \in Nat /\ c \in Nat
        BY <2>2, Fours
    <2> QED BY <2>3 DEF c
<1>2. chunks \in Seq(Seq(Bit)) /\ DOMAIN chunks = 1 .. 1 + q /\ Len(chunks) = 1 + q
    BY ChunksAre, LenProperties
<1>3. /\ chunks[1] = SubSeq(bits, 1, r)
      /\ \A i \in 1 .. q : chunks[i + 1] = SubSeq(bits, r + 4 * i - 3, r + 4 * i)
    BY ChunkIs
<1>4. Bin2Hex(bits).hex = hex
    <2>1. Bin2Hex(bits) =
            IF Len(bits) \notin {54, 27, 17, 18} THEN Message
            ELSE IF \E i \in DOMAIN chunks : ~ Readable(chunks[i]) THEN Raises
            ELSE Code(hex)
        BY DEF Bin2Hex
    <2>2. Bin2Hex(bits).result = "code"
        BY Bin2HexIs
    <2>3. Raises.result # "code" /\ Message.result # "code"
        BY DEF Raises, Message
    <2> HIDE DEF hex, chunks
    <2>4. Code(hex).hex = hex
        BY DEF Code
    <2> QED BY <2>1, <2>2, <2>3, <2>4
<1> HIDE DEF chunks, r, q, n
<1>5. ASSUME NEW i \in 1 .. 1 + q PROVE Number(chunks[i]) \in Nat
    <2> DEFINE s == chunks[i]
    <2>1. s \in Seq(Bit)
        BY <1>2, ElementOfSeq
    <2> HIDE DEF s
    <2>2. First(s, Len(s)) = Number(s) /\ Len(s) \in 0 .. Len(s)
        BY <2>1, FirstAll
    <2>3. First(s, Len(s)) \in Nat
        BY <2>1, <2>2, FirstIsNat
    <2> QED BY <2>2, <2>3 DEF s
<1>6. hex \in [1 .. 1 + q -> Nat] /\ \A i \in 1 .. 1 + q : hex[i] = Number(chunks[i])
    BY <1>2, <1>5
<1> HIDE DEF hex
<1>7. hex \in Seq(Nat) /\ Len(hex) = 1 + q
    <2>1. 1 + q \in Nat
        BY <1>1
    <2> QED BY <1>6, <2>1
<1>8. hex[1] = First(bits, r)
    <2>1. 1 \in 1 .. 1 + q
        BY <1>1
    <2> QED BY <1>3, <1>6, <2>1 DEF First
<1>9. ASSUME NEW i \in 1 .. q
      PROVE  hex[i + 1] = Number(SubSeq(bits, (r + 4 * (i - 1)) + 1, (r + 4 * (i - 1)) + 4))
    <2>1. i + 1 \in 1 .. 1 + q /\ r + 4 * i - 3 = (r + 4 * (i - 1)) + 1 /\ r + 4 * i = (r + 4 * (i - 1)) + 4
        BY <1>1
    <2> QED BY <1>3, <1>6, <2>1, Zenon
<1> QED BY <1>4, <1>7, <1>8, <1>9 DEF r, q, n

\* The number that the first of them are.
Leads(t, hex, k) == Len(t) = k /\ \A i \in 1 .. k : t[i] = hex[i]

LEMMA DigitsBegin ==
    ASSUME NEW bits \in Seq(Bit), Len(bits) \in {18, 27, 54},
           NEW k \in 1 .. 1 + (Len(bits) \div 4),
           NEW t, Leads(t, Bin2Hex(bits).hex, k)
    PROVE  HexNumber(t) = First(bits, (Len(bits) % 4) + 4 * (k - 1))
<1> DEFINE n == Len(bits)
           r == n % 4
           q == n \div 4
           hex == Bin2Hex(bits).hex
           h == [i \in 0 .. k |-> IF i = 0 THEN 0 ELSE First(bits, r + 4 * (i - 1))]
<1>1. n = 4 * q + r /\ r \in {2, 3} /\ q \in Nat /\ n \in Nat /\ n = Len(bits)
    <2> DEFINE c == n
    <2>2. c \in {18, 27, 54} /\ c = n /\ c = Len(bits)
        OBVIOUS
    <2> HIDE DEF c
    <2>3. c = 4 * (c \div 4) + (c % 4) /\ c % 4 \in {2, 3} /\ c \div 4 \in Nat /\ c \in Nat
        BY <2>2, Fours
    <2> QED BY <2>2, <2>3 DEF c
<1>2. /\ hex[1] = First(bits, r)
      /\ \A i \in 1 .. q : hex[i + 1] = Number(SubSeq(bits, (r + 4 * (i - 1)) + 1, (r + 4 * (i - 1)) + 4))
    BY HexDigits
<1>3. k \in 1 .. 1 + q /\ Len(t) = k /\ \A i \in 1 .. k : t[i] = hex[i]
    BY DEF Leads
<1> HIDE DEF n, r, q, hex
<1>4. k \in Nat /\ k >= 1
    BY <1>1, <1>3
<1>5. h[0] = 0 /\ \A i \in 1 .. k : h[i] = First(bits, r + 4 * (i - 1))
    BY <1>4
<1> HIDE DEF h
<1>6. ASSUME NEW i \in 1 .. k PROVE h[i] = 16 * h[i - 1] + t[i]
    <2>1. CASE i = 1
        <3>1. h[1] = First(bits, r) /\ i - 1 = 0
            <4>1. r + 4 * (1 - 1) = r /\ 1 \in 1 .. k
                BY <1>1, <1>4
            <4> QED BY <1>5, <4>1, <2>1
        <3>2. First(bits, r) \in Nat
            <4>1. r \in 0 .. Len(bits)
                BY <1>1
            <4> QED BY <4>1, FirstIsNat
        <3> QED BY <1>2, <1>3, <1>5, <2>1, <3>1, <3>2
    <2>2. CASE i # 1
        <3> DEFINE j == i - 1
                   m == r + 4 * (j - 1)
        <3>1. j \in 1 .. q /\ j \in 1 .. k /\ i = j + 1 /\ m \in Nat /\ m + 4 <= Len(bits) /\ r + 4 * (i - 1) = m + 4
            BY <1>1, <1>3, <1>4, <2>2
        <3>2. h[i] = First(bits, m + 4) /\ h[i - 1] = First(bits, m)
            BY <1>5, <3>1
        <3>3. t[i] = Number(SubSeq(bits, m + 1, m + 4))
            BY <1>2, <1>3, <3>1
        <3> HIDE DEF m, j
        <3>4. First(bits, m + 4) = Power[4] * First(bits, m) + Number(SubSeq(bits, m + 1, m + 4))
            <4>1. 4 \in 0 .. 30
                OBVIOUS
            <4> QED BY <3>1, <4>1, FirstSplits
        <3> QED BY <3>2, <3>3, <3>4, SmallPowers
    <2> QED BY <2>1, <2>2
<1>7. HexNumber(t) = h[Len(t)]
    <2>1. Sixteens(h, t)
        BY <1>3, <1>5, <1>6 DEF Sixteens
    <2> QED BY <1>4, <2>1, HexNumberIs
<1> QED BY <1>3, <1>4, <1>5, <1>7 DEF n, r

LEMMA NineBits ==
    ASSUME NEW s \in Seq(Bit), Len(s) = 9
    PROVE  Number(s) \in 0 .. 511 /\ Padded(Number(s), 9) = s
<1>1. Padded(Number(s), 9) = s
    <2>1. Len(s) \in 1 .. 27
        OBVIOUS
    <2> QED BY <2>1, PaddedNumber
<1>2. Number(s) \in 0 .. 511
    <2>1. 9 \in 0 .. 30 /\ 9 <= Len(s)
        OBVIOUS
    <2>2. First(s, 9) \in Nat /\ First(s, 9) < Power[9]
        BY <2>1, FirstBound
    <2>3. First(s, Len(s)) = Number(s)
        BY FirstAll
    <2>4. Number(s) \in Nat /\ Number(s) < 512
        BY <2>2, <2>3, SmallPowers
    <2>5. \A v \in Nat : v < 512 => v \in 0 .. 511
        OBVIOUS
    <2> QED BY <2>4, <2>5
<1> QED BY <1>1, <1>2

\* The i-th nine bits.
Slice(bits, i) == SubSeq(bits, 9 * (i - 1) + 1, 9 * (i - 1) + 9)

LEMMA SliceIs ==
    ASSUME NEW bits \in Seq(Bit), NEW i \in Nat, i >= 1, 9 * i <= Len(bits)
    PROVE  /\ Slice(bits, i) \in Seq(Bit) /\ Len(Slice(bits, i)) = 9
           /\ \A j \in 1 .. 9 : Slice(bits, i)[j] = bits[9 * (i - 1) + j]
           /\ Number(Slice(bits, i)) \in 0 .. 511
           /\ Padded(Number(Slice(bits, i)), 9) = Slice(bits, i)
<1> DEFINE k == 9 * (i - 1)
<1>1. k \in Nat /\ k + 9 <= Len(bits) /\ 9 \in Nat
    OBVIOUS
<1> HIDE DEF k
<1>2. /\ SubSeq(bits, k + 1, k + 9) \in Seq(Bit) /\ Len(SubSeq(bits, k + 1, k + 9)) = 9
      /\ \A j \in 1 .. 9 : SubSeq(bits, k + 1, k + 9)[j] = bits[k + j]
    BY <1>1, Cut
<1> DEFINE s == Slice(bits, i)
<1>3. s \in Seq(Bit) /\ Len(s) = 9 /\ \A j \in 1 .. 9 : s[j] = bits[9 * (i - 1) + j]
    BY <1>2 DEF Slice, k
<1> HIDE DEF s
<1>4. Number(s) \in 0 .. 511 /\ Padded(Number(s), 9) = s
    BY <1>3, NineBits
<1> QED BY <1>3, <1>4 DEF s

\* A word of a number is nine of its bits.
LEMMA WordIs ==
    ASSUME NEW bits \in Seq(Bit), NEW k \in Nat, NEW s \in 0 .. 30, (k + 9) + s <= Len(bits),
           NEW t, HexNumber(t) = First(bits, (k + 9) + s)
    PROVE  Word(t, s) = Number(SubSeq(bits, k + 1, k + 9)) /\ Word(t, s) \in 0 .. 511
<1> DEFINE m == k + 9
           nine == SubSeq(bits, k + 1, k + 9)
           v == Number(nine)
           f == First(bits, m)
           e == First(bits, k)
           rest == SubSeq(bits, m + 1, m + s)
           x == Number(rest)
           p == Power[s]
<1>1. k \in Nat /\ m \in Nat /\ m = k + 9 /\ s \in Nat /\ s <= 30 /\ m + s <= Len(bits) /\ m <= Len(bits)
      /\ k + 9 <= Len(bits) /\ 9 \in 0 .. 30 /\ 9 \in Nat
      /\ k \in 0 .. Len(bits) /\ m \in 0 .. Len(bits) /\ Len(bits) \in Nat
    OBVIOUS
<1>2. v \in 0 .. 511
    <2>1. nine \in Seq(Bit) /\ Len(nine) = 9
        BY <1>1, Cut
    <2> HIDE DEF nine
    <2> QED BY <2>1, NineBits
<1>4. HexNumber(t) = First(bits, m + s)
    OBVIOUS
<1>5. f = Power[9] * e + v
    <2>1. First(bits, k + 9) = Power[9] * First(bits, k) + Number(SubSeq(bits, k + 1, k + 9))
        BY <1>1, FirstSplits
    <2> QED BY <2>1
<1> HIDE DEF m, v, nine
<1>6. First(bits, m + s) = p * f + x
    BY <1>1, FirstSplits
<1>7. x \in Nat /\ x < p
    <2>1. rest \in Seq(Bit) /\ Len(rest) = s
        BY <1>1, Cut
    <2> HIDE DEF rest
    <2>2. First(rest, s) = Number(rest)
        BY <2>1, FirstAll
    <2>3. s \in 0 .. 30 /\ s <= Len(rest)
        BY <1>1, <2>1
    <2>4. First(rest, s) \in Nat /\ First(rest, s) < Power[s]
        BY <2>1, <2>3, FirstBound
    <2> QED BY <2>2, <2>4
<1>8. p \in Nat \ {0} /\ 2^s = p
    BY PowerTable
<1>9. f \in Nat /\ e \in Nat
    BY <1>1, FirstIsNat
<1> DEFINE N == HexNumber(t)
<1>10. N = p * f + x
    BY <1>4, <1>6
<1> HIDE DEF f, e, x, p, N
<1>11. N \div p = f
    <2>1. N \in Nat
        <3>1. p * f \in Nat
            BY <1>8, <1>9
        <3> QED BY <1>7, <1>10, <3>1
    <2>2. x \in 0 .. p - 1
        BY <1>7, <1>8
    <2> QED BY <1>8, <1>9, <1>10, <2>1, <2>2, QuotientUnique
<1>12. f % 512 = v
    <2>1. f = 512 * e + v
        BY <1>5, SmallPowers DEF f
    <2> QED BY <1>2, <1>9, <2>1
<1>13. Word(t, s) = (N \div p) % 512
    <2>1. 2^9 = 512
        BY SMT
    <2> QED BY <1>8, <2>1 DEF Word, N
<1> QED BY <1>2, <1>11, <1>12, <1>13 DEF v, nine

Nine(bits, k) == Number(SubSeq(bits, k + 1, k + 9))
Cuts(bits, k, s, m) == k \in Nat /\ s \in 0 .. 30 /\ m = (k + 9) + s /\ m <= Len(bits)

LEMMA WordAt ==
    ASSUME NEW bits \in Seq(Bit), NEW k, NEW s, NEW m, Cuts(bits, k, s, m),
           NEW t, HexNumber(t) = First(bits, m)
    PROVE  Word(t, s) = Nine(bits, k) /\ Word(t, s) \in 0 .. 511
BY WordIs, Zenon DEF Cuts, Nine

LEMMA NumberOfZeros ==
    ASSUME NEW s \in Seq(Bit), \A i \in 1 .. Len(s) : s[i] = 0 PROVE Number(s) = 0
<1> DEFINE h == [i \in 0 .. Len(s) |-> 0]
<1>1. Len(s) \in Nat
    OBVIOUS
<1>2. h[0] = 0 /\ h[Len(s)] = 0 /\ \A i \in 1 .. Len(s) : h[i] = 0 /\ h[i - 1] = 0
    BY <1>1
<1> HIDE DEF h
<1>3. \A i \in 1 .. Len(s) : h[i] = 2 * h[i - 1] + s[i]
    BY <1>2
<1>4. Number(s) = h[Len(s)]
    BY <1>2, <1>3, NumberIs
<1> QED BY <1>2, <1>4

\* Where a word is that is sent, and where the machine looks for it.
Order == <<1, 0, 2, 4, 3, 5>>
Holds(words, bits) ==
    \A i \in 1 .. Len(bits) \div 9 : words[Order[i] + 1] = Number(Slice(bits, i))

LEMMA SlicesAre ==
    ASSUME NEW bits
    PROVE  /\ Number(Slice(bits, 1)) = Nine(bits, 0) /\ Number(Slice(bits, 2)) = Nine(bits, 9)
           /\ Number(Slice(bits, 3)) = Nine(bits, 18) /\ Number(Slice(bits, 4)) = Nine(bits, 27)
           /\ Number(Slice(bits, 5)) = Nine(bits, 36) /\ Number(Slice(bits, 6)) = Nine(bits, 45)
<1>1. /\ 9 * (1 - 1) = 0 /\ 9 * (2 - 1) = 9 /\ 9 * (3 - 1) = 18 /\ 9 * (4 - 1) = 27 /\ 9 * (5 - 1) = 36
      /\ 9 * (6 - 1) = 45
    OBVIOUS
<1> QED BY <1>1 DEF Slice, Nine

LEMMA OrderIs ==
    /\ Order[1] + 1 = 2 /\ Order[2] + 1 = 1 /\ Order[3] + 1 = 3 /\ Order[4] + 1 = 5 /\ Order[5] + 1 = 4
    /\ Order[6] + 1 = 6
    /\ \A i \in 1 .. 6 : Order[i] \in 0 .. 5
BY DEF Order

LEMMA TwoWords ==
    ASSUME NEW bits \in Seq(Bit), Len(bits) = 18
    PROVE  /\ Holds(Words(Bin2Hex(bits).hex), bits)
           /\ Words(Bin2Hex(bits).hex) \in Seq(0 .. 511) /\ Len(Words(Bin2Hex(bits).hex)) = 2
<1> DEFINE hex == Bin2Hex(bits).hex
           a == Word(hex, 0)
           b == Word(hex, 9)
<1>1. 18 % 4 = 2 /\ 18 \div 4 = 4 /\ 18 \div 9 = 2
    OBVIOUS
<1>2. Len(hex) = 5
    <2>1. Len(hex) = 1 + (18 \div 4)
        BY HexDigits
    <2> QED BY <1>1, <2>1
<1>3. Words(hex) = <<a, b>>
    BY <1>2 DEF Words
<1> HIDE DEF hex
<1>4. HexNumber(hex) = First(bits, 18)
    <2>1. 5 \in 1 .. 1 + (Len(bits) \div 4) /\ (Len(bits) % 4) + 4 * (5 - 1) = 18
        BY <1>1
    <2>2. Leads(hex, Bin2Hex(bits).hex, 5)
        BY <1>2 DEF Leads, hex
    <2> QED BY <2>1, <2>2, DigitsBegin
<1>5. a = Number(Slice(bits, 2)) /\ a \in 0 .. 511
    <2>1. Cuts(bits, 9, 0, 18)
        BY DEF Cuts
    <2> QED BY <1>4, <2>1, WordAt, SlicesAre
<1>6. b = Number(Slice(bits, 1)) /\ b \in 0 .. 511
    <2>1. Cuts(bits, 0, 9, 18)
        BY DEF Cuts
    <2> QED BY <1>4, <2>1, WordAt, SlicesAre
<1> HIDE DEF a, b
<1> DEFINE u == <<a, b>>
<1>7. u[1] = a /\ u[2] = b /\ u \in Seq(0 .. 511) /\ Len(u) = 2
    BY <1>5, <1>6
<1> HIDE DEF u
<1>8. Holds(u, bits)
    <2>1. \A i \in 1 .. Len(bits) \div 9 : i = 1 \/ i = 2
        BY <1>1
    <2> QED BY <1>5, <1>6, <1>7, <2>1, OrderIs DEF Holds
<1> QED BY <1>3, <1>7, <1>8 DEF u, hex

LEMMA ThreeWords ==
    ASSUME NEW bits \in Seq(Bit), Len(bits) = 27
    PROVE  /\ Holds(Words(Bin2Hex(bits).hex), bits)
           /\ Words(Bin2Hex(bits).hex) \in Seq(0 .. 511) /\ Len(Words(Bin2Hex(bits).hex)) = 3
<1> DEFINE hex == Bin2Hex(bits).hex
           a == Word(hex, 9)
           b == Word(hex, 18)
           c == Word(hex, 0)
<1>1. 27 % 4 = 3 /\ 27 \div 4 = 6 /\ 27 \div 9 = 3
    OBVIOUS
<1>2. Len(hex) = 7
    <2>1. Len(hex) = 1 + (27 \div 4)
        BY HexDigits
    <2> QED BY <1>1, <2>1
<1>3. Words(hex) = <<a, b, c>>
    BY <1>2 DEF Words
<1> HIDE DEF hex
<1>4. HexNumber(hex) = First(bits, 27)
    <2>1. 7 \in 1 .. 1 + (Len(bits) \div 4) /\ (Len(bits) % 4) + 4 * (7 - 1) = 27
        BY <1>1
    <2>2. Leads(hex, Bin2Hex(bits).hex, 7)
        BY <1>2 DEF Leads, hex
    <2> QED BY <2>1, <2>2, DigitsBegin
<1>5. a = Number(Slice(bits, 2)) /\ a \in 0 .. 511
    <2>1. Cuts(bits, 9, 9, 27)
        BY DEF Cuts
    <2> QED BY <1>4, <2>1, WordAt, SlicesAre
<1>6. b = Number(Slice(bits, 1)) /\ b \in 0 .. 511
    <2>1. Cuts(bits, 0, 18, 27)
        BY DEF Cuts
    <2> QED BY <1>4, <2>1, WordAt, SlicesAre
<1>9. c = Number(Slice(bits, 3)) /\ c \in 0 .. 511
    <2>1. Cuts(bits, 18, 0, 27)
        BY DEF Cuts
    <2> QED BY <1>4, <2>1, WordAt, SlicesAre
<1> HIDE DEF a, b, c
<1> DEFINE u == <<a, b, c>>
<1>7. u[1] = a /\ u[2] = b /\ u[3] = c /\ u \in Seq(0 .. 511) /\ Len(u) = 3
    BY <1>5, <1>6, <1>9
<1> HIDE DEF u
<1>8. Holds(u, bits)
    <2>1. \A i \in 1 .. Len(bits) \div 9 : i = 1 \/ i = 2 \/ i = 3
        BY <1>1
    <2> QED BY <1>5, <1>6, <1>7, <1>9, <2>1, OrderIs DEF Holds
<1> QED BY <1>3, <1>7, <1>8 DEF u, hex

\* The longest instructions with the least arguments.
Ends(bits) == \A p \in 18 .. 54 : bits[p] = 0

LEMMA SixWords ==
    ASSUME NEW bits \in Seq(Bit), Len(bits) = 54, Ends(bits)
    PROVE  /\ Holds(Words(Bin2Hex(bits).hex), bits)
           /\ Words(Bin2Hex(bits).hex) \in Seq(0 .. 511) /\ Len(Words(Bin2Hex(bits).hex)) = 6
<1> DEFINE hex == Bin2Hex(bits).hex
           first == SubSeq(hex, 1, 7)
           rest == SubSeq(hex, 8, 14)
           a == Word(first, 8)
           b == Word(first, 17)
           c == Word(first, 0)
           d == Word(rest, 8)
           e == Word(rest, 17)
           f == Word(rest, 0)
<1>1. 54 % 4 = 2 /\ 54 \div 4 = 13 /\ 54 \div 9 = 6
    OBVIOUS
<1>2. /\ Len(hex) = 14 /\ hex \in Seq(Nat)
      /\ \A i \in 1 .. 13 : hex[i + 1] = Number(SubSeq(bits, (2 + 4 * (i - 1)) + 1, (2 + 4 * (i - 1)) + 4))
    <2>1. /\ Len(hex) = 1 + (54 \div 4) /\ hex \in Seq(Nat)
          /\ \A i \in 1 .. 54 \div 4 :
               hex[i + 1] = Number(SubSeq(bits, ((54 % 4) + 4 * (i - 1)) + 1, ((54 % 4) + 4 * (i - 1)) + 4))
        BY HexDigits
    <2> QED BY <1>1, <2>1
<1>3. Words(hex) = <<a, b, c, d, e, f>>
    BY <1>2 DEF Words
<1> HIDE DEF hex
<1>4. Len(first) = 7 /\ \A i \in 1 .. 7 : first[i] = hex[i]
    <2>1. 1 \in 1 .. Len(hex) + 1 /\ 7 \in 1 - 1 .. Len(hex) /\ 7 - 1 + 1 = 7
          /\ \A i \in 1 .. 7 : 1 + i - 1 = i
        BY <1>2
    <2>2. Len(first) = 7 - 1 + 1 /\ \A i \in 1 .. 7 - 1 + 1 : first[i] = hex[1 + i - 1]
        BY <1>2, <2>1, SubSeqProperties
    <2> HIDE DEF first
    <2> QED BY <2>1, <2>2
<1>5. Len(rest) = 7 /\ \A i \in 1 .. 7 : rest[i] = hex[(6 + i) + 1]
    <2>1. 8 \in 1 .. Len(hex) + 1 /\ 14 \in 8 - 1 .. Len(hex) /\ 14 - 8 + 1 = 7
          /\ \A i \in 1 .. 7 : 8 + i - 1 = (6 + i) + 1
        BY <1>2
    <2>2. Len(rest) = 14 - 8 + 1 /\ \A i \in 1 .. 14 - 8 + 1 : rest[i] = hex[8 + i - 1]
        BY <1>2, <2>1, SubSeqProperties
    <2> HIDE DEF rest
    <2> QED BY <2>1, <2>2
<1> HIDE DEF first, rest
\* Bits from there on are none.
<1>6. ASSUME NEW k \in 17 .. 53, NEW n \in 1 .. 9, k + n <= 54
      PROVE  Number(SubSeq(bits, k + 1, k + n)) = 0
    <2>1. k \in Nat /\ n \in Nat /\ k + n <= 54 /\ \A i \in 1 .. n : k + i \in 18 .. 54
        BY <1>6
    <2> DEFINE s == SubSeq(bits, k + 1, k + n)
    <2>2. s \in Seq(Bit) /\ Len(s) = n /\ \A i \in 1 .. n : s[i] = bits[k + i]
        BY <2>1, Cut
    <2> HIDE DEF s
    <2>3. \A i \in 1 .. Len(s) : s[i] = 0
        BY <2>1, <2>2 DEF Ends
    <2>4. Number(s) = 0
        BY <2>2, <2>3, NumberOfZeros
    <2> QED BY <2>4 DEF s
<1>7. HexNumber(first) = First(bits, 26)
    <2>1. 7 \in 1 .. 1 + (Len(bits) \div 4) /\ (Len(bits) % 4) + 4 * (7 - 1) = 26
        BY <1>1
    <2>2. Leads(first, Bin2Hex(bits).hex, 7)
        BY <1>4 DEF Leads, hex
    <2> QED BY <2>1, <2>2, DigitsBegin
<1>8. HexNumber(rest) = 0
    <2>1. ASSUME NEW i \in 1 .. 7 PROVE rest[i] = 0
        <3> DEFINE k == 2 + 4 * ((6 + i) - 1)
        <3>1. k \in 17 .. 53 /\ 4 \in 1 .. 9 /\ k + 4 <= 54 /\ 6 + i \in 1 .. 13
            OBVIOUS
        <3>2. rest[i] = Number(SubSeq(bits, k + 1, k + 4))
            BY <1>2, <1>5, <3>1
        <3> HIDE DEF k
        <3> QED BY <1>6, <3>1, <3>2
    <2> DEFINE h == [i \in 0 .. 7 |-> 0]
    <2>2. h[0] = 0 /\ h[7] = 0 /\ \A i \in 1 .. 7 : h[i] = 0 /\ h[i - 1] = 0
        OBVIOUS
    <2> HIDE DEF h
    <2>3. Sixteens(h, rest)
        BY <1>5, <2>1, <2>2 DEF Sixteens
    <2>5. Len(rest) \in Nat
        BY <1>5
    <2>4. HexNumber(rest) = h[Len(rest)]
        BY <2>3, <2>5, HexNumberIs
    <2> QED BY <1>5, <2>2, <2>4
<1>9. a = Number(Slice(bits, 2)) /\ a \in 0 .. 511
    <2>1. Cuts(bits, 9, 8, 26)
        BY DEF Cuts
    <2> QED BY <1>7, <2>1, WordAt, SlicesAre
<1>10. b = Number(Slice(bits, 1)) /\ b \in 0 .. 511
    <2>1. Cuts(bits, 0, 17, 26)
        BY DEF Cuts
    <2> QED BY <1>7, <2>1, WordAt, SlicesAre
<1>11. c = 0
    <2>1. Cuts(bits, 17, 0, 26)
        BY DEF Cuts
    <2>2. c = Nine(bits, 17)
        BY <1>7, <2>1, WordAt
    <2>3. 17 \in 17 .. 53 /\ 9 \in 1 .. 9 /\ 17 + 9 <= 54
        OBVIOUS
    <2>4. Number(SubSeq(bits, 17 + 1, 17 + 9)) = 0
        BY <1>6, <2>3
    <2> QED BY <2>2, <2>4 DEF Nine
<1>12. d = 0 /\ e = 0 /\ f = 0
    <2>1. (0 \div 2^8) % 2^9 = 0 /\ (0 \div 2^17) % 2^9 = 0 /\ (0 \div 2^0) % 2^9 = 0
        BY SMT
    <2> QED BY <1>8, <2>1 DEF Word
<1>13. /\ Number(Slice(bits, 3)) = 0 /\ Number(Slice(bits, 4)) = 0 /\ Number(Slice(bits, 5)) = 0
       /\ Number(Slice(bits, 6)) = 0
    <2>1. /\ 18 \in 17 .. 53 /\ 27 \in 17 .. 53 /\ 36 \in 17 .. 53 /\ 45 \in 17 .. 53 /\ 9 \in 1 .. 9
          /\ 18 + 9 <= 54 /\ 27 + 9 <= 54 /\ 36 + 9 <= 54 /\ 45 + 9 <= 54
        OBVIOUS
    <2>2. /\ Nine(bits, 18) = 0 /\ Nine(bits, 27) = 0 /\ Nine(bits, 36) = 0 /\ Nine(bits, 45) = 0
        BY <1>6, <2>1 DEF Nine
    <2> QED BY <2>2, SlicesAre
<1> HIDE DEF a, b, c, d, e, f
<1> DEFINE u == <<a, b, c, d, e, f>>
<1>14. /\ u[1] = a /\ u[2] = b /\ u[3] = c /\ u[4] = d /\ u[5] = e /\ u[6] = f
       /\ u \in Seq(0 .. 511) /\ Len(u) = 6
    BY <1>9, <1>10, <1>11, <1>12
<1> HIDE DEF u
<1>15. Holds(u, bits)
    <2>1. \A i \in 1 .. Len(bits) \div 9 : i = 1 \/ i = 2 \/ i = 3 \/ i = 4 \/ i = 5 \/ i = 6
        BY <1>1
    <2> QED BY <1>9, <1>10, <1>11, <1>12, <1>13, <1>14, <2>1, OrderIs DEF Holds
<1> QED BY <1>3, <1>14, <1>15 DEF u, hex

-----------------------------------------------------------------------------
(* What the machine fetches.                                                 *)

\* The words of a page, one instruction behind the other.
Worded(hex) == Words(hex) \in Seq(0 .. 511) /\ Len(Words(hex)) = Weight(hex)
LiesIn(sc, g, program, k) ==
    \A j \in 1 .. Weight(program[k]) :
        g[k - 1] + j <= PageSize /\ sc[g[k - 1] + j] = Words(program[k])[j]

LEMMA PageIs ==
    ASSUME NEW S, NEW program \in Seq(S), \A i \in 1 .. Len(program) : Worded(program[i]),
           NEW g, NEW n \in Nat, Places(g, program, n), n <= PageSize
    PROVE  /\ MakeSc(program) \in Seq(0 .. 511) /\ Len(MakeSc(program)) = PageSize
           /\ \A k \in 1 .. Len(program) : LiesIn(MakeSc(program), g, program, k)
<1> DEFINE W == 0 .. 511
           seqs == [i \in DOMAIN program |-> Words(program[i])]
           sc == FlattenSeq(seqs)
           fill == [i \in 1 .. PageSize - Len(sc) |-> 0]
<1>1. DOMAIN program = 1 .. Len(program) /\ Len(program) \in Nat
    OBVIOUS
<1>2. \A i \in 1 .. Len(program) : Words(program[i]) \in Seq(W) /\ Len(Words(program[i])) = Weight(program[i])
    BY DEF Worded
<1>3. MakeSc(program) = sc \o fill
    BY DEF MakeSc
<1> HIDE DEF W
<1>4. seqs \in [1 .. Len(program) -> Seq(W)] /\ \A i \in 1 .. Len(program) : seqs[i] = Words(program[i])
    BY <1>1, <1>2
<1> HIDE DEF seqs
<1>5. seqs \in Seq(Seq(W)) /\ Len(seqs) = Len(program)
    BY <1>1, <1>4
<1>6. Begins(g, seqs)
    BY <1>2, <1>4, <1>5 DEF Places, Begins
<1>7. Len(sc) = n /\ \A i \in 1 .. Len(seqs) : LiesThere(g, seqs, sc, i)
    BY <1>5, <1>6, FlattenPlaces DEF Places
<1>8. sc \in Seq(W)
    BY <1>5, FlattenType
<1> HIDE DEF sc
<1>9. PageSize - n \in Nat /\ PageSize \in Nat
    BY DEF PageSize
<1>10. fill \in Seq(W) /\ Len(fill) = PageSize - n
    <2>1. 0 \in W
        BY DEF W
    <2> QED BY <1>7, <1>9, <2>1
<1> HIDE DEF fill
<1>11. /\ sc \o fill \in Seq(W) /\ Len(sc \o fill) = Len(sc) + Len(fill)
       /\ \A i \in 1 .. Len(sc) + Len(fill) : (sc \o fill)[i] = IF i <= Len(sc) THEN sc[i] ELSE fill[i - Len(sc)]
    BY <1>8, <1>10, ConcatProperties
<1>12. ASSUME NEW k \in 1 .. Len(program), NEW j \in 1 .. Weight(program[k])
       PROVE  g[k - 1] + j <= PageSize /\ (sc \o fill)[g[k - 1] + j] = Words(program[k])[j]
    <2>1. LiesThere(g, seqs, sc, k) /\ seqs[k] = Words(program[k]) /\ Len(seqs[k]) = Weight(program[k])
        BY <1>2, <1>4, <1>5, <1>7
    <2> DEFINE p == g[k - 1] + j
    <2>2. p \in 1 .. Len(sc) /\ sc[p] = Words(program[k])[j]
        BY <2>1 DEF LiesThere
    <2> HIDE DEF p
    <2>3. p \in 1 .. Len(sc) + Len(fill) /\ p <= Len(sc)
        BY <1>7, <1>9, <1>10, <2>2
    <2>4. (sc \o fill)[p] = sc[p]
        BY <1>11, <2>3
    <2>5. p <= PageSize
        BY <1>7, <1>9, <2>2
    <2> QED BY <2>2, <2>4, <2>5 DEF p
<1>13. Len(sc \o fill) = PageSize
    BY <1>7, <1>9, <1>10, <1>11
<1> QED BY <1>3, <1>11, <1>12, <1>13 DEF LiesIn, W

Coded(sc) == sc \in Seq(0 .. 511) /\ Len(sc) = PageSize

LEMMA CodeWords ==
    ASSUME Coded(machine.code)
    PROVE  /\ \A i \in Nat : CodeWord(i) \in 0 .. 511
           /\ \A i \in 0 .. PageSize - 1 : CodeWord(i) = machine.code[i + 1]
<1> DEFINE sc == machine.code
           W == 0 .. 511
<1>1. sc \in Seq(W) /\ Len(sc) = 54 /\ PageSize = 54
    BY DEF Coded, PageSize
<1>2. \A i : CodeWord(i) = IF i < Len(sc) THEN sc[i + 1] ELSE 0
    BY DEF CodeWord
<1>5. 0 \in W
    OBVIOUS
<1> HIDE DEF sc, W
<1>3. \A i \in 1 .. 54 : sc[i] \in W
    BY <1>1, ElementOfSeq
<1>4. ASSUME NEW i \in Nat PROVE CodeWord(i) \in W
    <2>1. i < 54 => i + 1 \in 1 .. 54
        OBVIOUS
    <2> QED BY <1>1, <1>2, <1>3, <1>5, <2>1
<1>6. ASSUME NEW i \in 0 .. 53 PROVE CodeWord(i) = sc[i + 1]
    <2>1. i < 54
        OBVIOUS
    <2> QED BY <1>1, <1>2, <2>1
<1>7. 0 .. PageSize - 1 = 0 .. 53
    BY <1>1
<1> QED BY <1>4, <1>6, <1>7 DEF sc, W

LEMMA BitsOfWord ==
    ASSUME NEW w \in 0 .. 511
    PROVE  BitsOf[w] = Padded(w, 9) /\ BitsOf[w] \in Seq(Bit) /\ Len(BitsOf[w]) = 9
<1>1. 2^9 - 1 = 511
    BY SMT
<1>2. BitsOf = [word \in 0 .. 511 |-> Padded(word, 9)]
    BY <1>1 DEF BitsOf
<1>3. BitsOf[w] = Padded(w, 9)
    BY <1>2
<1>4. w \in Small
    BY SMT DEF Small
<1>5. 9 \in Nat
    OBVIOUS
<1> QED BY <1>3, <1>4, <1>5, PaddedIs

LEMMA FetchedIs ==
    ASSUME Coded(machine.code), NEW pc \in Nat
    PROVE  /\ Fetched(pc) \in Seq(Bit) /\ Len(Fetched(pc)) = 54
           /\ \A i \in 1 .. 6, j \in 1 .. 9 :
                Fetched(pc)[9 * (i - 1) + j] = BitsOf[CodeWord(pc + Order[i])][j]
<1> DEFINE seqs == [i \in 1 .. 6 |-> BitsOf[CodeWord(pc + Order[i])]]
           g == [i \in 0 .. 6 |-> 9 * i]
           b == FlattenSeq(seqs)
<1>1. Fetched(pc) = b
    BY DEF Fetched, Order
<1>2. ASSUME NEW i \in 1 .. 6 PROVE seqs[i] \in Seq(Bit) /\ Len(seqs[i]) = 9 /\ seqs[i] = BitsOf[CodeWord(pc + Order[i])]
    <2>1. Order[i] \in 0 .. 5
        BY OrderIs
    <2>2. pc + Order[i] \in Nat
        BY <2>1
    <2>3. CodeWord(pc + Order[i]) \in 0 .. 511
        BY <2>2, CodeWords
    <2> QED BY <2>3, BitsOfWord
<1>3. seqs \in [1 .. 6 -> Seq(Bit)]
    BY <1>2
<1> HIDE DEF seqs
<1>4. seqs \in Seq(Seq(Bit)) /\ Len(seqs) = 6
    <2>1. 6 \in Nat /\ DOMAIN seqs = 1 .. 6 /\ seqs = [i \in 1 .. 6 |-> seqs[i]]
        BY <1>3
    <2> QED BY <1>2, <2>1, FunctionIsSeq
<1>5. g[0] = 0 /\ g[6] = 54 /\ \A i \in 1 .. 6 : g[i] = g[i - 1] + 9 /\ g[i - 1] = 9 * (i - 1)
    OBVIOUS
<1> HIDE DEF g
<1>6. Begins(g, seqs)
    BY <1>2, <1>4, <1>5 DEF Begins
<1>7. Len(b) = g[6] /\ \A i \in 1 .. 6 : LiesThere(g, seqs, b, i)
    BY <1>4, <1>6, FlattenPlaces
<1>8. b \in Seq(Bit)
    BY <1>4, FlattenType
<1> HIDE DEF b
<1>9. ASSUME NEW i \in 1 .. 6, NEW j \in 1 .. 9 PROVE b[9 * (i - 1) + j] = BitsOf[CodeWord(pc + Order[i])][j]
    <2>1. LiesThere(g, seqs, b, i) /\ Len(seqs[i]) = 9 /\ g[i - 1] = 9 * (i - 1)
        BY <1>2, <1>5, <1>7
    <2>2. b[g[i - 1] + j] = seqs[i][j]
        BY <2>1 DEF LiesThere
    <2> QED BY <1>2, <2>1, <2>2
<1> QED BY <1>1, <1>5, <1>7, <1>8, <1>9

\* One sequence of bits is how another begins.
Heads(b, bits) ==
    /\ b \in Seq(Bit) /\ Len(bits) <= Len(b)
    /\ \A p \in 1 .. Len(bits) : b[p] = bits[p]

Fetches(pc, bits, i) ==
    /\ CodeWord(pc + Order[i]) \in 0 .. 511 /\ BitsOf[CodeWord(pc + Order[i])] = Slice(bits, i)
    /\ \A j \in 1 .. 9 : Slice(bits, i)[j] = bits[9 * (i - 1) + j]

\* Where words lie in its code.
WordsAt(words, w, pc) == pc + w <= PageSize /\ \A j \in 1 .. w : machine.code[pc + j] = words[j]

\* That the machine fetches those bits.
Found(pc, bits) ==
    /\ Heads(Fetched(pc), bits) /\ Len(Fetched(pc)) = 54
    /\ Heads(bits, BitsOf[CodeWord(pc + 1)]) /\ CodeWord(pc + 1) \in 0 .. 511

\* The machine fetches an instruction from where it lies.
LEMMA FetchedCall ==
    ASSUME Coded(machine.code), NEW bits \in Seq(Bit), NEW w, w \in {2, 3, 6}, Len(bits) = 9 * w,
           NEW words, Holds(words, bits),
           NEW pc \in Nat, WordsAt(words, w, pc)
    PROVE  Found(pc, bits)
<1> DEFINE b == Fetched(pc)
<1>0. pc + w <= PageSize /\ \A j \in 1 .. w : machine.code[pc + j] = words[j]
    BY DEF WordsAt
<1>1. b \in Seq(Bit) /\ Len(b) = 54
      /\ \A i \in 1 .. 6, j \in 1 .. 9 : b[9 * (i - 1) + j] = BitsOf[CodeWord(pc + Order[i])][j]
    BY FetchedIs
<1> HIDE DEF b
<1>2. w \in Nat /\ Len(bits) \div 9 = w /\ w <= 6 /\ w >= 2
    <2>1. 18 \div 9 = 2 /\ 27 \div 9 = 3 /\ 54 \div 9 = 6
        OBVIOUS
    <2> QED BY <2>1
<1>3. ASSUME NEW i \in 1 .. w
      PROVE  Fetches(pc, bits, i)
    <2> DEFINE o == Order[i]
               s == Slice(bits, i)
               k == pc + o
    <2>1. o \in 0 .. 5 /\ o + 1 \in 1 .. w
        BY <1>2, OrderIs
    <2>2. words[o + 1] = Number(s)
        BY <1>2 DEF Holds
    <2>3. s \in Seq(Bit) /\ Number(s) \in 0 .. 511 /\ Padded(Number(s), 9) = s
          /\ \A j \in 1 .. 9 : s[j] = bits[9 * (i - 1) + j]
        <3>1. i \in Nat /\ i >= 1 /\ 9 * i <= Len(bits)
            BY <1>2
        <3> QED BY <3>1, SliceIs
    <2>4. k \in 0 .. PageSize - 1 /\ k + 1 = pc + (o + 1)
        <3>1. PageSize = 54
            BY DEF PageSize
        <3> HIDE DEF o
        <3> QED BY <1>0, <1>2, <2>1, <3>1
    <2> HIDE DEF s
    <2>5. CodeWord(k) = machine.code[k + 1]
        <3> HIDE DEF k
        <3> QED BY <2>4, CodeWords
    <2>6. machine.code[pc + (o + 1)] = words[o + 1]
        <3> HIDE DEF o
        <3> QED BY <1>0, <2>1
    <2>7. CodeWord(k) = Number(s)
        BY <2>2, <2>4, <2>5, <2>6
    <2>8. BitsOf[CodeWord(k)] = s
        BY <2>3, <2>7, BitsOfWord
    <2> QED BY <2>3, <2>7, <2>8 DEF s, Fetches
<1>4. ASSUME NEW p \in 1 .. Len(bits) PROVE b[p] = bits[p]
    <2> DEFINE i == ((p - 1) \div 9) + 1
               j == ((p - 1) % 9) + 1
    <2>1. i \in 1 .. w /\ j \in 1 .. 9 /\ p = 9 * (i - 1) + j
        <3> DEFINE c == p - 1
                   x == c \div 9
                   y == c % 9
        <3>1. c \in Nat /\ c < 9 * w /\ p = c + 1
            BY <1>2
        <3> HIDE DEF c
        <3>2. x \in Nat /\ y \in 0 .. 8 /\ c = 9 * x + y
            BY <3>1
        <3> HIDE DEF x, y
        <3>3. x + 1 \in 1 .. w /\ y + 1 \in 1 .. 9 /\ p = 9 * ((x + 1) - 1) + (y + 1)
            BY <1>2, <3>1, <3>2
        <3> QED BY <3>3 DEF x, y, c
    <2> HIDE DEF i, j
    <2>2. i \in 1 .. 6
        BY <1>2, <2>1
    <2>3. b[9 * (i - 1) + j] = BitsOf[CodeWord(pc + Order[i])][j]
        BY <1>1, <2>1, <2>2
    <2> QED BY <1>3, <2>1, <2>3 DEF Fetches
<1>5. Heads(b, bits)
    BY <1>1, <1>2, <1>4 DEF Heads
<1>6. Heads(bits, BitsOf[CodeWord(pc + 1)]) /\ CodeWord(pc + 1) \in 0 .. 511
    <2>1. 1 \in 1 .. w /\ Order[1] = 1 /\ \A j \in 1 .. 9 : 9 * (1 - 1) + j = j
        BY <1>2 DEF Order
    <2> DEFINE s == BitsOf[CodeWord(pc + 1)]
    <2>6. /\ BitsOf[CodeWord(pc + Order[1])] = Slice(bits, 1) /\ CodeWord(pc + Order[1]) \in 0 .. 511
          /\ \A j \in 1 .. 9 : Slice(bits, 1)[j] = bits[9 * (1 - 1) + j]
        <3>1. Fetches(pc, bits, 1)
            BY <1>3, <2>1
        <3> QED BY <3>1 DEF Fetches
    <2>2. s = Slice(bits, 1) /\ CodeWord(pc + 1) \in 0 .. 511
          /\ \A j \in 1 .. 9 : Slice(bits, 1)[j] = bits[9 * (1 - 1) + j]
        BY <2>1, <2>6
    <2>3. \A j \in 1 .. 9 : Slice(bits, 1)[j] = bits[j]
        BY <2>1, <2>2
    <2>4. Len(s) = 9
        BY <2>2, BitsOfWord
    <2> HIDE DEF s
    <2>7. 9 <= Len(bits)
        BY <1>2
    <2>8. \A j \in 1 .. 9 : s[j] = bits[j]
        BY <2>2, <2>3
    <2>5. Heads(bits, s)
        BY <2>4, <2>7, <2>8 DEF Heads
    <2> QED BY <2>2, <2>5 DEF s
<1> QED BY <1>1, <1>5, <1>6 DEF b, Found

-----------------------------------------------------------------------------
(* What the machine reads in an instruction.                                 *)

\* A part of bits that begin with those of an instruction.
LEMMA PartLies ==
    ASSUME NEW layout \in Seq(Parts), Named(layout),
           NEW args, \A i \in 1 .. Len(layout) : Takes(layout[i], args),
           NEW b, Heads(b, BitsOfLayout(layout, args)), NEW i \in 1 .. Len(layout), layout[i].kind # "fixed"
    PROVE  PartIn(layout, layout[i].name, b) = Number(PartBits(layout[i], args))
<1> DEFINE n == Len(layout)
           bits == BitsOfLayout(layout, args)
           k == Placed(layout, layout[i].name)
           w == layout[i].width
           p == PartBits(layout[i], args)
<1>1. Shaped(layout)
    BY PartsShaped
<1>2. PICK g : Widths(g, layout)
    BY <1>1, LaidOut
<1>3. n \in Nat /\ DOMAIN layout = 1 .. n /\ \A j \in 1 .. n : layout[j] \in Parts
    OBVIOUS
<1>4. /\ bits \in Seq(Bit) /\ g[i - 1] \in Nat
      /\ \A j \in 1 .. w : g[i - 1] + j \in 1 .. Len(bits) /\ bits[g[i - 1] + j] = p[j]
    BY <1>2, BitsPlaces
<1>5. b \in Seq(Bit) /\ Len(bits) <= Len(b) /\ \A j \in 1 .. Len(bits) : b[j] = bits[j]
    BY DEF Heads
<1>6. k = i
    <2>1. k \in 1 .. n /\ layout[k].name = layout[i].name
        BY <1>3 DEF Placed
    <2> HIDE DEF k
    <2>2. layout[k] \in Parts /\ layout[i] \in Parts
        BY <1>3, <2>1
    <2>3. layout[k].kind # "fixed"
        BY <2>1, <2>2, PartsAre
    <2> QED BY <2>1, <2>3 DEF Named
<1>7. p \in Seq(Bit) /\ Len(p) = w /\ w \in 1 .. 27
    BY <1>1, <1>3, PartIs DEF Shaped
<1> HIDE DEF bits, p, w
<1> DEFINE a == g[i - 1]
           s == SubSeq(b, a + 1, a + w)
<1>8. a \in Nat /\ w \in Nat /\ a + w <= Len(b) /\ w \in 1 .. w
    <2>3. \A x \in 1 .. 27 : x \in 1 .. x /\ x \in Nat
        OBVIOUS
    <2>1. w \in 1 .. w /\ w \in Nat
        BY <1>7, <2>3
    <2>2. a + w \in 1 .. Len(bits)
        BY <1>4, <2>1
    <2> HIDE DEF a
    <2> QED BY <1>4, <1>5, <2>1, <2>2 DEF a
<1>9. s \in Seq(Bit) /\ Len(s) = w /\ \A j \in 1 .. w : s[j] = b[a + j]
    <2> HIDE DEF a
    <2> QED BY <1>5, <1>8, Cut
<1>10. \A j \in 1 .. w : s[j] = p[j]
    <2> HIDE DEF s
    <2> QED BY <1>4, <1>5, <1>9
<1>11. s = p
    <2> HIDE DEF s
    <2> QED BY <1>7, <1>9, <1>10, SeqEqual
<1>12. PartIn(layout, layout[i].name, b)
         = Number(SubSeq(b, StartAt(layout)[k], StartAt(layout)[k] + layout[k].width - 1))
    BY PartInUnfolds
<1>13. StartAt(layout)[i] = a + 1
    BY <1>1, <1>2, StartsAre
<1>14. (a + 1) + w - 1 = a + w
    <2> HIDE DEF a
    <2> QED BY <1>8
<1> HIDE DEF a, k
<1>15. PartIn(layout, layout[i].name, b) = Number(SubSeq(b, a + 1, (a + 1) + w - 1))
    BY <1>6, <1>12, <1>13 DEF w
<1> QED BY <1>11, <1>14, <1>15 DEF p

\* What is read of a number, and of a condition.
Means(part, args, v) ==
    \/ part.kind = "condition" /\ v = Conditions[args.Condition]
    \/ part.kind \in {"unsigned", "signed"} /\ v = args[part.name] /\ v \in Nat /\ v < Power[part.width]
    \/ part.kind = "signed" /\ args[part.name] \in Int /\ args[part.name] < 0
       /\ v = args[part.name] + Power[part.width]

LEMMA PartMeans ==
    ASSUME NEW part \in Parts, NEW args, Takes(part, args), NEW v, Means(part, args, v)
    PROVE  Number(PartBits(part, args)) = v
<1> DEFINE w == part.width
           n == args[part.name]
<1>1. w \in 1 .. 27 /\ (part.kind = "condition" => w = 4)
    BY PartsAre
<1> HIDE DEF w
<1>2. w \in 0 .. 30
    BY <1>1
<1>3. CASE part.kind = "condition" /\ v = Conditions[args.Condition]
    <2>1. PartBits(part, args) = Padded(v, w)
        BY <1>3 DEF PartBits, w
    <2>2. v \in 0 .. 15 /\ v \in Small
        BY <1>3, ConditionsAre DEF Takes
    <2> QED BY <1>1, <1>2, <1>3, <2>1, <2>2, SmallPowers, NumberPadded
<1>4. CASE part.kind \in {"unsigned", "signed"} /\ v = n /\ v \in Nat /\ v < Power[w]
    <2>1. PartBits(part, args) = Padded(v, w)
        <3>1. ~(v < 0)
            BY <1>4
        <3> QED BY <1>4, <3>1 DEF PartBits, w
    <2>2. v \in Small
        <3>1. v < 2^30
            BY <1>2, <1>4, PowerTable, SMT DEF Small
        <3> QED BY <1>4, <3>1 DEF Small
    <2> QED BY <1>2, <1>4, <2>1, <2>2, NumberPadded
<1>5. CASE part.kind = "signed" /\ n \in Int /\ n < 0 /\ v = n + Power[w]
    <2>1. PartBits(part, args) = Complement(n, w)
        BY <1>5 DEF PartBits, w
    <2>2. -Power[w - 1] <= n
        BY <1>5 DEF Takes, w
    <2>3. Complement(n, w) = Digits(v) /\ v \in Small
        BY <1>1, <1>5, <2>2, ComplementIs
    <2> QED BY <2>1, <2>3, NumberDigits
<1> QED BY <1>3, <1>4, <1>5 DEF Means, w

-----------------------------------------------------------------------------
(* The parts that the machine reads of the instructions that are composed.   *)

Has(layout, x, kind, w) ==
    \E i \in 1 .. Len(layout) : layout[i].kind = kind /\ layout[i].name = x /\ layout[i].width = w

\* What the machine reads of an instruction of that name.
Shows(layout, name) ==
    /\ name \notin {"B", "HT"} => Has(layout, "rA", "unsigned", 5)
    /\ name \in Arithmetic \cup {"STS", "STT"} => Has(layout, "rB", "unsigned", 5)
    /\ name \in Arithmetic => Has(layout, "Immediate", "signed", 7)
    /\ name \in {"ML", "MH"} => Has(layout, "Immediate", "signed", 17)
    /\ name = "B" => Has(layout, "Condition", "condition", 4) /\ Has(layout, "Offset", "signed", 17)
    /\ name = "B" => \E op \in Small : layout = Branch(op)
    /\ name \in {"STS", "STT"} => \E op \in Small : layout = Store(op)
Showing(f) == \A name \in (DOMAIN f) \cap Composed : Shows(f[name], name)

LEMMA FieldShows ==
    ASSUME NEW layout, NEW i \in 1 .. Len(layout), NEW kind, NEW x, NEW w, layout[i] = Field(kind, x, w)
    PROVE  Has(layout, x, kind, w)
<1>1. layout[i].kind = kind /\ layout[i].name = x /\ layout[i].width = w
    BY DEF Field
<1> QED BY <1>1 DEF Has

LEMMA ShapesShow ==
    ASSUME NEW op, NEW tail
    PROVE  /\ Has(ThreeRegisters(op, tail), "rA", "unsigned", 5)
           /\ Has(WithImmediate(op, tail), "rA", "unsigned", 5)
           /\ Has(WithImmediate(op, tail), "rB", "unsigned", 5)
           /\ Has(WithImmediate(op, tail), "Immediate", "signed", 7)
           /\ Has(TwoRegisters(op, tail), "rA", "unsigned", 5)
           /\ Has(MoveImmediate(op), "rA", "unsigned", 5)
           /\ Has(MoveImmediate(op), "Immediate", "signed", 17)
           /\ Has(Compare(op), "rA", "unsigned", 5)
           /\ Has(CompareImmediate(op), "rA", "unsigned", 5)
           /\ Has(Store(op), "rA", "unsigned", 5)
           /\ Has(Store(op), "rB", "unsigned", 5)
           /\ Has(Branch(op), "Condition", "condition", 4)
           /\ Has(Branch(op), "Offset", "signed", 17)
<1> DEFINE rA == Field("unsigned", "rA", 5)
           rB == Field("unsigned", "rB", 5)
           short == Field("signed", "Immediate", 7)
           long == Field("signed", "Immediate", 17)
           back == Field("signed", "Offset", 17)
           when == Field("condition", "Condition", 4)
<1>1. \A a, b, c, d, e, f, g :
        /\ Len(<<a, b, c>>) = 3 /\ <<a, b, c>>[2] = b /\ <<a, b, c>>[3] = c
        /\ Len(<<a, b, c, d, e>>) = 5 /\ <<a, b, c, d, e>>[2] = b
        /\ Len(<<a, b, c, d, e, f>>) = 6 /\ <<a, b, c, d, e, f>>[2] = b /\ <<a, b, c, d, e, f>>[3] = c
        /\ <<a, b, c, d, e, f>>[4] = d
        /\ Len(<<a, b, c, d, e, f, g>>) = 7 /\ <<a, b, c, d, e, f, g>>[2] = b /\ <<a, b, c, d, e, f, g>>[3] = c
    OBVIOUS
<1>2. 2 \in 1 .. 3 /\ 3 \in 1 .. 3 /\ 2 \in 1 .. 5 /\ 2 \in 1 .. 6 /\ 3 \in 1 .. 6 /\ 4 \in 1 .. 6 /\ 2 \in 1 .. 7 /\ 3 \in 1 .. 7
    OBVIOUS
<1> HIDE DEF rA, rB, short, long, back, when
<1>3. Len(ThreeRegisters(op, tail)) = 6 /\ ThreeRegisters(op, tail)[2] = rA
    BY <1>1 DEF ThreeRegisters, Register, Unsigned, rA
<1>4. /\ Len(WithImmediate(op, tail)) = 6 /\ WithImmediate(op, tail)[2] = rA /\ WithImmediate(op, tail)[3] = rB
      /\ WithImmediate(op, tail)[4] = short
    BY <1>1 DEF WithImmediate, Register, Unsigned, Signed, rA, rB, short
<1>5. Len(TwoRegisters(op, tail)) = 5 /\ TwoRegisters(op, tail)[2] = rA
    BY <1>1 DEF TwoRegisters, Register, Unsigned, rA
<1>6. Len(MoveImmediate(op)) = 3 /\ MoveImmediate(op)[2] = rA /\ MoveImmediate(op)[3] = long
    BY <1>1 DEF MoveImmediate, Register, Unsigned, Signed, rA, long
<1>7. Len(Compare(op)) = 3 /\ Compare(op)[2] = rA
    BY <1>1 DEF Compare, Register, Unsigned, rA
<1>8. Len(CompareImmediate(op)) = 3 /\ CompareImmediate(op)[2] = rA
    BY <1>1 DEF CompareImmediate, Register, Unsigned, rA
<1>9. Len(Store(op)) = 7 /\ Store(op)[2] = rA /\ Store(op)[3] = rB
    BY <1>1 DEF Store, Memory, Register, Unsigned, rA, rB
<1>10. Len(Branch(op)) = 3 /\ Branch(op)[2] = when /\ Branch(op)[3] = back
    BY <1>1 DEF Branch, Condition, Signed, when, back
<1>11. Has(ThreeRegisters(op, tail), "rA", "unsigned", 5)
    BY <1>2, <1>3, FieldShows DEF rA
<1>12. /\ Has(WithImmediate(op, tail), "rA", "unsigned", 5)
       /\ Has(WithImmediate(op, tail), "rB", "unsigned", 5)
       /\ Has(WithImmediate(op, tail), "Immediate", "signed", 7)
    BY <1>2, <1>4, FieldShows DEF rA, rB, short
<1>13. Has(TwoRegisters(op, tail), "rA", "unsigned", 5)
    BY <1>2, <1>5, FieldShows DEF rA
<1>14. Has(MoveImmediate(op), "rA", "unsigned", 5) /\ Has(MoveImmediate(op), "Immediate", "signed", 17)
    BY <1>2, <1>6, FieldShows DEF rA, long
<1>15. Has(Compare(op), "rA", "unsigned", 5)
    BY <1>2, <1>7, FieldShows DEF rA
<1>16. Has(CompareImmediate(op), "rA", "unsigned", 5)
    BY <1>2, <1>8, FieldShows DEF rA
<1>17. Has(Store(op), "rA", "unsigned", 5) /\ Has(Store(op), "rB", "unsigned", 5)
    BY <1>2, <1>9, FieldShows DEF rA, rB
<1>18. Has(Branch(op), "Condition", "condition", 4) /\ Has(Branch(op), "Offset", "signed", 17)
    BY <1>2, <1>10, FieldShows DEF when, back
<1> QED BY <1>11, <1>12, <1>13, <1>14, <1>15, <1>16, <1>17, <1>18

LEMMA ComposedList ==
    Composed =
        {"AD", "ADC", "AN", "ADCI", "ADI", "ANI"} \cup {"CM", "CMI", "B"} \cup {"DVI"} \cup {"HT"}
          \cup {"MDI"} \cup {"MU", "MUS", "MUI", "MH", "ML", "MS"} \cup {"OR", "ORI", "NG", "NT"}
          \cup {"RL", "RR", "RLI", "RRI"} \cup {"SA", "SB", "SAI", "SBI"} \cup {"SL", "SR", "SLI", "SRI"}
          \cup {"XR", "XRI", "STS", "STT"}
BY DEF Composed, DrawnThree, DrawnWith, DrawnTwo, DrawnMove

LEMMA NothingShown == ASSUME NEW layout PROVE Shows(layout, "HT")
BY DEF Shows, Arithmetic

LEMMA ShowingA == Showing(InstructionsA)
<1>1. /\ InstructionsA.AD = ThreeRegisters(0, 0) /\ InstructionsA.ADC = ThreeRegisters(32, 0)
      /\ InstructionsA.ADCI = WithImmediate(32, 1) /\ InstructionsA.ADI = WithImmediate(0, 1)
      /\ InstructionsA.AN = ThreeRegisters(20, 0) /\ InstructionsA.ANI = WithImmediate(20, 1)
    BY SMT DEF InstructionsA
<1>2. /\ Shows(ThreeRegisters(0, 0), "AD") /\ Shows(ThreeRegisters(32, 0), "ADC")
      /\ Shows(WithImmediate(32, 1), "ADCI") /\ Shows(WithImmediate(0, 1), "ADI")
      /\ Shows(ThreeRegisters(20, 0), "AN") /\ Shows(WithImmediate(20, 1), "ANI")
    BY ShapesShow DEF Shows, Arithmetic
<1>3. (DOMAIN InstructionsA) \cap Composed \subseteq
        {"AD", "ADC", "ADCI", "ADI", "AN", "ANI"}
    BY ComposedList DEF InstructionsA
<1> QED BY <1>1, <1>2, <1>3 DEF Showing

LEMMA ShowingBC == Showing(InstructionsBC)
<1>1. /\ InstructionsBC.B = Branch(48) /\ InstructionsBC.CM = Compare(184)
      /\ InstructionsBC.CMI = CompareImmediate(185)
    BY SMT DEF InstructionsBC
<1>2. /\ Shows(Branch(48), "B") /\ Shows(Compare(184), "CM")
      /\ Shows(CompareImmediate(185), "CMI")
    <2>1. 48 \in Small
        BY SMT DEF Small
    <2> QED BY <2>1, ShapesShow DEF Shows, Arithmetic
<1>3. (DOMAIN InstructionsBC) \cap Composed \subseteq
        {"B", "CM", "CMI"}
    BY ComposedList DEF InstructionsBC
<1> QED BY <1>1, <1>2, <1>3 DEF Showing

LEMMA ShowingDE == Showing(InstructionsDE)
<1>1. /\ InstructionsDE.DVI = WithImmediate(12, 1)
    BY SMT DEF InstructionsDE
<1>2. /\ Shows(WithImmediate(12, 1), "DVI")
    BY ShapesShow DEF Shows, Arithmetic
<1>3. (DOMAIN InstructionsDE) \cap Composed \subseteq
        {"DVI"}
    BY ComposedList DEF InstructionsDE
<1> QED BY <1>1, <1>2, <1>3 DEF Showing

LEMMA ShowingFtoL == Showing(InstructionsFtoL)
<1>1. /\ InstructionsFtoL.HT = Plain(18, 164032)
    BY SMT DEF InstructionsFtoL
<1>2. /\ Shows(Plain(18, 164032), "HT")
    BY NothingShown
<1>3. (DOMAIN InstructionsFtoL) \cap Composed \subseteq
        {"HT"}
    BY ComposedList DEF InstructionsFtoL
<1> QED BY <1>1, <1>2, <1>3 DEF Showing

LEMMA ShowingMD == Showing(InstructionsMD)
<1>1. /\ InstructionsMD.MDI = WithImmediate(16, 1)
    BY SMT DEF InstructionsMD
<1>2. /\ Shows(WithImmediate(16, 1), "MDI")
    BY ShapesShow DEF Shows, Arithmetic
<1>3. (DOMAIN InstructionsMD) \cap Composed \subseteq
        {"MDI"}
    BY ComposedList DEF InstructionsMD
<1> QED BY <1>1, <1>2, <1>3 DEF Showing

LEMMA ShowingMHtoMU == Showing(InstructionsMHtoMU)
<1>1. /\ InstructionsMHtoMU.MH = MoveImmediate(17)
      /\ InstructionsMHtoMU.ML = MoveImmediate(18)
      /\ InstructionsMHtoMU.MS = MoveImmediate(19)
      /\ InstructionsMHtoMU.MU = ThreeRegisters(8, 0)
      /\ InstructionsMHtoMU.MUI = WithImmediate(8, 1)
      /\ InstructionsMHtoMU.MUS = ThreeRegisters(8, 2)
    BY SMT DEF InstructionsMHtoMU
<1>2. /\ Shows(MoveImmediate(17), "MH") /\ Shows(MoveImmediate(18), "ML")
      /\ Shows(MoveImmediate(19), "MS") /\ Shows(ThreeRegisters(8, 0), "MU")
      /\ Shows(WithImmediate(8, 1), "MUI") /\ Shows(ThreeRegisters(8, 2), "MUS")
    BY ShapesShow DEF Shows, Arithmetic
<1>3. (DOMAIN InstructionsMHtoMU) \cap Composed \subseteq
        {"MH", "ML", "MS", "MU", "MUI", "MUS"}
    BY ComposedList DEF InstructionsMHtoMU
<1> QED BY <1>1, <1>2, <1>3 DEF Showing

LEMMA ShowingNO == Showing(InstructionsNO)
<1>1. /\ InstructionsNO.NG = TwoRegisters(332, 0) /\ InstructionsNO.NT = TwoRegisters(332, 32)
      /\ InstructionsNO.OR = ThreeRegisters(24, 0)
      /\ InstructionsNO.ORI = WithImmediate(24, 1)
    BY SMT DEF InstructionsNO
<1>2. /\ Shows(TwoRegisters(332, 0), "NG") /\ Shows(TwoRegisters(332, 32), "NT")
      /\ Shows(ThreeRegisters(24, 0), "OR") /\ Shows(WithImmediate(24, 1), "ORI")
    BY ShapesShow DEF Shows, Arithmetic
<1>3. (DOMAIN InstructionsNO) \cap Composed \subseteq
        {"NG", "NT", "OR", "ORI"}
    BY ComposedList DEF InstructionsNO
<1> QED BY <1>1, <1>2, <1>3 DEF Showing

LEMMA ShowingR == Showing(InstructionsR)
<1>1. /\ InstructionsR.RL = ThreeRegisters(48, 0) /\ InstructionsR.RLI = WithImmediate(64, 0)
      /\ InstructionsR.RR = ThreeRegisters(49, 0) /\ InstructionsR.RRI = WithImmediate(65, 0)
    BY SMT DEF InstructionsR
<1>2. /\ Shows(ThreeRegisters(48, 0), "RL") /\ Shows(WithImmediate(64, 0), "RLI")
      /\ Shows(ThreeRegisters(49, 0), "RR") /\ Shows(WithImmediate(65, 0), "RRI")
    BY ShapesShow DEF Shows, Arithmetic
<1>3. (DOMAIN InstructionsR) \cap Composed \subseteq
        {"RL", "RLI", "RR", "RRI"}
    BY ComposedList DEF InstructionsR
<1> QED BY <1>1, <1>2, <1>3 DEF Showing

LEMMA ShowingSAtoSBI == Showing(InstructionsSAtoSBI)
<1>1. /\ InstructionsSAtoSBI.SA = ThreeRegisters(45, 0)
      /\ InstructionsSAtoSBI.SAI = WithImmediate(61, 0)
      /\ InstructionsSAtoSBI.SB = ThreeRegisters(4, 0)
      /\ InstructionsSAtoSBI.SBI = WithImmediate(4, 1)
    BY SMT DEF InstructionsSAtoSBI
<1>2. /\ Shows(ThreeRegisters(45, 0), "SA") /\ Shows(WithImmediate(61, 0), "SAI")
      /\ Shows(ThreeRegisters(4, 0), "SB") /\ Shows(WithImmediate(4, 1), "SBI")
    BY ShapesShow DEF Shows, Arithmetic
<1>3. (DOMAIN InstructionsSAtoSBI) \cap Composed \subseteq
        {"SA", "SAI", "SB", "SBI"}
    BY ComposedList DEF InstructionsSAtoSBI
<1> QED BY <1>1, <1>2, <1>3 DEF Showing

LEMMA ShowingSBIMtoSRIM == Showing(InstructionsSBIMtoSRIM)
<1>1. /\ InstructionsSBIMtoSRIM.SL = ThreeRegisters(40, 0)
      /\ InstructionsSBIMtoSRIM.SLI = WithImmediate(56, 0)
      /\ InstructionsSBIMtoSRIM.SR = ThreeRegisters(41, 0)
      /\ InstructionsSBIMtoSRIM.SRI = WithImmediate(57, 0)
    BY SMT DEF InstructionsSBIMtoSRIM
<1>2. /\ Shows(ThreeRegisters(40, 0), "SL") /\ Shows(WithImmediate(56, 0), "SLI")
      /\ Shows(ThreeRegisters(41, 0), "SR") /\ Shows(WithImmediate(57, 0), "SRI")
    BY ShapesShow DEF Shows, Arithmetic
<1>3. (DOMAIN InstructionsSBIMtoSRIM) \cap Composed \subseteq
        {"SL", "SLI", "SR", "SRI"}
    BY ComposedList DEF InstructionsSBIMtoSRIM
<1> QED BY <1>1, <1>2, <1>3 DEF Showing

LEMMA ShowingSRMtoZEW == Showing(InstructionsSRMtoZEW)
<1>1. /\ InstructionsSRMtoZEW.STS = Store(88) /\ InstructionsSRMtoZEW.STT = Store(90)
      /\ InstructionsSRMtoZEW.XR = ThreeRegisters(28, 0)
      /\ InstructionsSRMtoZEW.XRI = WithImmediate(28, 1)
    BY SMT DEF InstructionsSRMtoZEW
<1>2. /\ Shows(Store(88), "STS") /\ Shows(Store(90), "STT")
      /\ Shows(ThreeRegisters(28, 0), "XR") /\ Shows(WithImmediate(28, 1), "XRI")
    <2>1. 88 \in Small /\ 90 \in Small
        BY SMT DEF Small
    <2> QED BY <2>1, ShapesShow DEF Shows, Arithmetic
<1>3. (DOMAIN InstructionsSRMtoZEW) \cap Composed \subseteq
        {"STS", "STT", "XR", "XRI"}
    BY ComposedList DEF InstructionsSRMtoZEW
<1> QED BY <1>1, <1>2, <1>3 DEF Showing

LEMMA MergedShowing ==
    ASSUME NEW f, NEW g, Showing(f), Showing(g)
    PROVE  Showing(Over(f, g))
<1> DEFINE h == Over(f, g)
<1>1. /\ DOMAIN h = (DOMAIN f) \cup DOMAIN g
      /\ \A x \in DOMAIN f : h[x] = f[x]
      /\ \A x \in (DOMAIN g) \ DOMAIN f : h[x] = g[x]
    BY Merged
<1> HIDE DEF h
<1>2. ASSUME NEW x \in DOMAIN h PROVE (x \in DOMAIN f /\ h[x] = f[x]) \/ (x \in DOMAIN g /\ h[x] = g[x])
    BY <1>1
<1>3. Showing(h)
    BY <1>2 DEF Showing
<1> QED BY <1>3 DEF h

LEMMA InstructionsShow == Showing(Instructions)
<1> DEFINE f1 == InstructionsSRMtoZEW
           f2 == Over(InstructionsSBIMtoSRIM, f1)
           f3 == Over(InstructionsSAtoSBI, f2)
           f4 == Over(InstructionsR, f3)
           f5 == Over(InstructionsNO, f4)
           f6 == Over(InstructionsMHtoMU, f5)
           f7 == Over(InstructionsMD, f6)
           f8 == Over(InstructionsFtoL, f7)
           f9 == Over(InstructionsDE, f8)
           f10 == Over(InstructionsBC, f9)
           f11 == Over(InstructionsA, f10)
<1>1. Instructions = f11
    BY DEF Instructions
<1> HIDE DEF f1, f2, f3, f4, f5, f6, f7, f8, f9, f10, f11
<1>2. Showing(f1)
    BY ShowingSRMtoZEW DEF f1
<1>3. Showing(f2)
    BY <1>2, ShowingSBIMtoSRIM, MergedShowing DEF f2
<1>4. Showing(f3)
    BY <1>3, ShowingSAtoSBI, MergedShowing DEF f3
<1>5. Showing(f4)
    BY <1>4, ShowingR, MergedShowing DEF f4
<1>6. Showing(f5)
    BY <1>5, ShowingNO, MergedShowing DEF f5
<1>7. Showing(f6)
    BY <1>6, ShowingMHtoMU, MergedShowing DEF f6
<1>8. Showing(f7)
    BY <1>7, ShowingMD, MergedShowing DEF f7
<1>9. Showing(f8)
    BY <1>8, ShowingFtoL, MergedShowing DEF f8
<1>10. Showing(f9)
    BY <1>9, ShowingDE, MergedShowing DEF f9
<1>11. Showing(f10)
    BY <1>10, ShowingBC, MergedShowing DEF f10
<1>12. Showing(f11)
    BY <1>11, ShowingA, MergedShowing DEF f11
<1> QED BY <1>1, <1>12

-----------------------------------------------------------------------------
(* A call, as the machine finds it.                                          *)

\* A call of which the words can be told.
Spoken(c, w) ==
    /\ c.name \in Composed
    /\ w \in {2, 3, 6} /\ TotalOf(c.name) = 9 * w
    /\ \A i \in 1 .. Len(Instructions[c.name]) : Takes(Instructions[c.name][i], c.args)
    /\ w = 6 => Ends(BitsOfLayout(Instructions[c.name], c.args))

HexOf(c) == Assemble(c.name, c.args).hex
LayoutOf(c) == Instructions[c.name]
BitsSaid(c) == BitsOfLayout(LayoutOf(c), c.args)

LEMMA SpokenLayout ==
    ASSUME NEW c, NEW w, Spoken(c, w)
    PROVE  /\ c.name \in DOMAIN Instructions /\ c.name \notin Unnamed /\ c.name \notin NeverCode
           /\ LayoutOf(c) \in Seq(Parts) /\ DOMAIN LayoutOf(c) = 1 .. Len(LayoutOf(c)) /\ Named(LayoutOf(c))
           /\ \A i \in 1 .. Len(LayoutOf(c)) : Takes(LayoutOf(c)[i], c.args)
           /\ BitsSaid(c) \in Seq(Bit) /\ Len(BitsSaid(c)) = 9 * w
           /\ Assemble(c.name, c.args) = Bin2Hex(BitsSaid(c))
           /\ Assemble(c.name, c.args).result = "code"
           /\ Len(HexOf(c)) = 1 + (9 * w) \div 4
<1> DEFINE layout == LayoutOf(c)
           args == c.args
<1>1. c.name \in DOMAIN Instructions /\ c.name \notin Unnamed /\ c.name \notin NeverCode
    BY ComposedAre DEF Spoken
<1>2. WellFormed(Instructions[c.name], TotalOf(c.name), NamesOf(c.name))
    BY <1>1, InstructionsAre DEF Group
<1>3. Sound(layout, TotalOf(c.name)) /\ Named(layout)
    BY <1>2 DEF WellFormed, LayoutOf
<1>4. layout \in Seq(Parts)
    BY <1>3 DEF Sound
<1>5. DOMAIN layout = 1 .. Len(layout)
    BY <1>4
<1>6. \A i \in 1 .. Len(layout) : Takes(layout[i], args)
    BY DEF Spoken, LayoutOf
<1>7. TotalOf(c.name) = 9 * w /\ 9 * w \in Nat
    <2>1. TotalOf(c.name) = 9 * w /\ w \in {2, 3, 6}
        BY DEF Spoken
    <2> QED BY <2>1
<1>8. layout = Instructions[c.name]
    BY DEF LayoutOf
<1> HIDE DEF layout, args
<1>9. BitsOfLayout(layout, args) \in Seq(Bit) /\ Len(BitsOfLayout(layout, args)) = 9 * w
    BY <1>3, <1>5, <1>6, <1>7, LayoutIs
<1>10. Assemble(c.name, args) = Bin2Hex(BitsOfLayout(layout, args))
    BY <1>1, <1>4, <1>5, <1>6, <1>8, AssembledFrom
<1>11. /\ Assemble(c.name, args).result = "code"
       /\ Len(Assemble(c.name, args).hex) = 1 + TotalOf(c.name) \div 4
    BY <1>1, <1>5, <1>6, <1>8, AssembleIs
<1>12. Len(Assemble(c.name, args).hex) = 1 + (9 * w) \div 4
    BY <1>7, <1>11
<1> QED BY <1>1, <1>3, <1>4, <1>5, <1>6, <1>9, <1>10, <1>11, <1>12 DEF layout, args, BitsSaid, HexOf

\* Its words.
LEMMA SpokenWords ==
    ASSUME NEW c, NEW w, Spoken(c, w)
    PROVE  /\ Makes(c, w) /\ Worded(HexOf(c)) /\ Len(Words(HexOf(c))) = w
           /\ Holds(Words(HexOf(c)), BitsSaid(c))
<1> DEFINE bits == BitsSaid(c)
           hex == HexOf(c)
<1>1. bits \in Seq(Bit) /\ Len(bits) = 9 * w /\ hex = Bin2Hex(bits).hex
      /\ Assemble(c.name, c.args).result = "code" /\ Len(hex) = 1 + (9 * w) \div 4
    BY SpokenLayout DEF HexOf
<1>2. w \in {2, 3, 6} /\ (w = 6 => Ends(bits))
    BY DEF Spoken, BitsSaid, LayoutOf
<1>3. Makes(c, w) <=> Assemble(c.name, c.args).result = "code" /\ Sized(hex) /\ Weight(hex) = w
    BY DEF Makes, HexOf
<1> HIDE DEF bits, hex
<1>4. 9 * 2 = 18 /\ 9 * 3 = 27 /\ 9 * 6 = 54 /\ 18 \div 4 = 4 /\ 27 \div 4 = 6 /\ 54 \div 4 = 13
    OBVIOUS
<1>5. /\ Len(hex) = 14 => Sized(hex) /\ Weight(hex) = 6
      /\ Len(hex) = 7 => Sized(hex) /\ Weight(hex) = 3
      /\ Len(hex) = 5 => Sized(hex) /\ Weight(hex) = 2
    BY DEF Sized, Weight
<1>6. CASE w = 2
    <2>1. Len(bits) = 18
        BY <1>1, <1>4, <1>6
    <2>2. Len(hex) = 5
        BY <1>1, <1>4, <1>6
    <2>3. Holds(Words(hex), bits) /\ Words(hex) \in Seq(0 .. 511) /\ Len(Words(hex)) = 2
        BY <1>1, <2>1, TwoWords
    <2> QED BY <1>1, <1>3, <1>5, <1>6, <2>2, <2>3 DEF Worded, bits, hex
<1>7. CASE w = 3
    <2>1. Len(bits) = 27
        BY <1>1, <1>4, <1>7
    <2>2. Len(hex) = 7
        BY <1>1, <1>4, <1>7
    <2>3. Holds(Words(hex), bits) /\ Words(hex) \in Seq(0 .. 511) /\ Len(Words(hex)) = 3
        BY <1>1, <2>1, ThreeWords
    <2> QED BY <1>1, <1>3, <1>5, <1>7, <2>2, <2>3 DEF Worded, bits, hex
<1>8. CASE w = 6
    <2>1. Len(bits) = 54
        BY <1>1, <1>4, <1>8
    <2>2. Len(hex) = 14
        BY <1>1, <1>4, <1>8
    <2>3. Holds(Words(hex), bits) /\ Words(hex) \in Seq(0 .. 511) /\ Len(Words(hex)) = 6
        BY <1>1, <1>2, <1>8, <2>1, SixWords
    <2> QED BY <1>1, <1>3, <1>5, <1>8, <2>2, <2>3 DEF Worded, bits, hex
<1> QED BY <1>2, <1>6, <1>7, <1>8

\* What is alike with more bits is alike with fewer.
LEMMA AlikeFewer ==
    ASSUME NEW m, NEW b, NEW bits \in Seq(Bit), Heads(b, bits), Alike(m, b)
    PROVE  Alike(m, bits)
<1>1. /\ DOMAIN b = 1 .. Len(b) /\ DOMAIN bits = 1 .. Len(bits) /\ Len(bits) \in Nat /\ Len(b) \in Nat
      /\ Len(bits) <= Len(b) /\ \A p \in 1 .. Len(bits) : b[p] = bits[p]
    BY DEF Heads
<1> QED BY <1>1 DEF Alike

\* And the other way round, of what has not more.
LEMMA AlikeMore ==
    ASSUME NEW m \in Seq(Pattern), NEW b, NEW bits \in Seq(Bit), Heads(b, bits), Len(m) = Len(bits),
           Alike(m, bits)
    PROVE  Alike(m, b)
<1>1. /\ DOMAIN b = 1 .. Len(b) /\ DOMAIN bits = 1 .. Len(bits) /\ Len(bits) \in Nat /\ Len(b) \in Nat
      /\ Len(bits) <= Len(b) /\ \A p \in 1 .. Len(bits) : b[p] = bits[p]
    BY DEF Heads
<1>2. DOMAIN m = 1 .. Len(bits)
    OBVIOUS
<1> QED BY <1>1, <1>2 DEF Alike

\* The instruction there is that of the call, and no other.
LEMMA DecodedName ==
    ASSUME NEW c, NEW w, Spoken(c, w), NEW b, Heads(b, BitsSaid(c)), Len(b) = 54,
           NEW word, word \in Seq(Bit), Heads(BitsSaid(c), word)
    PROVE  /\ \A name \in DOMAIN Instructions : Alike(Masks[name], b) => name = c.name
           /\ Alike(Masks[c.name], b) /\ Alike(Masks[c.name], word) /\ Len(Masks[c.name]) = 9 * w
<1> DEFINE bits == BitsSaid(c)
           layout == LayoutOf(c)
<1>1. /\ c.name \in DOMAIN Instructions
      /\ layout \in Seq(Parts) /\ \A i \in 1 .. Len(layout) : Takes(layout[i], c.args)
      /\ bits \in Seq(Bit) /\ Len(bits) = 9 * w
    BY SpokenLayout
<1>2. \A n \in DOMAIN Instructions : Masks[n] = Mask(Instructions[n])
    BY DEF Masks
<1>3. Masks[c.name] = Mask(layout)
    BY <1>1, <1>2 DEF LayoutOf
<1>4. bits = BitsOfLayout(layout, c.args)
    BY DEF BitsSaid
<1>5. Shaped(layout)
    BY <1>1, PartsShaped
<1> HIDE DEF layout
<1>6. PICK g : Widths(g, layout)
    BY <1>5, LaidOut
<1>7. Alike(Mask(layout), bits) /\ Len(Mask(layout)) = Len(bits)
    BY <1>1, <1>4, <1>6, OwnMask
<1>8. Mask(layout) \in Seq(Pattern)
    BY <1>5, <1>6, MaskPlaces
<1> HIDE DEF bits
<1>9. Alike(Mask(layout), b)
    BY <1>1, <1>7, <1>8, AlikeMore DEF bits
<1>10. Alike(Mask(layout), word)
    BY <1>7, AlikeFewer DEF bits
<1>11. b \in Seq(Bit) /\ Len(b) >= 18 /\ Met(b)
    <2>1. b \in Seq(Bit)
        BY DEF Heads
    <2> QED BY <2>1 DEF Met
<1>12. ASSUME NEW n \in DOMAIN Instructions, Alike(Masks[n], b)
       PROVE  Told(b) = n
    <2>1. Like(Instructions[n], b)
        BY <1>2, <1>11, <1>12 DEF Like
    <2> QED BY <1>11, <2>1, InstructionsTell DEF Telling, Called
<1>13. Alike(Masks[c.name], b) /\ Told(b) = c.name
    BY <1>1, <1>3, <1>9, <1>12
<1> QED BY <1>1, <1>3, <1>7, <1>10, <1>12, <1>13

\* An argument is read where the machine looks for it.
LEMMA DecodedPart ==
    ASSUME NEW c, NEW w, Spoken(c, w), NEW b, Heads(b, BitsSaid(c)),
           NEW x, NEW kind, NEW width, Has(LayoutOf(c), x, kind, width), kind # "fixed",
           NEW v, \A part : part.kind = kind /\ part.name = x /\ part.width = width => Means(part, c.args, v)
    PROVE  Reading(LayoutOf(c), b)[x] = v
<1> DEFINE layout == LayoutOf(c)
<1>1. /\ layout \in Seq(Parts) /\ DOMAIN layout = 1 .. Len(layout) /\ Named(layout)
      /\ \A i \in 1 .. Len(layout) : Takes(layout[i], c.args)
    BY SpokenLayout
<1>2. BitsSaid(c) = BitsOfLayout(layout, c.args)
    BY DEF BitsSaid
<1>3. PICK i \in 1 .. Len(layout) : layout[i].kind = kind /\ layout[i].name = x /\ layout[i].width = width
    BY DEF Has
<1>4. Means(layout[i], c.args, v)
    BY <1>3
<1>5. layout[i] \in Parts /\ Takes(layout[i], c.args)
    BY <1>1
<1> HIDE DEF layout
<1>6. PartIn(layout, layout[i].name, b) = Number(PartBits(layout[i], c.args))
    BY <1>1, <1>2, <1>3, PartLies
<1>7. Number(PartBits(layout[i], c.args)) = v
    BY <1>4, <1>5, PartMeans
<1>8. x # NoName
    <2>1. layout[i].kind = "fixed" <=> layout[i].name = NoName
        BY <1>5, PartsAre
    <2> QED BY <1>3, <2>1
<1>9. x \in {layout[j].name : j \in DOMAIN layout}
    BY <1>1, <1>3
<1>10. Reading(layout, b)[x] = PartIn(layout, x, b)
    BY <1>8, <1>9, Zenon DEF Reading, NoName
<1> QED BY <1>3, <1>6, <1>7, <1>10 DEF layout

\* Where a call lies in the machine's code.
Lying(c, w, pc) ==
    Spoken(c, w) /\ Coded(machine.code) /\ pc \in Nat /\ WordsAt(Words(HexOf(c)), w, pc)

ReadCall(c, w, pc) ==
    [name |-> c.name, next |-> pc + w, args |-> Reading(LayoutOf(c), Fetched(pc))]

\* There the machine reads it, and nothing else.
LEMMA Decoding ==
    ASSUME NEW c, NEW w, NEW pc, Lying(c, w, pc)
    PROVE  Decoded(pc) = {ReadCall(c, w, pc)} /\ Heads(Fetched(pc), BitsSaid(c))
<1> DEFINE bits == BitsSaid(c)
           words == Words(HexOf(c))
           b == Fetched(pc)
           first == BitsOf[CodeWord(pc + 1)]
<1>1. Spoken(c, w) /\ Coded(machine.code) /\ pc \in Nat /\ WordsAt(words, w, pc)
    BY DEF Lying
<1>2. w \in {2, 3, 6}
    BY <1>1 DEF Spoken
<1>3. bits \in Seq(Bit) /\ Len(bits) = 9 * w /\ c.name \in DOMAIN Instructions
    BY <1>1, SpokenLayout
<1>4. Holds(words, bits)
    BY <1>1, SpokenWords
<1> HIDE DEF bits, words
<1>5. /\ Heads(b, bits) /\ Len(b) = 54
      /\ Heads(bits, first) /\ CodeWord(pc + 1) \in 0 .. 511
    <2>1. Len(bits) = 9 * w
        BY <1>3
    <2> HIDE DEF b, first
    <2>2. Found(pc, bits)
        BY <1>1, <1>2, <1>3, <1>4, <2>1, FetchedCall
    <2> QED BY <2>2 DEF b, first, Found
<1>6. first \in Seq(Bit)
    BY <1>5, BitsOfWord
<1> HIDE DEF b, first
<1>7. /\ \A name \in DOMAIN Instructions : Alike(Masks[name], b) => name = c.name
      /\ Alike(Masks[c.name], b) /\ Alike(Masks[c.name], first) /\ Len(Masks[c.name]) = 9 * w
    BY <1>1, <1>5, <1>6, DecodedName DEF bits
<1>8. Beginning[CodeWord(pc + 1)] = {name \in DOMAIN Instructions : Alike(Masks[name], first)}
    <2>1. CodeWord(pc + 1) \in 0 .. 2^9 - 1
        BY <1>5, SMT
    <2> QED BY <2>1, Zenon DEF Beginning, first
<1>9. pc < PageSize
    BY <1>1, <1>2 DEF PageSize, WordsAt
<1>10. {name \in Beginning[CodeWord(pc + 1)] : pc < PageSize /\ Alike(Masks[name], b)} = {c.name}
    BY <1>3, <1>7, <1>8, <1>9, Zenon
<1>11. Len(Masks[c.name]) \div 9 = w
    <2>1. (9 * 2) \div 9 = 2 /\ (9 * 3) \div 9 = 3 /\ (9 * 6) \div 9 = 6
        OBVIOUS
    <2>2. Len(Masks[c.name]) = 9 * w
        BY <1>7
    <2> DEFINE n == Len(Masks[c.name])
    <2> HIDE DEF n
    <2>3. n \div 9 = w
        BY <1>2, <2>1, <2>2 DEF n
    <2> QED BY <2>3 DEF n
<1>12. Decoded(pc) =
         {[name |-> name, next |-> pc + (Len(Masks[name]) \div 9), args |-> Reading(Instructions[name], b)] :
            name \in {c.name}}
    BY <1>10, Zenon DEF Decoded, b
<1>13. Decoded(pc) = {[name |-> c.name, next |-> pc + (Len(Masks[c.name]) \div 9), args |-> Reading(Instructions[c.name], b)]}
    BY <1>12, Zenon
<1>14. Decoded(pc) = {ReadCall(c, w, pc)}
    BY <1>11, <1>13, Zenon DEF ReadCall, LayoutOf, b
<1> QED BY <1>5, <1>14 DEF b, bits

\* What a move takes.
Long == {n \in Nat : n <= 131071}

\* Its arguments.
LEMMA ArgumentsDecoded ==
    ASSUME NEW c, NEW w, NEW pc, Lying(c, w, pc)
    PROVE  LET args == ReadCall(c, w, pc).args
           IN  /\ (c.name \notin {"B", "HT"} /\ c.args["rA"] \in 0 .. 31) => args["rA"] = c.args["rA"]
               /\ (c.name \in Arithmetic \cup {"STS", "STT"} /\ c.args["rB"] \in 0 .. 31) => args["rB"] = c.args["rB"]
               /\ (c.name \in Arithmetic /\ c.args["Immediate"] \in 0 .. 127) =>
                     args["Immediate"] = c.args["Immediate"]
               /\ (c.name \in {"ML", "MH"} /\ c.args["Immediate"] \in Long) =>
                     args["Immediate"] = c.args["Immediate"]
               /\ c.name = "B" => args["Condition"] = Conditions[c.args.Condition]
               /\ (c.name = "B" /\ c.args["Offset"] \in -100 .. -1) => args["Offset"] = c.args["Offset"] + Power[17]
<1> DEFINE b == Fetched(pc)
           args == Reading(LayoutOf(c), b)
<1>1. Spoken(c, w) /\ Heads(b, BitsSaid(c)) /\ c.name \in Composed /\ c.name \in DOMAIN Instructions
    <2>1. Spoken(c, w)
        BY DEF Lying
    <2> QED BY <2>1, Decoding, SpokenLayout DEF Spoken
<1>2. Shows(LayoutOf(c), c.name)
    BY <1>1, InstructionsShow DEF Showing, LayoutOf
<1>3. ReadCall(c, w, pc).args = args
    BY DEF ReadCall
<1>4. Power[5] = 32 /\ Power[7] = 128 /\ Power[17] = 131072
    <2>1. 5 \in 0 .. 30 /\ 7 \in 0 .. 30 /\ 17 \in 0 .. 30
        OBVIOUS
    <2>2. Power[5] = 2^5 /\ Power[7] = 2^7 /\ Power[17] = 2^17
        BY <2>1, PowerTable
    <2>3. 2^5 = 32 /\ 2^7 = 128 /\ 2^17 = 131072
        BY SMT
    <2> QED BY <2>2, <2>3
<1> HIDE DEF b
<1>5. ASSUME c.name \notin {"B", "HT"}, c.args["rA"] \in 0 .. 31 PROVE args["rA"] = c.args["rA"]
    <2>1. Has(LayoutOf(c), "rA", "unsigned", 5)
        BY <1>2, <1>5 DEF Shows
    <2>2. \A part : part.kind = "unsigned" /\ part.name = "rA" /\ part.width = 5 => Means(part, c.args, c.args["rA"])
        BY <1>4, <1>5, SMT DEF Means
    <2> QED BY <1>1, <2>1, <2>2, DecodedPart
<1>6. ASSUME c.name \in Arithmetic \cup {"STS", "STT"}, c.args["rB"] \in 0 .. 31 PROVE args["rB"] = c.args["rB"]
    <2>1. Has(LayoutOf(c), "rB", "unsigned", 5)
        BY <1>2, <1>6 DEF Shows
    <2>2. \A part : part.kind = "unsigned" /\ part.name = "rB" /\ part.width = 5 => Means(part, c.args, c.args["rB"])
        BY <1>4, <1>6, SMT DEF Means
    <2> QED BY <1>1, <2>1, <2>2, DecodedPart
<1>7. ASSUME c.name \in Arithmetic, c.args["Immediate"] \in 0 .. 127
      PROVE  args["Immediate"] = c.args["Immediate"]
    <2>1. Has(LayoutOf(c), "Immediate", "signed", 7)
        BY <1>2, <1>7 DEF Shows
    <2>2. \A part : part.kind = "signed" /\ part.name = "Immediate" /\ part.width = 7 =>
                      Means(part, c.args, c.args["Immediate"])
        BY <1>4, <1>7, SMT DEF Means
    <2> QED BY <1>1, <2>1, <2>2, DecodedPart
<1>8. ASSUME c.name \in {"ML", "MH"}, c.args["Immediate"] \in Long
      PROVE  args["Immediate"] = c.args["Immediate"]
    <2>1. Has(LayoutOf(c), "Immediate", "signed", 17)
        <3>1. c.name \in {"ML", "MH"}
            BY <1>8
        <3> QED BY <1>2, <3>1 DEF Shows
    <2>2. \A part : part.kind = "signed" /\ part.name = "Immediate" /\ part.width = 17 =>
                      Means(part, c.args, c.args["Immediate"])
        <3>0. c.args["Immediate"] \in Long
            BY <1>8
        <3>2. \A n \in Long : n \in Nat /\ n < 131072
            BY SMT DEF Long
        <3>1. c.args["Immediate"] \in Nat /\ c.args["Immediate"] < 131072
            BY <3>0, <3>2
        <3> QED BY <1>4, <3>1, SMT DEF Means
    <2> QED BY <1>1, <2>1, <2>2, DecodedPart
<1>9. ASSUME c.name = "B" PROVE args["Condition"] = Conditions[c.args.Condition]
    <2>1. Has(LayoutOf(c), "Condition", "condition", 4)
        BY <1>2, <1>9 DEF Shows
    <2>2. \A part : part.kind = "condition" /\ part.name = "Condition" /\ part.width = 4 =>
                      Means(part, c.args, Conditions[c.args.Condition])
        BY DEF Means
    <2> QED BY <1>1, <2>1, <2>2, DecodedPart
<1>10. ASSUME c.name = "B", c.args["Offset"] \in -100 .. -1
       PROVE  args["Offset"] = c.args["Offset"] + Power[17]
    <2>1. Has(LayoutOf(c), "Offset", "signed", 17)
        BY <1>2, <1>10 DEF Shows
    <2>2. \A part : part.kind = "signed" /\ part.name = "Offset" /\ part.width = 17 =>
                      Means(part, c.args, c.args["Offset"] + Power[17])
        BY <1>4, <1>10, SMT DEF Means
    <2> QED BY <1>1, <2>1, <2>2, DecodedPart
<1> HIDE DEF args
<1> QED BY <1>3, <1>5, <1>6, <1>7, <1>8, <1>9, <1>10

-----------------------------------------------------------------------------
(* The calls of the tests can be told.                                       *)

\* What the parts of an instruction take.
LEMMA CallTakes ==
    ASSUME NEW name \in Composed, name # "B", NEW args, \A x \in NamesOf(name) : args[x] \in Small
    PROVE  \A i \in DOMAIN Instructions[name] : Takes(Instructions[name][i], args)
<1> DEFINE layout == Instructions[name]
<1>1. name \in DOMAIN Instructions /\ name \notin Unnamed /\ name \notin NeverCode
    BY ComposedAre
<1>2. WellFormed(layout, TotalOf(name), NamesOf(name))
    BY <1>1, InstructionsAre DEF Group
<1>3. "Condition" \notin NamesOf(name)
    BY DEF NamesOf, Composed, DrawnTwo
<1>4. layout \in Seq(Parts) /\ DOMAIN layout = 1 .. Len(layout)
    BY <1>2 DEF WellFormed, Sound
<1>5. ASSUME NEW i \in DOMAIN layout PROVE Takes(layout[i], args)
    <2> DEFINE p == layout[i]
    <2>1. p \in Parts
        BY <1>4
    <2>2. p.kind \in Kinds /\ p.width \in 1 .. 27 /\ (p.kind = "condition" <=> p.name = "Condition")
        BY <2>1, PartsAre
    <2>3. p.kind # "fixed" => p.name \in NamesOf(name)
        BY <1>2, <1>4 DEF WellFormed, Within
    <2> HIDE DEF p
    <2>4. p.kind # "condition"
        BY <1>3, <2>2, <2>3
    <2>5. p.kind # "fixed" => args[p.name] \in Small
        BY <2>3
    <2>6. p.width - 1 \in 0 .. 30
        BY <2>2
    <2>7. Power[p.width - 1] \in Nat
        BY <2>6, PowerTable
    <2>8. p.kind = "signed" =>
            args[p.name] \in Int /\ -Power[p.width - 1] <= args[p.name] /\ args[p.name] < 2^30
        BY <2>5, <2>7 DEF Small
    <2> QED BY <2>4, <2>5, <2>8 DEF Takes, p
<1> QED BY <1>5

LEMMA CallSpoken ==
    ASSUME NEW name \in Composed, name # "B", NEW args, \A x \in NamesOf(name) : args[x] \in Small
    PROVE  /\ TotalOf(name) = 54 /\ Ends(BitsSaid(Call(name, args))) => Spoken(Call(name, args), 6)
           /\ TotalOf(name) = 27 => Spoken(Call(name, args), 3)
           /\ TotalOf(name) = 18 => Spoken(Call(name, args), 2)
<1> DEFINE c == Call(name, args)
<1>1. c.name = name /\ c.args = args
    BY DEF Call
<1>2. 9 * 6 = 54 /\ 9 * 3 = 27 /\ 9 * 2 = 18 /\ 3 # 6 /\ 2 # 6
    OBVIOUS
<1>3. name \in DOMAIN Instructions /\ name \notin Unnamed
    BY ComposedAre
<1>4. WellFormed(Instructions[name], TotalOf(name), NamesOf(name))
    BY <1>3, InstructionsAre DEF Group
<1>5. Instructions[name] \in Seq(Parts)
    BY <1>4 DEF WellFormed, Sound
<1>6. DOMAIN Instructions[name] = 1 .. Len(Instructions[name])
    BY <1>5
<1>7. \A i \in 1 .. Len(Instructions[name]) : Takes(Instructions[name][i], args)
    BY <1>6, CallTakes
<1> HIDE DEF c
<1>8. \A w \in {2, 3, 6} : (TotalOf(name) = 9 * w /\ (w = 6 => Ends(BitsSaid(c)))) => Spoken(c, w)
    BY <1>1, <1>7 DEF Spoken, BitsSaid, LayoutOf
<1> QED BY <1>2, <1>8 DEF c

LEMMA ThreeSpoken ==
    ASSUME NEW name \in DrawnThree, NEW rA \in Small, NEW rB \in Small, NEW rC \in Small
    PROVE  Spoken(Three(name, rA, rB, rC), 3)
<1> DEFINE args == [rA |-> rA, rB |-> rB, rC |-> rC, UF |-> 1]
<1>1. name \in Composed /\ name # "B"
    BY DEF Composed, DrawnThree
<1>2. TotalOf(name) = 27 /\ NamesOf(name) = {"rA", "rB", "rC", "UF"}
    <2>1. /\ TotalOf("AD") = 27 /\ TotalOf("ADC") = 27 /\ TotalOf("AN") = 27 /\ TotalOf("MU") = 27
          /\ TotalOf("MUS") = 27 /\ TotalOf("OR") = 27 /\ TotalOf("RL") = 27 /\ TotalOf("RR") = 27
          /\ TotalOf("SA") = 27 /\ TotalOf("SB") = 27 /\ TotalOf("SL") = 27 /\ TotalOf("SR") = 27
          /\ TotalOf("XR") = 27
        BY DEF TotalOf, Narrow
    <2>2. /\ NamesOf("AD") = {"rA", "rB", "rC", "UF"} /\ NamesOf("ADC") = {"rA", "rB", "rC", "UF"}
          /\ NamesOf("AN") = {"rA", "rB", "rC", "UF"} /\ NamesOf("MU") = {"rA", "rB", "rC", "UF"}
          /\ NamesOf("MUS") = {"rA", "rB", "rC", "UF"} /\ NamesOf("OR") = {"rA", "rB", "rC", "UF"}
          /\ NamesOf("RL") = {"rA", "rB", "rC", "UF"} /\ NamesOf("RR") = {"rA", "rB", "rC", "UF"}
          /\ NamesOf("SA") = {"rA", "rB", "rC", "UF"} /\ NamesOf("SB") = {"rA", "rB", "rC", "UF"}
          /\ NamesOf("SL") = {"rA", "rB", "rC", "UF"} /\ NamesOf("SR") = {"rA", "rB", "rC", "UF"}
          /\ NamesOf("XR") = {"rA", "rB", "rC", "UF"}
        BY DEF NamesOf, DrawnThree, DrawnWith, DrawnMove
    <2> QED BY <2>1, <2>2 DEF DrawnThree
<1>3. args["rA"] = rA /\ args["rB"] = rB /\ args["rC"] = rC /\ args["UF"] = 1
    OBVIOUS
<1>4. Three(name, rA, rB, rC) = Call(name, args)
    BY DEF Three
<1> HIDE DEF args
<1>5. \A x \in NamesOf(name) : args[x] \in Small
    BY <1>2, <1>3, ZeroOne
<1> QED BY <1>1, <1>2, <1>4, <1>5, CallSpoken

LEMMA WithSpoken ==
    ASSUME NEW name \in DrawnWith \cup {"DVI", "MDI"}, NEW rA \in Small, NEW rB \in Small, NEW n \in Small
    PROVE  Spoken(With(name, rA, rB, n), 3)
<1> DEFINE args == [rA |-> rA, rB |-> rB, Immediate |-> n, UF |-> 1]
<1>1. name \in Composed /\ name # "B"
    BY DEF Composed, DrawnWith
<1>2. TotalOf(name) = 27 /\ NamesOf(name) = {"rA", "rB", "Immediate", "UF"}
    <2>1. /\ TotalOf("ADCI") = 27 /\ TotalOf("ADI") = 27 /\ TotalOf("ANI") = 27 /\ TotalOf("MUI") = 27
          /\ TotalOf("ORI") = 27 /\ TotalOf("RLI") = 27 /\ TotalOf("RRI") = 27 /\ TotalOf("SAI") = 27
          /\ TotalOf("SBI") = 27 /\ TotalOf("SLI") = 27 /\ TotalOf("SRI") = 27 /\ TotalOf("XRI") = 27
          /\ TotalOf("DVI") = 27 /\ TotalOf("MDI") = 27
        BY DEF TotalOf, Narrow
    <2>2. /\ NamesOf("ADCI") = {"rA", "rB", "Immediate", "UF"} /\ NamesOf("ADI") = {"rA", "rB", "Immediate", "UF"}
          /\ NamesOf("ANI") = {"rA", "rB", "Immediate", "UF"} /\ NamesOf("MUI") = {"rA", "rB", "Immediate", "UF"}
          /\ NamesOf("ORI") = {"rA", "rB", "Immediate", "UF"} /\ NamesOf("RLI") = {"rA", "rB", "Immediate", "UF"}
          /\ NamesOf("RRI") = {"rA", "rB", "Immediate", "UF"} /\ NamesOf("SAI") = {"rA", "rB", "Immediate", "UF"}
          /\ NamesOf("SBI") = {"rA", "rB", "Immediate", "UF"} /\ NamesOf("SLI") = {"rA", "rB", "Immediate", "UF"}
          /\ NamesOf("SRI") = {"rA", "rB", "Immediate", "UF"} /\ NamesOf("XRI") = {"rA", "rB", "Immediate", "UF"}
          /\ NamesOf("DVI") = {"rA", "rB", "Immediate", "UF"} /\ NamesOf("MDI") = {"rA", "rB", "Immediate", "UF"}
        BY DEF NamesOf, DrawnThree, DrawnWith, DrawnMove
    <2> QED BY <2>1, <2>2 DEF DrawnWith
<1>3. args["rA"] = rA /\ args["rB"] = rB /\ args["Immediate"] = n /\ args["UF"] = 1
    OBVIOUS
<1>4. With(name, rA, rB, n) = Call(name, args)
    BY DEF With
<1> HIDE DEF args
<1>5. \A x \in NamesOf(name) : args[x] \in Small
    BY <1>2, <1>3, ZeroOne
<1> QED BY <1>1, <1>2, <1>4, <1>5, CallSpoken

LEMMA TwoSpoken ==
    ASSUME NEW name \in DrawnTwo, NEW rA \in Small, NEW rB \in Small
    PROVE  Spoken(Two(name, rA, rB), 2) \/ Spoken(Two(name, rA, rB), 3)
<1> DEFINE args == [rA |-> rA, rB |-> rB, UF |-> 1]
<1>1. name \in Composed /\ name # "B"
    BY DEF Composed, DrawnTwo
<1>2. TotalOf(name) \in {18, 27} /\ NamesOf(name) \subseteq {"rA", "rB", "UF"}
    <2>1. TotalOf("CM") = 18 /\ TotalOf("NG") = 27 /\ TotalOf("NT") = 27
        BY DEF TotalOf, Narrow
    <2>2. NamesOf("CM") = {"rA", "rB"} /\ NamesOf("NG") = {"rA", "rB", "UF"}
          /\ NamesOf("NT") = {"rA", "rB", "UF"}
        BY DEF NamesOf, DrawnThree, DrawnWith, DrawnMove
    <2> QED BY <2>1, <2>2 DEF DrawnTwo
<1>3. args["rA"] = rA /\ args["rB"] = rB /\ args["UF"] = 1
    OBVIOUS
<1>4. Two(name, rA, rB) = Call(name, args)
    BY DEF Two
<1> HIDE DEF args
<1>5. \A x \in NamesOf(name) : args[x] \in Small
    BY <1>2, <1>3, ZeroOne
<1> QED BY <1>1, <1>2, <1>4, <1>5, CallSpoken

LEMMA MoveSpoken ==
    ASSUME NEW name \in DrawnMove \cup {"CMI"}, NEW rA \in Small, NEW n \in Small
    PROVE  Spoken(Move(name, rA, n), 3)
<1> DEFINE args == [rA |-> rA, Immediate |-> n]
<1>1. name \in Composed /\ name # "B"
    BY DEF Composed, DrawnMove
<1>2. TotalOf(name) = 27 /\ NamesOf(name) = {"rA", "Immediate"}
    <2>1. /\ TotalOf("MH") = 27 /\ TotalOf("ML") = 27 /\ TotalOf("MS") = 27 /\ TotalOf("CMI") = 27
        BY DEF TotalOf, Narrow
    <2>2. /\ NamesOf("MH") = {"rA", "Immediate"} /\ NamesOf("ML") = {"rA", "Immediate"}
          /\ NamesOf("MS") = {"rA", "Immediate"} /\ NamesOf("CMI") = {"rA", "Immediate"}
        BY DEF NamesOf, DrawnThree, DrawnWith, DrawnMove
    <2> QED BY <2>1, <2>2 DEF DrawnMove
<1>3. args["rA"] = rA /\ args["Immediate"] = n
    OBVIOUS
<1>4. Move(name, rA, n) = Call(name, args)
    BY DEF Move
<1> HIDE DEF args
<1>5. \A x \in NamesOf(name) : args[x] \in Small
    BY <1>2, <1>3
<1> QED BY <1>1, <1>2, <1>4, <1>5, CallSpoken

LEMMA NoBits ==
    ASSUME NEW w \in 1 .. 27
    PROVE  Padded(0, w) \in Seq(Bit) /\ Len(Padded(0, w)) = w /\ \A i \in 1 .. w : Padded(0, w)[i] = 0
<1>1. w \in 0 .. 30
    OBVIOUS
<1> DEFINE s == Padded(0, w)
<1>2. Spells(s, 0, w)
    BY <1>1, ZeroOne, PaddedSpells
<1> HIDE DEF s
<1>3. s \in Seq(Bit) /\ Len(s) = w /\ \A i \in 1 .. w : s[i] = (0 \div Power[w - i]) % 2
    BY <1>2 DEF Spells
<1>4. \A n \in Nat \ {0} : (0 \div n) % 2 = 0
    BY SMT
<1>5. ASSUME NEW i \in 1 .. w PROVE s[i] = 0
    <2>1. w - i \in 0 .. 30
        BY <1>1
    <2>2. Power[w - i] \in Nat \ {0}
        BY <2>1, PowerTable
    <2> QED BY <1>3, <1>4, <2>2
<1> QED BY <1>3, <1>5 DEF s

\* A store with the least arguments ends in zeros.
LEMMA StoreEnds ==
    ASSUME NEW op \in Small, NEW args, args["rA"] \in Small, args["rB"] \in Small,
           args["RegCount"] = 0, args["AdjustRb"] = 0, args["MemOffset"] = 0
    PROVE  Ends(BitsOfLayout(Store(op), args))
<1> DEFINE a == Fixed(7, op)
           b == Field("unsigned", "rA", 5)
           c == Field("unsigned", "rB", 5)
           d == Field("unsigned", "RegCount", 5)
           e == Field("unsigned", "AdjustRb", 2)
           f == Field("unsigned", "MemOffset", 27)
           h == Fixed(3, 0)
           layout == Store(op)
           bits == BitsOfLayout(layout, args)
<1>1. /\ b.kind = "unsigned" /\ b.name = "rA" /\ c.kind = "unsigned" /\ c.name = "rB"
      /\ d.kind = "unsigned" /\ d.name = "RegCount" /\ e.kind = "unsigned" /\ e.name = "AdjustRb"
      /\ f.kind = "unsigned" /\ f.name = "MemOffset"
      /\ b.width = 5 /\ c.width = 5 /\ d.width = 5 /\ e.width = 2 /\ f.width = 27
    BY DEF Field
<1>2. /\ a.kind = "fixed" /\ a.width = 7
      /\ h.kind = "fixed" /\ h.width = 3 /\ h.value = 0
    BY FixedHas
<1>3. layout = <<a, b, c, d, e, f, h>>
    BY DEF Store, Memory, Register, Unsigned
<1>4. layout \in Seq(Parts)
    <2>1. WellFormed(Store(op), 54, {"rA", "rB", "RegCount", "AdjustRb", "MemOffset"})
        BY StoreIs
    <2> QED BY <2>1 DEF WellFormed, Sound
<1> HIDE DEF a, b, c, d, e, f, h, layout
<1>5. /\ Len(layout) = 7 /\ layout[1] = a /\ layout[2] = b /\ layout[3] = c /\ layout[4] = d
      /\ layout[5] = e /\ layout[6] = f /\ layout[7] = h
    BY <1>3
<1>6. \A i \in 1 .. 7 : i = 1 \/ i = 2 \/ i = 3 \/ i = 4 \/ i = 5 \/ i = 6 \/ i = 7
    OBVIOUS
<1>7. Takes(a, args) /\ Takes(b, args) /\ Takes(c, args) /\ Takes(d, args) /\ Takes(e, args)
      /\ Takes(f, args) /\ Takes(h, args)
    BY <1>1, <1>2, ZeroOne DEF Takes
<1>8. \A i \in 1 .. Len(layout) : Takes(layout[i], args)
    BY <1>5, <1>6, <1>7
<1>9. Shaped(layout)
    BY <1>4, PartsShaped
<1>10. PICK g : Widths(g, layout)
    BY <1>9, LaidOut
<1>11. /\ bits \in Seq(Bit) /\ Len(bits) = g[Len(layout)]
       /\ \A i \in 1 .. Len(layout) :
            \A j \in 1 .. layout[i].width : bits[g[i - 1] + j] = PartBits(layout[i], args)[j]
    BY <1>4, <1>8, <1>10, BitsPlaces
<1>12. \A p \in 1 .. g[Len(layout)] :
             \E i \in 1 .. Len(layout) : \E j \in 1 .. layout[i].width : p = g[i - 1] + j
    BY <1>9, <1>10, Covered
<1>13. g[0] = 0 /\ g[1] = 7 /\ g[2] = 12 /\ g[3] = 17 /\ g[4] = 22 /\ g[5] = 24 /\ g[6] = 51 /\ g[7] = 54
    <2>1. g[0] = 0 /\ \A i \in 1 .. 7 : g[i] = g[i - 1] + layout[i].width
        BY <1>5, <1>10 DEF Widths
    <2>2. g[1] = g[0] + 7
        BY <1>2, <1>5, <2>1
    <2>3. g[2] = g[1] + 5
        BY <1>1, <1>5, <2>1
    <2>4. g[3] = g[2] + 5
        BY <1>1, <1>5, <2>1
    <2>5. g[4] = g[3] + 5
        BY <1>1, <1>5, <2>1
    <2>6. g[5] = g[4] + 2
        BY <1>1, <1>5, <2>1
    <2>7. g[6] = g[5] + 27
        BY <1>1, <1>5, <2>1
    <2>8. g[7] = g[6] + 3
        BY <1>2, <1>5, <2>1
    <2> QED BY <2>1, <2>2, <2>3, <2>4, <2>5, <2>6, <2>7, <2>8
<1>14. /\ PartBits(d, args) = Padded(0, 5) /\ PartBits(e, args) = Padded(0, 2)
       /\ PartBits(f, args) = Padded(0, 27) /\ PartBits(h, args) = Padded(0, 3)
    BY <1>1, <1>2 DEF PartBits
<1>15. ASSUME NEW i \in {4, 5, 6, 7}, NEW j \in 1 .. layout[i].width
       PROVE  PartBits(layout[i], args)[j] = 0
    <2>1. 5 \in 1 .. 27 /\ 2 \in 1 .. 27 /\ 27 \in 1 .. 27 /\ 3 \in 1 .. 27
        OBVIOUS
    <2>2. layout[i].width \in 1 .. 27 /\ PartBits(layout[i], args) = Padded(0, layout[i].width)
        BY <1>1, <1>2, <1>5, <1>14, <2>1
    <2> QED BY <2>2, NoBits
<1> HIDE DEF bits
<1>16. ASSUME NEW p \in 18 .. 54 PROVE bits[p] = 0
    <2>1. p \in 1 .. g[Len(layout)]
        BY <1>5, <1>13
    <2>2. PICK i \in 1 .. Len(layout) : \E j \in 1 .. layout[i].width : p = g[i - 1] + j
        BY <1>12, <2>1
    <2>3. PICK j \in 1 .. layout[i].width : p = g[i - 1] + j
        BY <2>2
    <2>4. i \in {4, 5, 6, 7}
        <3>1. ASSUME i \in {1, 2, 3} PROVE FALSE
            <4>1. layout[1].width = 7 /\ layout[2].width = 5 /\ layout[3].width = 5
                BY <1>1, <1>2, <1>5
            <4>2. i - 1 \in {0, 1, 2} /\ (i = 1 => i - 1 = 0) /\ (i = 2 => i - 1 = 1) /\ (i = 3 => i - 1 = 2)
                BY <3>1
            <4>3. g[i - 1] + layout[i].width \in {7, 12, 17} /\ g[i - 1] \in Nat /\ layout[i].width \in Nat
                BY <1>13, <3>1, <4>1, <4>2
            <4> DEFINE x == g[i - 1]
                       y == layout[i].width
            <4>4. p = x + j /\ j \in 1 .. y
                BY <2>3
            <4> HIDE DEF x, y
            <4>5. x + y \in {7, 12, 17} /\ x \in Nat /\ y \in Nat
                BY <4>3 DEF x, y
            <4> QED BY <4>4, <4>5
        <3> QED BY <1>5, <1>6, <3>1
    <2>5. bits[p] = PartBits(layout[i], args)[j]
        BY <1>11, <2>3
    <2> QED BY <1>15, <2>4, <2>5
<1>17. Ends(bits)
    BY <1>16 DEF Ends
<1> QED BY <1>17 DEF bits, layout

LEMMA StoresSpoken ==
    ASSUME NEW name \in {"STS", "STT"}, NEW rA \in Small, NEW rB \in Small
    PROVE  Spoken(Stores(name, rA, rB), 6)
<1> DEFINE args == [rA |-> rA, rB |-> rB, RegCount |-> 0, AdjustRb |-> 0, MemOffset |-> 0]
<1>1. name \in Composed /\ name # "B"
    BY DEF Composed
<1>2. TotalOf(name) = 54 /\ NamesOf(name) = {"rA", "rB", "RegCount", "AdjustRb", "MemOffset"}
    BY DEF TotalOf, Narrow, NamesOf, DrawnThree, DrawnWith, DrawnMove
<1>3. args["rA"] = rA /\ args["rB"] = rB /\ args["RegCount"] = 0 /\ args["AdjustRb"] = 0
      /\ args["MemOffset"] = 0
    OBVIOUS
<1>4. Stores(name, rA, rB) = Call(name, args)
    BY DEF Stores
<1>6. Ends(BitsSaid(Call(name, args)))
    <2>1. Shows(Instructions[name], name)
        BY <1>1, ComposedAre, InstructionsShow DEF Showing
    <2>2. PICK op \in Small : Instructions[name] = Store(op)
        BY <2>1 DEF Shows
    <2>3. Call(name, args).name = name /\ Call(name, args).args = args
        BY DEF Call
    <2> HIDE DEF args
    <2>4. Ends(BitsOfLayout(Store(op), args))
        BY <1>3, StoreEnds
    <2> QED BY <2>2, <2>3, <2>4 DEF BitsSaid, LayoutOf
<1> HIDE DEF args
<1>5. \A x \in NamesOf(name) : args[x] \in Small
    BY <1>2, <1>3, ZeroOne
<1> QED BY <1>1, <1>2, <1>4, <1>5, <1>6, CallSpoken

LEMMA HaltSpoken == Spoken(Halt, 2)
<1>1. "HT" \in Composed /\ "HT" # "B"
    BY DEF Composed
<1>2. TotalOf("HT") = 18 /\ NamesOf("HT") = {}
    BY DEF TotalOf, Narrow, NamesOf, DrawnThree, DrawnWith, DrawnMove
<1>3. \A x \in NamesOf("HT") : <<>>[x] \in Small
    BY <1>2
<1> QED BY <1>1, <1>2, <1>3, CallSpoken DEF Halt

\* A branch back to where its loop begins.
LEMMA BackSpoken ==
    ASSUME NEW offset \in -100 .. 0
    PROVE  Spoken(Back("N", offset), 3)
<1> DEFINE args == [Condition |-> "N", Offset |-> offset]
           b == Condition
           c == Field("signed", "Offset", 17)
           layout == Instructions["B"]
<1>1. "B" \in Composed /\ "B" \in DOMAIN Instructions
    BY ComposedAre DEF Composed
<1>2. Shows(layout, "B")
    BY <1>1, InstructionsShow DEF Showing
<1>3. PICK op \in Small : layout = Branch(op)
    BY <1>2 DEF Shows
<1> DEFINE a == Fixed(6, op)
<1>4. layout = <<a, b, c>>
    BY <1>3 DEF Branch, Signed
<1>5. b.kind = "condition" /\ c.kind = "signed" /\ c.name = "Offset" /\ c.width = 17
    BY DEF Condition, Field
<1>6. a.kind = "fixed"
    BY FixedHas
<1>7. args["Condition"] = "N" /\ args["Offset"] = offset
    OBVIOUS
<1>8. Back("N", offset) = Call("B", args)
    BY DEF Back
<1> HIDE DEF args, layout, a, b, c
<1>9. Takes(a, args)
    BY <1>6 DEF Takes
<1>10. Takes(b, args)
    <2>1. "N" \in DOMAIN Conditions /\ "N" # "SL"
        BY DEF Conditions
    <2> QED BY <1>5, <1>7, <2>1, OnlySLShadowed DEF Takes
<1>11. Takes(c, args)
    <2>1. -Power[17 - 1] <= offset
        <3>1. 16 \in 0 .. 30 /\ 7 \in 0 .. 30 /\ 17 - 1 = 16
            OBVIOUS
        <3>2. Power[7] = 128 /\ Power[7] <= Power[16] /\ Power[16] \in Nat
            <4>1. Power[7] = 2^7
                BY <3>1, PowerTable
            <4>2. 2^7 = 128
                BY SMT
            <4> QED BY <3>1, <4>1, <4>2, PowerTable
        <3> QED BY <3>1, <3>2
    <2>2. offset < 2^30 /\ offset \in Int
        BY SMT
    <2> QED BY <1>5, <1>7, <2>1, <2>2 DEF Takes
<1>12. \A i \in 1 .. Len(layout) : Takes(layout[i], args)
    BY <1>4, <1>9, <1>10, <1>11
<1>13. TotalOf("B") = 9 * 3
    BY DEF TotalOf, Narrow
<1>14. Call("B", args).name = "B" /\ Call("B", args).args = args
    BY DEF Call
<1> QED BY <1>1, <1>8, <1>12, <1>13, <1>14 DEF Spoken, layout

-----------------------------------------------------------------------------
(* What the machine does at a call.                                          *)

Fields == {"state", "code", "pc", "zero", "reg", "mem", "scramble", "printed"}
\* The machine as it runs a program.
Runs == DOMAIN machine = Fields /\ machine.state = "on" /\ DOMAIN machine.reg = Used
\* What of it a step of the program leaves alone, and where it goes on.
Goes(pc) ==
    /\ DOMAIN machine' = Fields /\ machine'.state = "on" /\ DOMAIN machine'.reg = Used
    /\ machine'.code = machine.code /\ machine'.pc = pc
Keeps(registers) == \A r \in registers : machine'.reg[r] = machine.reg[r]

\* What Execute does with an instruction.
Does(instruction) ==
    LET name == instruction.name
        args == instruction.args
        reg  == machine.reg
        then == [machine EXCEPT !.pc = instruction.next]
    IN  \/ name = "HT" /\ machine' = [machine EXCEPT !.state = "halted"]
        \/ /\ name = "B" /\ args.Condition = Conditions.N
           /\ machine' = IF machine.zero THEN then ELSE [machine EXCEPT !.pc = @ + Offset(args.Offset)]
        \/ /\ name \in {"STS", "STT"} /\ {args.rA, args.rB} \subseteq Used
           /\ machine' = [then EXCEPT !.mem = Over([address \in {reg[args.rB]} |-> Stored(name, reg[args.rA])], @)]
        \/ /\ name \in {"ML", "MH"} /\ args.rA \in Used
           /\ machine' = [then EXCEPT !.reg[args.rA] = Computed(name, @, 0, args.Immediate)]
        \/ /\ name \in Arithmetic /\ {args.rA, args.rB} \subseteq Used
           /\ \E result \in {Computed(name, 0, reg[args.rB], args.Immediate)} :
                machine' = [then EXCEPT !.zero = (result = 0), !.reg[args.rA] = result]
        \/ /\ name \notin {"HT", "B"} /\ args.rA \in AvailableRegisters
           /\ \E zero \in BOOLEAN : machine' = [then EXCEPT !.zero = zero]

LEMMA Executing ==
    ASSUME NEW c, NEW w, Lying(c, w, machine.pc), Execute
    PROVE  Does(ReadCall(c, w, machine.pc))
<1>1. Decoded(machine.pc) = {ReadCall(c, w, machine.pc)}
    BY Decoding
<1> DEFINE r == ReadCall(c, w, machine.pc)
<1> HIDE DEF r
<1>2. Decoded(machine.pc) = {r} /\ Decoded(machine.pc) # {}
    BY <1>1 DEF r
<1>3. \E instruction \in Decoded(machine.pc) : Does(instruction)
    BY <1>2, Zenon DEF Execute, Does
<1>4. Does(r)
    BY <1>2, <1>3
<1> QED BY <1>4 DEF r

LEMMA ReadIs ==
    ASSUME NEW c, NEW w, NEW pc
    PROVE  ReadCall(c, w, pc).name = c.name /\ ReadCall(c, w, pc).next = pc + w
BY DEF ReadCall

\* A number into a register.
LEMMA MoveDone ==
    ASSUME NEW name \in {"ML", "MH"}, NEW rA \in Used, NEW n \in Long,
           NEW w, Lying(Move(name, rA, n), w, machine.pc), Execute, Runs
    PROVE  /\ Goes(machine.pc + w) /\ Keeps(Used \ {rA}) /\ machine'.mem = machine.mem
           /\ machine'.reg[rA] = Computed(name, machine.reg[rA], 0, n)
<1> DEFINE c == Move(name, rA, n)
           r == ReadCall(c, w, machine.pc)
<1>1. c.name = name /\ c.args["rA"] = rA /\ c.args["Immediate"] = n
    BY DEF Move, Call
<1>2. r.name = name /\ r.next = machine.pc + w
    BY <1>1, ReadIs
<1>3. Does(r)
    BY Executing
<1>4. rA \in 0 .. 31 /\ rA \notin AvailableRegisters
    BY DEF Used, AvailableRegisters
<1>5. r.args["rA"] = rA /\ r.args["Immediate"] = n
    BY <1>1, <1>4, ArgumentsDecoded
<1> HIDE DEF c, r
<1>6. machine' = [[machine EXCEPT !.pc = r.next] EXCEPT !.reg[rA] = Computed(name, @, 0, n)]
    BY <1>2, <1>3, <1>4, <1>5 DEF Does, Arithmetic
<1> QED BY <1>2, <1>6 DEF Runs, Goes, Keeps, Fields

\* Arithmetic, of a register and a number.
LEMMA WithDone ==
    ASSUME NEW name \in Arithmetic, NEW rA \in Used, NEW rB \in Used, NEW n \in 0 .. 127,
           NEW w, Lying(With(name, rA, rB, n), w, machine.pc), Execute, Runs
    PROVE  /\ Goes(machine.pc + w) /\ Keeps(Used \ {rA}) /\ machine'.mem = machine.mem
           /\ machine'.reg[rA] = Computed(name, 0, machine.reg[rB], n)
           /\ machine'.zero = (Computed(name, 0, machine.reg[rB], n) = 0)
<1> DEFINE c == With(name, rA, rB, n)
           r == ReadCall(c, w, machine.pc)
<1>1. c.name = name /\ c.args["rA"] = rA /\ c.args["rB"] = rB /\ c.args["Immediate"] = n
    BY DEF With, Call
<1>2. r.name = name /\ r.next = machine.pc + w
    BY <1>1, ReadIs
<1>3. Does(r)
    BY Executing
<1>4. rA \in 0 .. 31 /\ rB \in 0 .. 31 /\ rA \notin AvailableRegisters
    BY DEF Used, AvailableRegisters
<1>5. name \notin {"B", "HT", "STS", "STT", "ML", "MH"}
    BY DEF Arithmetic
<1>6. r.args["rA"] = rA /\ r.args["rB"] = rB /\ r.args["Immediate"] = n
    BY <1>1, <1>4, <1>5, ArgumentsDecoded
<1> HIDE DEF c, r
<1> DEFINE v == Computed(name, 0, machine.reg[rB], n)
<1>7. \E result \in {v} :
         machine' = [[machine EXCEPT !.pc = r.next] EXCEPT !.zero = (result = 0), !.reg[rA] = result]
    BY <1>2, <1>3, <1>4, <1>5, <1>6 DEF Does
<1> HIDE DEF v
<1>8. machine' = [[machine EXCEPT !.pc = r.next] EXCEPT !.zero = (v = 0), !.reg[rA] = v]
    BY <1>7
<1> QED BY <1>2, <1>8 DEF Runs, Goes, Keeps, Fields, v

\* A register into the memory.
LEMMA StoresDone ==
    ASSUME NEW name \in {"STS", "STT"}, NEW rA \in Used, NEW rB \in Used,
           NEW w, Lying(Stores(name, rA, rB), w, machine.pc), Execute, Runs
    PROVE  /\ Goes(machine.pc + w) /\ machine'.reg = machine.reg
           /\ DOMAIN machine'.mem = (DOMAIN machine.mem) \cup {machine.reg[rB]}
           /\ machine'.mem[machine.reg[rB]] = Stored(name, machine.reg[rA])
           /\ \A i \in (DOMAIN machine.mem) \ {machine.reg[rB]} : machine'.mem[i] = machine.mem[i]
<1> DEFINE c == Stores(name, rA, rB)
           r == ReadCall(c, w, machine.pc)
<1>1. c.name = name /\ c.args["rA"] = rA /\ c.args["rB"] = rB
    BY DEF Stores, Call
<1>2. r.name = name /\ r.next = machine.pc + w
    BY <1>1, ReadIs
<1>3. Does(r)
    BY Executing
<1>4. rA \in 0 .. 31 /\ rB \in 0 .. 31 /\ rA \notin AvailableRegisters
    BY DEF Used, AvailableRegisters
<1>5. name \notin {"B", "HT", "ML", "MH"} \cup Arithmetic
    BY DEF Arithmetic
<1>6. r.args["rA"] = rA /\ r.args["rB"] = rB
    BY <1>1, <1>4, <1>5, ArgumentsDecoded
<1> HIDE DEF c, r
<1> DEFINE a == machine.reg[rB]
           v == Stored(name, machine.reg[rA])
           one == [address \in {a} |-> v]
<1>7. machine' = [[machine EXCEPT !.pc = r.next] EXCEPT !.mem = Over(one, @)]
    BY <1>2, <1>3, <1>4, <1>5, <1>6 DEF Does
<1>8. DOMAIN one = {a} /\ one[a] = v
    OBVIOUS
<1> HIDE DEF one, a, v
<1>9. /\ Goes(machine.pc + w) /\ machine'.reg = machine.reg /\ machine'.mem = Over(one, machine.mem)
    BY <1>2, <1>7 DEF Runs, Goes, Fields
<1> DEFINE m == machine'.mem
           old == machine.mem
<1> HIDE DEF m, old
<1>10. m = Over(one, old)
    BY <1>9 DEF m, old
<1>11. /\ DOMAIN m = (DOMAIN one) \cup DOMAIN old
       /\ \A x \in DOMAIN one : m[x] = one[x]
       /\ \A x \in (DOMAIN old) \ DOMAIN one : m[x] = old[x]
    <2> DEFINE h == Over(one, old)
    <2>1. /\ DOMAIN h = (DOMAIN one) \cup DOMAIN old
          /\ \A x \in DOMAIN one : h[x] = one[x]
          /\ \A x \in (DOMAIN old) \ DOMAIN one : h[x] = old[x]
        BY Merged
    <2> HIDE DEF h
    <2>2. m = h
        BY <1>10 DEF h
    <2> QED BY <2>1, <2>2
<1> QED BY <1>8, <1>9, <1>11 DEF a, v, m, old

\* A branch back while the last result was not zero.
LEMMA BackDone ==
    ASSUME NEW offset \in -100 .. -1, NEW w, Lying(Back("N", offset), w, machine.pc), Execute, Runs,
           machine.pc \in Nat
    PROVE  /\ machine.zero => Goes(machine.pc + w)
           /\ ~ machine.zero => Goes(machine.pc + offset)
           /\ machine'.reg = machine.reg /\ machine'.mem = machine.mem
<1> DEFINE c == Back("N", offset)
           r == ReadCall(c, w, machine.pc)
<1>1. c.name = "B" /\ c.args["Condition"] = "N" /\ c.args["Offset"] = offset
    BY DEF Back, Call
<1>2. r.name = "B" /\ r.next = machine.pc + w
    BY <1>1, ReadIs
<1>3. Does(r)
    BY Executing
<1>4. r.args["Condition"] = Conditions["N"] /\ r.args["Offset"] = offset + Power[17]
    BY <1>1, ArgumentsDecoded
<1> HIDE DEF c, r
<1>5. Offset(offset + Power[17]) = offset
    <2>1. 17 \in 0 .. 30
        OBVIOUS
    <2>2. Power[17] = 2^17
        BY <2>1, PowerTable
    <2>3. 2^17 = 131072 /\ 2^16 = 65536
        BY SMT
    <2> QED BY <2>2, <2>3, SMT DEF Offset
<1>6. machine' = IF machine.zero THEN [machine EXCEPT !.pc = r.next]
                 ELSE [machine EXCEPT !.pc = @ + Offset(r.args.Offset)]
    BY <1>2, <1>3 DEF Does, Arithmetic
<1>7. machine' = IF machine.zero THEN [machine EXCEPT !.pc = machine.pc + w]
                 ELSE [machine EXCEPT !.pc = machine.pc + offset]
    BY <1>2, <1>4, <1>5, <1>6
<1> QED BY <1>7 DEF Runs, Goes, Fields

\* An instruction strewn in.
Strewn(c) ==
    c.name \in DrawnThree \cup DrawnWith \cup DrawnTwo \cup {"CMI"} \cup DrawnMove
      /\ c.args["rA"] \in AvailableRegisters

LEMMA StrewnDone ==
    ASSUME NEW c, NEW w, Strewn(c), Lying(c, w, machine.pc), Execute, Runs
    PROVE  Goes(machine.pc + w) /\ machine'.reg = machine.reg /\ machine'.mem = machine.mem
<1> DEFINE r == ReadCall(c, w, machine.pc)
<1>1. r.name = c.name /\ r.next = machine.pc + w
    BY ReadIs
<1>2. Does(r)
    BY Executing
<1>3. c.name \notin {"B", "HT", "STS", "STT"} /\ c.args["rA"] \in AvailableRegisters
    BY DEF Strewn, DrawnThree, DrawnWith, DrawnTwo, DrawnMove
<1>4. c.args["rA"] \in 0 .. 31 /\ c.args["rA"] \notin Used
    BY <1>3 DEF Used, AvailableRegisters
<1>5. r.args["rA"] = c.args["rA"]
    BY <1>3, <1>4, ArgumentsDecoded
<1> HIDE DEF r
<1>6. \E zero \in BOOLEAN : machine' = [[machine EXCEPT !.pc = r.next] EXCEPT !.zero = zero]
    BY <1>1, <1>2, <1>3, <1>4, <1>5, Zenon DEF Does
<1> QED BY <1>1, <1>6 DEF Runs, Goes, Fields

LEMMA HaltDone ==
    ASSUME NEW w, Lying(Halt, w, machine.pc), Execute, Runs
    PROVE  machine' = [machine EXCEPT !.state = "halted"]
<1> DEFINE r == ReadCall(Halt, w, machine.pc)
<1>1. Halt.name = "HT"
    BY DEF Halt, Call
<1>2. r.name = "HT"
    BY <1>1, ReadIs
<1>3. Does(r)
    BY Executing
<1> HIDE DEF r
<1> QED BY <1>2, <1>3 DEF Does, Arithmetic

-----------------------------------------------------------------------------
(* The numbers of the tests.                                                 *)

Quotient(t) == Output \div 10^t

LEMMA TenTable ==
    10^0 = 1 /\ 10^1 = 10 /\ 10^2 = 100 /\ 10^3 = 1000 /\ 10^4 = 10000 /\ 10^5 = 100000
BY SMT

LEMMA Dividing ==
    ASSUME NEW n \in Outputs
    PROVE  /\ n \div 1 = n /\ n \div 10 \in Outputs /\ n \div 100 \in Outputs /\ n \div 1000 \in Outputs
           /\ n \div 10000 \in Outputs
           /\ (n \div 10) \div 10 = n \div 100 /\ (n \div 100) \div 10 = n \div 1000
           /\ (n \div 1000) \div 10 = n \div 10000 /\ (n \div 10000) \div 10 = n \div 100000
           /\ (n \div 10 = 0 <=> n < 10) /\ (n \div 100 = 0 <=> n < 100) /\ (n \div 1000 = 0 <=> n < 1000)
           /\ (n \div 10000 = 0 <=> n < 10000) /\ (n \div 100000 = 0 <=> n < 100000)
<1>1. n \in Int /\ 0 <= n /\ n <= 16129
    BY SMT DEF Outputs
<1>2. n \div 1 = n /\ n \div 10 \in Outputs /\ n \div 100 \in Outputs /\ n \div 1000 \in Outputs /\ n \div 10000 \in Outputs
    <2>1. n \div 1 = n
        BY <1>1, SMT
    <2>2. n \div 10 \in Int /\ 0 <= n \div 10 /\ n \div 10 <= 16129
        BY <1>1, SMT
    <2>3. n \div 100 \in Int /\ 0 <= n \div 100 /\ n \div 100 <= 16129
        BY <1>1, SMT
    <2>4. n \div 1000 \in Int /\ 0 <= n \div 1000 /\ n \div 1000 <= 16129
        BY <1>1, SMT
    <2>5. n \div 10000 \in Int /\ 0 <= n \div 10000 /\ n \div 10000 <= 16129
        BY <1>1, SMT
    <2>6. \A q : q \in Int /\ 0 <= q /\ q <= 16129 => q \in Outputs
        BY SMT DEF Outputs
    <2> QED BY <2>1, <2>2, <2>3, <2>4, <2>5, <2>6
<1>3. (n \div 10) \div 10 = n \div 100 /\ (n \div 100) \div 10 = n \div 1000
    BY <1>1, SMT
<1>4. (n \div 1000) \div 10 = n \div 10000 /\ (n \div 10000) \div 10 = n \div 100000
    BY <1>1, SMT
<1>5. /\ (n \div 10 = 0 <=> n < 10) /\ (n \div 100 = 0 <=> n < 100) /\ (n \div 1000 = 0 <=> n < 1000)
      /\ (n \div 10000 = 0 <=> n < 10000) /\ (n \div 100000 = 0 <=> n < 100000)
    BY <1>1, SMT
<1> QED BY <1>2, <1>3, <1>4, <1>5

\* The digits of a number.
LEMMA ReversedIs ==
    ASSUME NEW n \in Outputs
    PROVE  \E k \in 1 .. 5 :
             /\ n < 10^k /\ (k = 1 \/ n >= 10^(k - 1))
             /\ Len(Reversed(n)) = k /\ DOMAIN Reversed(n) = 1 .. k
             /\ Reversed(n) = [i \in 1 .. k |-> Reversed(n)[i]]
             /\ \A i \in 1 .. k : Reversed(n)[i] = 48 + ((n \div 10^(i - 1)) % 10)
<1> DEFINE Is(k) == n < 10^k /\ (k = 1 \/ n >= 10^(k - 1))
           length == CHOOSE k \in 1 .. 9 : Is(k)
           digits == [i \in 1 .. length |-> 48 + ((n \div 10^(i - 1)) % 10)]
<1>1. /\ 10^1 = 10 /\ 10^2 = 100 /\ 10^3 = 1000 /\ 10^4 = 10000 /\ 10^5 = 100000
      /\ 2 - 1 = 1 /\ 3 - 1 = 2 /\ 4 - 1 = 3 /\ 5 - 1 = 4
    BY SMT
<1>2. \/ n < 10 \/ (n >= 10 /\ n < 100) \/ (n >= 100 /\ n < 1000)
      \/ (n >= 1000 /\ n < 10000) \/ (n >= 10000 /\ n < 100000)
    BY SMT DEF Outputs
<1>3. (n < 10 => Is(1)) /\ (n >= 10 /\ n < 100 => Is(2)) /\ (n >= 100 /\ n < 1000 => Is(3))
    BY <1>1, SMT
<1>4. (n >= 1000 /\ n < 10000 => Is(4)) /\ (n >= 10000 /\ n < 100000 => Is(5))
    BY <1>1, SMT
<1>5. n \in Int /\ n < 100000
    BY SMT DEF Outputs
<1>6. ~ Is(6) /\ ~ Is(7) /\ ~ Is(8) /\ ~ Is(9)
    <2>1. /\ 6 - 1 = 5 /\ 7 - 1 = 6 /\ 8 - 1 = 7 /\ 9 - 1 = 8
          /\ 10^5 = 100000 /\ 10^6 = 1000000 /\ 10^7 = 10000000 /\ 10^8 = 100000000
        BY SMT
    <2> QED BY <1>5, <2>1, SMT
<1> HIDE DEF Is
<1>7. \E k \in 1 .. 9 : Is(k)
    <2>1. 1 \in 1 .. 9 /\ 2 \in 1 .. 9 /\ 3 \in 1 .. 9 /\ 4 \in 1 .. 9 /\ 5 \in 1 .. 9
        OBVIOUS
    <2> QED BY <1>2, <1>3, <1>4, <2>1, SMT
<1>8. length \in 1 .. 9 /\ Is(length)
    BY <1>7
<1>9. Reversed(n) = digits
    BY DEF Reversed, Is
<1> HIDE DEF length
<1>10. length \in 1 .. 5
    <2>1. length \in {1, 2, 3, 4, 5, 6, 7, 8, 9}
        BY <1>8
    <2> QED BY <1>6, <1>8, <2>1
<1> DEFINE S == {48 + ((n \div 10^(i - 1)) % 10) : i \in 1 .. length}
<1>11. /\ DOMAIN digits = 1 .. length /\ digits = [i \in 1 .. length |-> digits[i]]
       /\ (\A i \in 1 .. length : digits[i] \in S) /\ length \in Nat
       /\ \A i \in 1 .. length : digits[i] = 48 + ((n \div 10^(i - 1)) % 10)
    BY <1>10
<1> HIDE DEF digits, S
<1>12. Len(digits) = length
    BY <1>11, FunctionIsSeq
<1> QED BY <1>8, <1>9, <1>10, <1>11, <1>12 DEF Is

\* What the test of an echo expects.
LEMMA EchoExpects ==
    ASSUME Drawn, test = "echo"
    PROVE  /\ NumChars \in 1 .. 20 /\ job[2] \in 33 .. 126
           /\ ExpectedResponse = [i \in 1 .. NumChars |-> job[2]]
<1> DEFINE n == job[1]
           c == job[2]
           expected == [i \in 1 .. n |-> c]
<1>1. n \in 1 .. 20 /\ c \in 33 .. 126
    BY JobsAssumption DEF Drawn
<1>2. ExpectedResponse = expected
    BY DEF ExpectedResponse
<1> HIDE DEF n, c
<1>3. DOMAIN expected = 1 .. n /\ expected = [i \in 1 .. n |-> expected[i]]
      /\ (\A i \in 1 .. n : expected[i] \in {c}) /\ n \in Nat
    BY <1>1
<1>4. Len(expected) = n
    <2> HIDE DEF expected
    <2> QED BY <1>3, FunctionIsSeq
<1>5. NumChars = n
    BY <1>2, <1>4 DEF NumChars
<1> QED BY <1>1, <1>2, <1>5 DEF c

\* What the operation comes to.
LEMMA OutputIs ==
    ASSUME Drawn, test = "math"
    PROVE  /\ Output \in Outputs /\ Input1 \in 1 .. 127 /\ Input2 \in 1 .. 127
           /\ \/ job[1] = "+" /\ Output = Input1 + Input2
              \/ job[1] = "-" /\ Output = Input1 - Input2
              \/ job[1] = "*" /\ Output = Input1 * Input2
              \/ job[1] = "/" /\ Output = Input1 \div Input2
<1> DEFINE x == job[2]
           y == job[3]
<1>1. job[1] \in {"+", "-", "*", "/"} /\ x \in 1 .. 127 /\ y \in 1 .. 127
    BY JobsAssumption DEF Drawn
<1>2. Output = CASE job[1] = "+" -> x + y
                 [] job[1] = "-" -> IF x < y THEN y - x ELSE x - y
                 [] job[1] = "*" -> x * y
                 [] job[1] = "/" -> x \div y
    BY DEF Output
<1>3. /\ Input1 = IF job[1] = "-" /\ x < y THEN y ELSE x
      /\ Input2 = IF job[1] = "-" /\ x < y THEN x ELSE y
    BY DEF Input1, Input2
<1> HIDE DEF x, y
<1>4. Input1 \in 1 .. 127 /\ Input2 \in 1 .. 127
    BY <1>1, <1>3
<1>5. CASE job[1] = "+"
    <2>1. Output = x + y /\ Input1 = x /\ Input2 = y
        BY <1>2, <1>3, <1>5
    <2>2. x + y \in Outputs
        BY <1>1, SMT DEF Outputs
    <2> QED BY <1>4, <1>5, <2>1, <2>2
<1>6. CASE job[1] = "-"
    <2>1. Output = (IF x < y THEN y - x ELSE x - y)
        BY <1>2, <1>6
    <2>2. CASE x < y
        <3>1. Output = y - x /\ Input1 = y /\ Input2 = x
            BY <1>3, <1>6, <2>1, <2>2
        <3>2. y - x \in Outputs
            BY <1>1, <2>2, SMT DEF Outputs
        <3> QED BY <1>4, <1>6, <3>1, <3>2
    <2>3. CASE ~(x < y)
        <3>1. Output = x - y /\ Input1 = x /\ Input2 = y
            BY <1>3, <1>6, <2>1, <2>3
        <3>2. x - y \in Outputs
            BY <1>1, <2>3, SMT DEF Outputs
        <3> QED BY <1>4, <1>6, <3>1, <3>2
    <2> QED BY <2>2, <2>3
<1>7. CASE job[1] = "*"
    <2> DEFINE v == x * y
    <2>1. v \in Outputs
        BY <1>1, ProductBound
    <2>2. Output = v
        BY <1>2, <1>7
    <2>3. Input1 = x /\ Input2 = y
        BY <1>3, <1>7
    <2>4. Output = Input1 * Input2
        BY <2>2, <2>3
    <2> HIDE DEF v
    <2> QED BY <1>4, <1>7, <2>1, <2>2, <2>4
<1>8. CASE job[1] = "/"
    <2> DEFINE v == x \div y
    <2>1. v \in Outputs
        <3>1. v \in 0 .. 127
            BY <1>1, QuotientBound
        <3> HIDE DEF v
        <3> QED BY <3>1, SMT DEF Outputs
    <2>2. Output = v
        BY <1>2, <1>8
    <2>3. Input1 = x /\ Input2 = y
        BY <1>3, <1>8
    <2>4. Output = Input1 \div Input2
        BY <2>2, <2>3
    <2> HIDE DEF v
    <2> QED BY <1>4, <1>8, <2>1, <2>2, <2>4
<1> QED BY <1>1, <1>5, <1>6, <1>7, <1>8

\* What its test expects: the digits, as they are divided off.
LEMMA MathExpects ==
    ASSUME Drawn, test = "math"
    PROVE  /\ NumChars \in 1 .. 5
           /\ ExpectedResponse = [i \in 1 .. NumChars |-> ExpectedResponse[i]]
           /\ Quotient(0) = Output
           /\ \A t \in 0 .. NumChars - 1 :
                /\ Quotient(t) \in Outputs /\ Quotient(t + 1) = Quotient(t) \div 10
                /\ ExpectedResponse[t + 1] = 48 + (Quotient(t) % 10)
                /\ Quotient(t + 1) = 0 <=> t + 1 = NumChars
<1> DEFINE n == Output
           r == Reversed(n)
<1>1. n \in Outputs /\ ExpectedResponse = r
    BY OutputIs DEF ExpectedResponse
<1>2. PICK k \in 1 .. 5 :
             /\ n < 10^k /\ (k = 1 \/ n >= 10^(k - 1))
             /\ Len(r) = k /\ DOMAIN r = 1 .. k
             /\ r = [i \in 1 .. k |-> r[i]]
             /\ \A i \in 1 .. k : r[i] = 48 + ((n \div 10^(i - 1)) % 10)
    BY <1>1, ReversedIs
<1> HIDE DEF r
<1>3. NumChars = k
    BY <1>1, <1>2 DEF NumChars
<1> HIDE DEF n
<1>4. /\ Quotient(0) = n /\ Quotient(1) = n \div 10 /\ Quotient(2) = n \div 100 /\ Quotient(3) = n \div 1000
      /\ Quotient(4) = n \div 10000 /\ Quotient(5) = n \div 100000
    <2>1. Quotient(0) = n
        BY <1>1, TenTable, Dividing, SMT DEF Quotient, n
    <2> QED BY <2>1, TenTable, SMT DEF Quotient, n
<1>5. \A t \in 0 .. 4 : Quotient(t) \in Outputs /\ Quotient(t + 1) = Quotient(t) \div 10
    <2>1. \A t \in 0 .. 4 : t = 0 \/ t = 1 \/ t = 2 \/ t = 3 \/ t = 4
        OBVIOUS
    <2>2. 0 + 1 = 1 /\ 1 + 1 = 2 /\ 2 + 1 = 3 /\ 3 + 1 = 4 /\ 4 + 1 = 5
        OBVIOUS
    <2> QED BY <1>1, <1>4, <2>1, <2>2, Dividing, SMT
<1>6. ASSUME NEW t \in 0 .. k - 1
      PROVE  r[t + 1] = 48 + (Quotient(t) % 10)
    <2>1. t + 1 \in 1 .. k /\ (t + 1) - 1 = t
        OBVIOUS
    <2> QED BY <1>2, <2>1 DEF Quotient, n
<1>7. ASSUME NEW t \in 0 .. k - 1
      PROVE  Quotient(t + 1) = 0 <=> t + 1 = k
    <2>1. /\ (Quotient(1) = 0 <=> n < 10) /\ (Quotient(2) = 0 <=> n < 100) /\ (Quotient(3) = 0 <=> n < 1000)
          /\ (Quotient(4) = 0 <=> n < 10000) /\ (Quotient(5) = 0 <=> n < 100000)
        BY <1>1, <1>4, Dividing, SMT
    <2>2. /\ (k = 1 => n < 10) /\ (k = 2 => n < 100 /\ n >= 10) /\ (k = 3 => n < 1000 /\ n >= 100)
          /\ (k = 4 => n < 10000 /\ n >= 1000) /\ (k = 5 => n < 100000 /\ n >= 10000)
        <3>1. CASE k = 1
            <4>1. 10^k = 10
                BY <3>1, TenTable, SMT
            <4>2. n < 10^k
                BY <1>2
            <4> QED BY <3>1, <4>1, <4>2
        <3>2. CASE k = 2
            <4>1. 10^k = 100 /\ k - 1 = 1 /\ 10^(k - 1) = 10
                BY <3>2, TenTable, SMT
            <4>2. n < 10^k /\ n >= 10^(k - 1)
                BY <1>2, <3>2
            <4> QED BY <3>2, <4>1, <4>2
        <3>3. CASE k = 3
            <4>1. 10^k = 1000 /\ k - 1 = 2 /\ 10^(k - 1) = 100
                BY <3>3, TenTable, SMT
            <4>2. n < 10^k /\ n >= 10^(k - 1)
                BY <1>2, <3>3
            <4> QED BY <3>3, <4>1, <4>2
        <3>4. CASE k = 4
            <4>1. 10^k = 10000 /\ k - 1 = 3 /\ 10^(k - 1) = 1000
                BY <3>4, TenTable, SMT
            <4>2. n < 10^k /\ n >= 10^(k - 1)
                BY <1>2, <3>4
            <4> QED BY <3>4, <4>1, <4>2
        <3>5. CASE k = 5
            <4>1. 10^k = 100000 /\ k - 1 = 4 /\ 10^(k - 1) = 10000
                BY <3>5, TenTable, SMT
            <4>2. n < 10^k /\ n >= 10^(k - 1)
                BY <1>2, <3>5
            <4> QED BY <3>5, <4>1, <4>2
        <3>6. k = 1 \/ k = 2 \/ k = 3 \/ k = 4 \/ k = 5
            OBVIOUS
        <3> QED BY <3>1, <3>2, <3>3, <3>4, <3>5, <3>6
    <2>3. n \in Int
        BY <1>1, SMT DEF Outputs
    <2>4. (k = 1 /\ t = 0) \/ (k = 2 /\ t \in {0, 1}) \/ (k = 3 /\ t \in {0, 1, 2})
          \/ (k = 4 /\ t \in {0, 1, 2, 3}) \/ (k = 5 /\ t \in {0, 1, 2, 3, 4})
        OBVIOUS
    <2>5. 0 + 1 = 1 /\ 1 + 1 = 2 /\ 2 + 1 = 3 /\ 3 + 1 = 4 /\ 4 + 1 = 5
        OBVIOUS
    <2> QED BY <2>1, <2>2, <2>3, <2>4, <2>5, SMT
<1>8. ASSUME NEW t \in 0 .. k - 1 PROVE t \in 0 .. 4
    OBVIOUS
<1>9. Quotient(0) = Output
    BY <1>4 DEF n
<1> QED BY <1>1, <1>2, <1>3, <1>5, <1>6, <1>7, <1>8, <1>9

-----------------------------------------------------------------------------
(* What is known of the machine, before and behind the loop.                 *)

Buffer  == OutputBufAddr * 2^10
Counter == OutputCountAddr * 2^10
\* What the loop begins with in register 8.
Value == IF test = "echo" THEN job[2] ELSE Output

\* The output, as far as it is written.
Wrote(n) ==
    \A i \in 1 .. n : /\ Buffer + (i - 1) \in DOMAIN machine.mem
                      /\ machine.mem[Buffer + (i - 1)] = ExpectedResponse[i]
CountTold == Counter \in DOMAIN machine.mem /\ machine.mem[Counter] = NumChars

Knows(known) ==
    /\ "base" \in known => machine.reg[1] = 0
    /\ "buffer" \in known => machine.reg[1] = Buffer
    /\ "low" \in known => machine.reg[2] = 0
    /\ "count" \in known => machine.reg[2] = Counter
    /\ "length" \in known => machine.reg[3] = NumChars
    /\ "input" \in known => machine.reg[7] = Input1
    /\ "value" \in known => machine.reg[8] = Value
    /\ "written" \in known => Wrote(NumChars)
    /\ "told" \in known => CountTold

\* What a call adds to what is known.
Learns(known, c, after) ==
    \/ /\ c = Move("ML", 1, 0)
       /\ after = (known \ {"buffer"}) \cup {"base"}
    \/ /\ c = Move("MH", 1, OutputBufAddr) /\ "base" \in known
       /\ after = (known \ {"base"}) \cup {"buffer"}
    \/ /\ c = Move("ML", 2, 0)
       /\ after = (known \ {"count"}) \cup {"low"}
    \/ /\ c = Move("MH", 2, OutputCountAddr) /\ "low" \in known
       /\ after = (known \ {"low"}) \cup {"count"}
    \/ c = Move("ML", 3, NumChars) /\ after = known \cup {"length"}
    \/ test = "echo" /\ c = Move("ML", 8, job[2]) /\ after = known \cup {"value"}
    \/ test = "math" /\ c = Move("ML", 7, Input1) /\ after = known \cup {"input"}
    \/ test = "math" /\ c = Operation[1] /\ "input" \in known /\ after = known \cup {"value"}
    \/ Strewn(c) /\ after = known
    \/ c = Stores("STT", 3, 2) /\ {"length", "count"} \subseteq known /\ after = known \cup {"told"}

-----------------------------------------------------------------------------
(* What the test draws stays.                                                *)

OutputOf(j) ==
    LET x == j[2]
        y == j[3]
    IN  CASE j[1] = "+" -> x + y
          [] j[1] = "-" -> IF x < y THEN y - x ELSE x - y
          [] j[1] = "*" -> x * y
          [] j[1] = "/" -> x \div y
ExpectedOf(x, j) == IF x = "echo" THEN [i \in 1 .. j[1] |-> j[2]] ELSE Reversed(OutputOf(j))
FirstOf(j) == IF j[1] = "-" /\ j[2] < j[3] THEN j[3] ELSE j[2]
SecondOf(j) == IF j[1] = "-" /\ j[2] < j[3] THEN j[2] ELSE j[3]
NameOf(j) ==
    CASE j[1] = "+" -> "ADI" [] j[1] = "-" -> "SBI" [] j[1] = "*" -> "MUI" [] j[1] = "/" -> "DVI"

LEMMA DrawnOf ==
    /\ Output = OutputOf(job) /\ ExpectedResponse = ExpectedOf(test, job)
    /\ NumChars = Len(ExpectedOf(test, job))
    /\ Input1 = FirstOf(job) /\ Operation = <<With(NameOf(job), 8, 7, SecondOf(job))>>
<1>1. Output = OutputOf(job)
    BY DEF Output, OutputOf
<1>2. ExpectedResponse = ExpectedOf(test, job)
    BY <1>1 DEF ExpectedResponse, ExpectedOf
<1>3. NumChars = Len(ExpectedOf(test, job))
    BY <1>2 DEF NumChars
<1>4. Input1 = FirstOf(job) /\ Input2 = SecondOf(job)
    BY DEF Input1, FirstOf, Input2, SecondOf
<1>5. Operation = <<With(NameOf(job), 8, 7, SecondOf(job))>>
    BY <1>4 DEF Operation, NameOf
<1> QED BY <1>1, <1>2, <1>3, <1>4, <1>5

LEMMA DrawnKept ==
    ASSUME test' = test, job' = job
    PROVE  /\ Output' = Output /\ ExpectedResponse' = ExpectedResponse /\ NumChars' = NumChars
           /\ Input1' = Input1 /\ Value' = Value /\ Operation' = Operation
<1>1. (/\ Output = OutputOf(job) /\ ExpectedResponse = ExpectedOf(test, job)
       /\ NumChars = Len(ExpectedOf(test, job))
       /\ Input1 = FirstOf(job) /\ Operation = <<With(NameOf(job), 8, 7, SecondOf(job))>>)'
    BY DrawnOf, PTL
<1>2. /\ Output' = OutputOf(job') /\ ExpectedResponse' = ExpectedOf(test', job')
      /\ NumChars' = Len(ExpectedOf(test', job'))
      /\ Input1' = FirstOf(job') /\ Operation' = <<With(NameOf(job'), 8, 7, SecondOf(job'))>>
    BY <1>1
<1>3. /\ Output' = Output /\ ExpectedResponse' = ExpectedResponse /\ NumChars' = NumChars
      /\ Input1' = Input1 /\ Operation' = Operation
    BY <1>2, DrawnOf
<1>4. Value' = Value
    BY <1>3 DEF Value
<1> QED BY <1>3, <1>4

-----------------------------------------------------------------------------
(* A step before or behind the loop.                                         *)

LEMMA Addresses ==
    /\ Buffer = 83951616 /\ Counter = 83959808
    /\ OutputBufAddr \in Long /\ OutputCountAddr \in Long
    /\ OutputBufAddr * 2^10 + (0 % 2^10) = Buffer
    /\ OutputCountAddr * 2^10 + (0 % 2^10) = Counter
<1>1. 2^10 = 1024
    BY SMT
<1> QED BY <1>1, SMT DEF Buffer, Counter, OutputBufAddr, OutputCountAddr, Long

\* What is written lies before the counter.
LEMMA BeforeCounter ==
    ASSUME NEW n \in 0 .. 20, NEW i \in 1 .. n
    PROVE  Buffer + (i - 1) # Counter
BY Addresses, SMT

\* How many characters there are.
LEMMA CharsAre ==
    ASSUME Drawn
    PROVE  /\ NumChars \in 1 .. 20 /\ NumChars \in Long
           /\ test = "echo" => job[2] \in Long
           /\ test = "math" => Input1 \in Long
<1>1. \A n \in 1 .. 127 : n \in Long
    BY SMT DEF Long
<1>2. CASE test = "echo"
    <2>1. NumChars \in 1 .. 20 /\ job[2] \in 33 .. 126
        BY <1>2, EchoExpects
    <2>2. NumChars \in 1 .. 127 /\ job[2] \in 1 .. 127
        BY <2>1
    <2> QED BY <1>1, <1>2, <2>1, <2>2
<1>3. CASE test = "math"
    <2>1. NumChars \in 1 .. 5 /\ Input1 \in 1 .. 127
        BY <1>3, MathExpects, OutputIs
    <2>2. NumChars \in 1 .. 127 /\ NumChars \in 1 .. 20
        BY <2>1
    <2> QED BY <1>1, <1>3, <2>1, <2>2
<1> QED BY <1>2, <1>3 DEF Drawn

LEMMA WroteKept ==
    ASSUME test' = test, job' = job, machine'.mem = machine.mem, NEW n
    PROVE  Wrote(n) => Wrote(n)'
BY DrawnKept DEF Wrote

LEMMA CountToldKept ==
    ASSUME test' = test, job' = job, machine'.mem = machine.mem
    PROVE  CountTold => CountTold'
BY DrawnKept DEF CountTold

\* What the operation leaves.
LEMMA OperationIs ==
    ASSUME Drawn, test = "math"
    PROVE  \E name \in Arithmetic : \E n \in 0 .. 127 :
             Operation[1] = With(name, 8, 7, n) /\ Computed(name, 0, Input1, n) = Output
<1>1. /\ Output \in Outputs /\ Input1 \in 1 .. 127 /\ Input2 \in 1 .. 127
      /\ \/ job[1] = "+" /\ Output = Input1 + Input2
         \/ job[1] = "-" /\ Output = Input1 - Input2
         \/ job[1] = "*" /\ Output = Input1 * Input2
         \/ job[1] = "/" /\ Output = Input1 \div Input2
    BY OutputIs
<1>2. 2^27 = 134217728 /\ \A n \in Outputs : n % 134217728 = n
    BY SMT DEF Outputs
<1>3. Output % 2^27 = Output
    BY <1>1, <1>2, SMT
<1>4. Input2 \in 0 .. 127
    BY <1>1
<1>5. CASE job[1] = "+"
    <2>1. Operation[1] = With("ADI", 8, 7, Input2)
        BY <1>5 DEF Operation
    <2>2. Computed("ADI", 0, Input1, Input2) = Output
        BY <1>1, <1>3, <1>5 DEF Computed
    <2> QED BY <1>4, <2>1, <2>2 DEF Arithmetic
<1>6. CASE job[1] = "-"
    <2>1. Operation[1] = With("SBI", 8, 7, Input2)
        BY <1>6 DEF Operation
    <2>2. Computed("SBI", 0, Input1, Input2) = Output
        BY <1>1, <1>3, <1>6 DEF Computed
    <2> QED BY <1>4, <2>1, <2>2 DEF Arithmetic
<1>7. CASE job[1] = "*"
    <2>1. Operation[1] = With("MUI", 8, 7, Input2)
        BY <1>7 DEF Operation
    <2>2. Computed("MUI", 0, Input1, Input2) = Output
        BY <1>1, <1>3, <1>7 DEF Computed
    <2> QED BY <1>4, <2>1, <2>2 DEF Arithmetic
<1>8. CASE job[1] = "/"
    <2>1. Operation[1] = With("DVI", 8, 7, Input2)
        BY <1>8 DEF Operation
    <2>2. Computed("DVI", 0, Input1, Input2) = Output
        BY <1>1, <1>8 DEF Computed
    <2> QED BY <1>4, <2>1, <2>2 DEF Arithmetic
<1> QED BY <1>1, <1>5, <1>6, <1>7, <1>8

LEMMA LearnsDone ==
    ASSUME NEW known, NEW c, NEW after, NEW w, Learns(known, c, after), Knows(known),
           Lying(c, w, machine.pc), Execute, Runs, Drawn
    PROVE  Goes(machine.pc + w) /\ Knows(after)'
<1>1. test' = test /\ job' = job
    BY Zenon DEF Execute, compose
<1>2. /\ NumChars' = NumChars /\ Input1' = Input1 /\ Value' = Value
    BY <1>1, DrawnKept
<1>3. {1, 2, 3, 7, 8} \subseteq Used
    BY DEF Used
<1>4. NumChars \in Long /\ (test = "echo" => job[2] \in Long) /\ (test = "math" => Input1 \in Long)
    BY CharsAre
<1>5. 0 \in Long
    BY SMT DEF Long
<1>6. \A n : Computed("ML", n, 0, 0) = 0 /\ Computed("ML", n, 0, NumChars) = NumChars
              /\ Computed("ML", n, 0, job[2]) = job[2] /\ Computed("ML", n, 0, Input1) = Input1
    BY DEF Computed
<1>7. Computed("MH", 0, 0, OutputBufAddr) = Buffer /\ Computed("MH", 0, 0, OutputCountAddr) = Counter
    BY Addresses DEF Computed
<1>8. ASSUME machine'.mem = machine.mem
      PROVE  (Wrote(NumChars) => Wrote(NumChars)') /\ (CountTold => CountTold')
    <2>1. (Wrote(NumChars) => Wrote(NumChars)')
        BY <1>1, <1>2, <1>8, DrawnKept DEF Wrote
    <2> QED BY <1>1, <1>8, <2>1, CountToldKept
<1>9. CASE c = Move("ML", 1, 0) /\ after = (known \ {"buffer"}) \cup {"base"}
    <2>1. /\ Goes(machine.pc + w) /\ Keeps(Used \ {1}) /\ machine'.mem = machine.mem /\ machine'.reg[1] = 0
        BY <1>3, <1>5, <1>6, <1>9, MoveDone
    <2> QED BY <1>2, <1>3, <1>8, <1>9, <2>1 DEF Knows, Keeps
<1>10. CASE c = Move("MH", 1, OutputBufAddr) /\ "base" \in known /\ after = (known \ {"base"}) \cup {"buffer"}
    <2>1. machine.reg[1] = 0
        BY <1>10 DEF Knows
    <2>2. /\ Goes(machine.pc + w) /\ Keeps(Used \ {1}) /\ machine'.mem = machine.mem /\ machine'.reg[1] = Buffer
        BY <1>3, <1>7, <1>10, <2>1, MoveDone, Addresses
    <2>3. Buffer' = Buffer
        BY DEF Buffer
    <2> QED BY <1>2, <1>3, <1>8, <1>10, <2>2 DEF Knows, Keeps
<1>11. CASE c = Move("ML", 2, 0) /\ after = (known \ {"count"}) \cup {"low"}
    <2>1. /\ Goes(machine.pc + w) /\ Keeps(Used \ {2}) /\ machine'.mem = machine.mem /\ machine'.reg[2] = 0
        BY <1>3, <1>5, <1>6, <1>11, MoveDone
    <2> QED BY <1>2, <1>3, <1>8, <1>11, <2>1 DEF Knows, Keeps
<1>12. CASE c = Move("MH", 2, OutputCountAddr) /\ "low" \in known /\ after = (known \ {"low"}) \cup {"count"}
    <2>1. machine.reg[2] = 0
        BY <1>12 DEF Knows
    <2>2. /\ Goes(machine.pc + w) /\ Keeps(Used \ {2}) /\ machine'.mem = machine.mem /\ machine'.reg[2] = Counter
        BY <1>3, <1>7, <1>12, <2>1, MoveDone, Addresses
    <2> QED BY <1>2, <1>3, <1>8, <1>12, <2>2 DEF Knows, Keeps
<1>13. CASE c = Move("ML", 3, NumChars) /\ after = known \cup {"length"}
    <2>1. /\ Goes(machine.pc + w) /\ Keeps(Used \ {3}) /\ machine'.mem = machine.mem
          /\ machine'.reg[3] = NumChars
        BY <1>3, <1>4, <1>6, <1>13, MoveDone
    <2> QED BY <1>2, <1>3, <1>8, <1>13, <2>1 DEF Knows, Keeps
<1>14. CASE test = "echo" /\ c = Move("ML", 8, job[2]) /\ after = known \cup {"value"}
    <2>1. /\ Goes(machine.pc + w) /\ Keeps(Used \ {8}) /\ machine'.mem = machine.mem
          /\ machine'.reg[8] = Value
        BY <1>3, <1>4, <1>6, <1>14, MoveDone DEF Value
    <2> QED BY <1>2, <1>3, <1>8, <1>14, <2>1 DEF Knows, Keeps
<1>15. CASE test = "math" /\ c = Move("ML", 7, Input1) /\ after = known \cup {"input"}
    <2>1. /\ Goes(machine.pc + w) /\ Keeps(Used \ {7}) /\ machine'.mem = machine.mem
          /\ machine'.reg[7] = Input1
        BY <1>3, <1>4, <1>6, <1>15, MoveDone
    <2> QED BY <1>2, <1>3, <1>8, <1>15, <2>1 DEF Knows, Keeps
<1>16. CASE test = "math" /\ c = Operation[1] /\ "input" \in known /\ after = known \cup {"value"}
    <2>1. PICK name \in Arithmetic, n \in 0 .. 127 :
             Operation[1] = With(name, 8, 7, n) /\ Computed(name, 0, Input1, n) = Output
        BY <1>16, OperationIs
    <2>2. machine.reg[7] = Input1
        BY <1>16 DEF Knows
    <2>3. Lying(With(name, 8, 7, n), w, machine.pc)
        BY <1>16, <2>1
    <2>4. /\ Goes(machine.pc + w) /\ Keeps(Used \ {8}) /\ machine'.mem = machine.mem
          /\ machine'.reg[8] = Computed(name, 0, machine.reg[7], n)
        BY <1>3, <2>3, WithDone
    <2>5. machine'.reg[8] = Value
        BY <1>16, <2>1, <2>2, <2>4 DEF Value
    <2> QED BY <1>2, <1>3, <1>8, <1>16, <2>4, <2>5 DEF Knows, Keeps
<1>17. CASE Strewn(c) /\ after = known
    <2>1. Goes(machine.pc + w) /\ machine'.reg = machine.reg /\ machine'.mem = machine.mem
        BY <1>17, StrewnDone
    <2> QED BY <1>2, <1>8, <1>17, <2>1 DEF Knows
<1>18. CASE c = Stores("STT", 3, 2) /\ {"length", "count"} \subseteq known /\ after = known \cup {"told"}
    <2>1. machine.reg[3] = NumChars /\ machine.reg[2] = Counter
        BY <1>18 DEF Knows
    <2>2. Stored("STT", NumChars) = NumChars
        BY DEF Stored
    <2>3. /\ Goes(machine.pc + w) /\ machine'.reg = machine.reg
          /\ DOMAIN machine'.mem = (DOMAIN machine.mem) \cup {machine.reg[2]}
          /\ machine'.mem[machine.reg[2]] = Stored("STT", machine.reg[3])
          /\ \A i \in (DOMAIN machine.mem) \ {machine.reg[2]} : machine'.mem[i] = machine.mem[i]
        BY <1>3, <1>18, StoresDone
    <2>4. CountTold'
        BY <1>2, <2>1, <2>2, <2>3 DEF CountTold, Counter
    <2>5. Wrote(NumChars) => Wrote(NumChars)'
        <3>1. NumChars \in 0 .. 20
            BY CharsAre
        <3>2. \A i \in 1 .. NumChars : Buffer + (i - 1) # Counter
            BY <3>1, BeforeCounter
        <3>3. \A i \in 1 .. NumChars : Buffer + (i - 1) \in DOMAIN machine.mem =>
                  /\ Buffer + (i - 1) \in DOMAIN machine'.mem
                  /\ machine'.mem[Buffer + (i - 1)] = machine.mem[Buffer + (i - 1)]
            BY <2>1, <2>3, <3>2
        <3>4. ExpectedResponse' = ExpectedResponse
            BY <1>1, DrawnKept
        <3> QED BY <1>2, <3>3, <3>4 DEF Wrote
    <2> QED BY <1>2, <1>18, <2>3, <2>4, <2>5 DEF Knows
<1> QED BY <1>9, <1>10, <1>11, <1>12, <1>13, <1>14, <1>15, <1>16, <1>17, <1>18 DEF Learns

-----------------------------------------------------------------------------
(* The loops, turn by turn.                                                  *)

\* In turn t, which starts from none, before the instruction behind the first p.
EchoTurn(known, p, t) ==
    /\ t \in 0 .. NumChars - 1
    /\ "count" \in known => machine.reg[2] = Counter
    /\ Wrote(IF p = 0 THEN t ELSE t + 1)
    /\ machine.reg[1] = Buffer + (IF p < 2 THEN t ELSE t + 1)
    /\ machine.reg[3] = NumChars - (IF p < 3 THEN t ELSE t + 1)
    /\ machine.reg[8] = job[2]
    /\ p = 3 => machine.zero = (machine.reg[3] = 0)
MathTurn(known, p, t) ==
    /\ t \in 0 .. NumChars - 1
    /\ "count" \in known => machine.reg[2] = Counter
    /\ Wrote(IF p < 3 THEN t ELSE t + 1)
    /\ machine.reg[1] = Buffer + (IF p < 4 THEN t ELSE t + 1)
    /\ machine.reg[8] = Quotient(IF p < 5 THEN t ELSE t + 1)
    /\ p = 1 => machine.reg[9] = Quotient(t) % 10
    /\ p = 2 => machine.reg[9] = ExpectedResponse[t + 1]
    /\ p = 5 => machine.zero = (machine.reg[8] = 0)

\* What is known behind a loop.
Behind(known) == {"written"} \cup (known \cap {"count"})

LEMMA ByteWidths == 2^27 = 134217728 /\ 2^9 = 512
BY SMT

LEMMA ComputedIs ==
    ASSUME NEW a, NEW b, NEW n
    PROVE  /\ Computed("ADI", a, b, n) = (b + n) % 2^27 /\ Computed("SBI", a, b, n) = (b - n) % 2^27
           /\ Computed("DVI", a, b, n) = b \div n /\ Computed("MDI", a, b, n) = b % n
BY DEF Computed

LEMMA CountsUp ==
    ASSUME NEW t \in 0 .. 20
    PROVE  Computed("ADI", 0, Buffer + t, 1) = Buffer + (t + 1)
<1>1. (Buffer + t + 1) % 134217728 = Buffer + (t + 1)
    BY Addresses, SMT
<1>2. Computed("ADI", 0, Buffer + t, 1) = (Buffer + t + 1) % 2^27
    BY ComputedIs
<1> QED BY <1>1, <1>2, ByteWidths, SMT

LEMMA CountsDown ==
    ASSUME NEW n \in 1 .. 20, NEW t \in 0 .. n - 1
    PROVE  Computed("SBI", 0, n - t, 1) = n - (t + 1)
<1>1. (n - t - 1) % 134217728 = n - (t + 1)
    BY SMT
<1>2. Computed("SBI", 0, n - t, 1) = (n - t - 1) % 2^27
    BY ComputedIs
<1> QED BY <1>1, <1>2, ByteWidths, SMT

\* The least digit of a number, as a character.
LEMMA LeastDigit ==
    ASSUME NEW n \in Nat
    PROVE  /\ Computed("DVI", 0, n, 10) = n \div 10 /\ Computed("MDI", 0, n, 10) = n % 10
           /\ Computed("ADI", 0, n % 10, 48) = 48 + (n % 10)
           /\ Stored("STS", 48 + (n % 10)) = 48 + (n % 10)
<1> DEFINE k == n % 10
<1>1. k \in 0 .. 9
    OBVIOUS
<1>2. Computed("DVI", 0, n, 10) = n \div 10 /\ Computed("MDI", 0, n, 10) = k
    BY ComputedIs
<1> HIDE DEF k
<1>3. (k + 48) % 134217728 = 48 + k /\ (48 + k) % 512 = 48 + k
    BY <1>1, SMT
<1>4. Computed("ADI", 0, k, 48) = 48 + k
    <2>1. Computed("ADI", 0, k, 48) = (k + 48) % 2^27
        BY ComputedIs
    <2> QED BY <1>3, <2>1, ByteWidths, SMT
<1>5. Stored("STS", 48 + k) = 48 + k
    BY <1>3, ByteWidths, SMT DEF Stored
<1> QED BY <1>2, <1>4, <1>5 DEF k

LEMMA CharacterStored ==
    ASSUME NEW n \in 33 .. 126
    PROVE  Stored("STS", n) = n
<1>1. n % 512 = n
    BY SMT
<1> QED BY <1>1, ByteWidths, SMT DEF Stored

\* A character into the buffer.
LEMMA CharacterDone ==
    ASSUME Drawn, NEW rA \in Used, NEW t \in 0 .. NumChars - 1, Wrote(t), machine.reg[1] = Buffer + t,
           Stored("STS", machine.reg[rA]) = ExpectedResponse[t + 1],
           NEW w, Lying(Stores("STS", rA, 1), w, machine.pc), Execute, Runs
    PROVE  Goes(machine.pc + w) /\ machine'.reg = machine.reg /\ Wrote(t + 1)'
<1>1. 1 \in Used
    BY DEF Used
<1>2. /\ Goes(machine.pc + w) /\ machine'.reg = machine.reg
      /\ DOMAIN machine'.mem = (DOMAIN machine.mem) \cup {machine.reg[1]}
      /\ machine'.mem[machine.reg[1]] = Stored("STS", machine.reg[rA])
      /\ \A i \in (DOMAIN machine.mem) \ {machine.reg[1]} : machine'.mem[i] = machine.mem[i]
    BY <1>1, StoresDone
<1>3. ExpectedResponse' = ExpectedResponse
    BY DrawnKept, Zenon DEF Execute, compose
<1>4. Buffer \in Nat
    BY Addresses, SMT
<1>5. NumChars \in 1 .. 20
    BY CharsAre
<1>6. ASSUME NEW i \in 1 .. t + 1
      PROVE  /\ Buffer + (i - 1) \in DOMAIN machine'.mem
             /\ machine'.mem[Buffer + (i - 1)] = ExpectedResponse[i]
    <2>1. CASE i = t + 1
        <3>1. i - 1 = t
            BY <1>5, <2>1
        <3> QED BY <1>2, <2>1, <3>1
    <2>2. CASE i # t + 1
        <3>1. i \in 1 .. t
            BY <1>5, <2>2
        <3>2. Buffer + (i - 1) # Buffer + t
            BY <1>4, <1>5, <3>1
        <3> DEFINE a == Buffer + (i - 1)
        <3>3. a \in DOMAIN machine.mem /\ machine.mem[a] = ExpectedResponse[i]
            BY <3>1 DEF Wrote
        <3>4. a # machine.reg[1]
            BY <3>2
        <3> HIDE DEF a
        <3>5. a \in DOMAIN machine'.mem /\ machine'.mem[a] = ExpectedResponse[i]
            BY <1>2, <3>3, <3>4
        <3> QED BY <3>5 DEF a
    <2> QED BY <2>1, <2>2
<1>7. Wrote(t + 1)'
    BY <1>3, <1>6 DEF Wrote, Buffer
<1> QED BY <1>2, <1>7

-----------------------------------------------------------------------------
(* The test of an echo.                                                      *)

LEMMA EchoLoopIs ==
    /\ EchoLoop[1] = Stores("STS", 8, 1) /\ EchoLoop[2] = With("ADI", 1, 1, 1)
    /\ EchoLoop[3] = With("SBI", 3, 3, 1) /\ EchoLoop[4] = Back("N", -12) /\ Len(EchoLoop) = 4
BY DEF EchoLoop

LEMMA EchoStep ==
    ASSUME Drawn, test = "echo", NEW known, NEW p \in 0 .. 2, NEW t, EchoTurn(known, p, t),
           NEW w, Lying(EchoLoop[p + 1], w, machine.pc), Execute, Runs
    PROVE  Goes(machine.pc + w) /\ EchoTurn(known, p + 1, t)'
<1>1. test' = test /\ job' = job
    BY Zenon DEF Execute, compose
<1>2. NumChars' = NumChars
    BY <1>1, DrawnKept
<1>3. {1, 2, 3, 7, 8} \subseteq Used /\ {"ADI", "SBI"} \subseteq Arithmetic /\ 1 \in 0 .. 127
    BY DEF Used, Arithmetic
<1>4. /\ NumChars \in 1 .. 20 /\ job[2] \in 33 .. 126
      /\ ExpectedResponse = [i \in 1 .. NumChars |-> job[2]]
    BY EchoExpects, CharsAre
<1>5. t \in 0 .. NumChars - 1 /\ t \in 0 .. 20 /\ t + 1 \in 1 .. NumChars /\ ExpectedResponse[t + 1] = job[2]
    BY <1>4 DEF EchoTurn
<1>6. CASE p = 0
    <2>1. /\ Wrote(t) /\ machine.reg[1] = Buffer + t /\ machine.reg[3] = NumChars - t /\ machine.reg[8] = job[2]
          /\ "count" \in known => machine.reg[2] = Counter
        BY <1>6 DEF EchoTurn
    <2>2. Stored("STS", machine.reg[8]) = ExpectedResponse[t + 1]
        <3>1. Stored("STS", job[2]) = job[2]
            BY <1>4, CharacterStored
        <3> QED BY <1>5, <2>1, <3>1
    <2>3. Lying(Stores("STS", 8, 1), w, machine.pc)
        BY <1>6, EchoLoopIs
    <2>4. Goes(machine.pc + w) /\ machine'.reg = machine.reg /\ Wrote(t + 1)'
        BY <1>3, <1>5, <2>1, <2>2, <2>3, CharacterDone
    <2> QED BY <1>1, <1>2, <1>5, <1>6, <2>1, <2>4 DEF EchoTurn
<1>7. CASE p = 1
    <2>1. /\ Wrote(t + 1) /\ machine.reg[1] = Buffer + t /\ machine.reg[3] = NumChars - t /\ machine.reg[8] = job[2]
          /\ "count" \in known => machine.reg[2] = Counter
        BY <1>7 DEF EchoTurn
    <2>2. Lying(With("ADI", 1, 1, 1), w, machine.pc)
        BY <1>7, EchoLoopIs
    <2>3. /\ Goes(machine.pc + w) /\ Keeps(Used \ {1}) /\ machine'.mem = machine.mem
          /\ machine'.reg[1] = Computed("ADI", 0, machine.reg[1], 1)
        BY <1>3, <2>2, WithDone, Zenon
    <2>4. machine'.reg[1] = Buffer + (t + 1)
        <3>1. Computed("ADI", 0, Buffer + t, 1) = Buffer + (t + 1)
            BY <1>5, CountsUp
        <3> QED BY <2>1, <2>3, <3>1
    <2>5. Wrote(t + 1)'
        BY <1>1, <2>1, <2>3, DrawnKept DEF Wrote
    <2> QED BY <1>1, <1>2, <1>3, <1>5, <1>7, <2>1, <2>3, <2>4, <2>5 DEF EchoTurn, Keeps
<1>8. CASE p = 2
    <2>1. /\ Wrote(t + 1) /\ machine.reg[1] = Buffer + (t + 1) /\ machine.reg[3] = NumChars - t
          /\ machine.reg[8] = job[2]
          /\ "count" \in known => machine.reg[2] = Counter
        BY <1>8 DEF EchoTurn
    <2>2. Lying(With("SBI", 3, 3, 1), w, machine.pc)
        BY <1>8, EchoLoopIs
    <2>3. /\ Goes(machine.pc + w) /\ Keeps(Used \ {3}) /\ machine'.mem = machine.mem
          /\ machine'.reg[3] = Computed("SBI", 0, machine.reg[3], 1)
          /\ machine'.zero = (Computed("SBI", 0, machine.reg[3], 1) = 0)
        BY <1>3, <2>2, WithDone, Zenon
    <2>4. Computed("SBI", 0, machine.reg[3], 1) = NumChars - (t + 1)
        <3>1. Computed("SBI", 0, NumChars - t, 1) = NumChars - (t + 1)
            BY <1>4, <1>5, CountsDown
        <3> QED BY <2>1, <3>1
    <2>5. Wrote(t + 1)'
        BY <1>1, <2>1, <2>3, DrawnKept DEF Wrote
    <2> QED BY <1>1, <1>2, <1>3, <1>5, <1>8, <2>1, <2>3, <2>4, <2>5 DEF EchoTurn, Keeps
<1> QED BY <1>6, <1>7, <1>8

LEMMA EchoBranch ==
    ASSUME Drawn, test = "echo", NEW known, NEW t, EchoTurn(known, 3, t), machine.pc \in Nat,
           NEW w, Lying(EchoLoop[4], w, machine.pc), Execute, Runs
    PROVE  \/ Goes(machine.pc + w) /\ Knows(Behind(known))'
           \/ Goes(machine.pc + (-12)) /\ EchoTurn(known, 0, t + 1)'
<1>1. test' = test /\ job' = job
    BY Zenon DEF Execute, compose
<1>2. NumChars' = NumChars
    BY <1>1, DrawnKept
<1>3. NumChars \in 1 .. 20
    BY CharsAre
<1>4. /\ t \in 0 .. NumChars - 1 /\ Wrote(t + 1) /\ machine.reg[1] = Buffer + (t + 1)
      /\ machine.reg[3] = NumChars - (t + 1) /\ machine.reg[8] = job[2]
      /\ "count" \in known => machine.reg[2] = Counter
      /\ machine.zero = (machine.reg[3] = 0)
    BY DEF EchoTurn
<1>5. Lying(Back("N", -12), w, machine.pc)
    BY EchoLoopIs
<1>6. /\ machine.zero => Goes(machine.pc + w)
      /\ ~ machine.zero => Goes(machine.pc + (-12))
      /\ machine'.reg = machine.reg /\ machine'.mem = machine.mem
    <2>1. -12 \in -100 .. -1
        OBVIOUS
    <2> DEFINE back == -12
    <2>2. back \in -100 .. -1 /\ Lying(Back("N", back), w, machine.pc)
        BY <1>5, <2>1
    <2> HIDE DEF back
    <2>3. /\ machine.zero => Goes(machine.pc + w)
          /\ ~ machine.zero => Goes(machine.pc + back)
          /\ machine'.reg = machine.reg /\ machine'.mem = machine.mem
        BY <2>2, BackDone
    <2> QED BY <2>3 DEF back
<1>7. Wrote(t + 1)'
    BY <1>1, <1>4, <1>6, DrawnKept DEF Wrote
<1>8. CASE machine.zero
    <2>1. t + 1 = NumChars
        <3>1. machine.reg[3] = 0
            BY <1>4, <1>8, Zenon
        <3> QED BY <1>3, <1>4, <3>1
    <2>2. Wrote(NumChars)'
        BY <1>2, <1>7, <2>1 DEF Wrote
    <2>3. Knows(Behind(known))'
        BY <1>4, <1>6, <2>2 DEF Knows, Behind, Counter
    <2> QED BY <1>6, <1>8, <2>3
<1>9. CASE ~ machine.zero
    <2>1. t + 1 \in 0 .. NumChars - 1
        <3>1. machine.reg[3] # 0
            BY <1>4, <1>9, Zenon
        <3> QED BY <1>3, <1>4, <3>1
    <2>2. EchoTurn(known, 0, t + 1)'
        BY <1>1, <1>2, <1>4, <1>6, <1>7, <2>1 DEF EchoTurn
    <2> QED BY <1>6, <1>9, <2>2
<1> QED BY <1>8, <1>9

-----------------------------------------------------------------------------
(* The test of a computation.                                                *)

LEMMA MathLoopIs ==
    /\ MathLoop[1] = With("MDI", 9, 8, 10) /\ MathLoop[2] = With("ADI", 9, 9, 48)
    /\ MathLoop[3] = Stores("STS", 9, 1) /\ MathLoop[4] = With("ADI", 1, 1, 1)
    /\ MathLoop[5] = With("DVI", 8, 8, 10) /\ MathLoop[6] = Back("N", -18) /\ Len(MathLoop) = 6
BY DEF MathLoop

\* The numbers of a turn.
LEMMA MathNumbers ==
    ASSUME Drawn, test = "math", NEW t \in 0 .. NumChars - 1
    PROVE  /\ NumChars \in 1 .. 20 /\ t \in 0 .. 20 /\ t + 1 \in 1 .. NumChars
           /\ Quotient(t) \in Nat /\ Quotient(t + 1) = Quotient(t) \div 10
           /\ ExpectedResponse[t + 1] = 48 + (Quotient(t) % 10)
           /\ Quotient(t + 1) = 0 <=> t + 1 = NumChars
<1>1. NumChars \in 1 .. 20 /\ NumChars \in 1 .. 5
    BY CharsAre, MathExpects
<1>2. /\ Quotient(t) \in Outputs /\ Quotient(t + 1) = Quotient(t) \div 10
      /\ ExpectedResponse[t + 1] = 48 + (Quotient(t) % 10)
      /\ Quotient(t + 1) = 0 <=> t + 1 = NumChars
    BY MathExpects
<1>3. \A n \in Outputs : n \in Nat
    BY SMT DEF Outputs
<1>4. Quotient(t) \in Nat
    BY <1>2, <1>3
<1>5. t \in 0 .. 20 /\ t + 1 \in 1 .. NumChars
    BY <1>1
<1> QED BY <1>1, <1>2, <1>4, <1>5

LEMMA QuotientKept ==
    ASSUME test' = test, job' = job, NEW t
    PROVE  Quotient(t)' = Quotient(t)
BY DrawnKept DEF Quotient

\* What the machine does with the numbers of a turn.
LEMMA RestTaken ==
    ASSUME NEW w, Lying(With("MDI", 9, 8, 10), w, machine.pc), Execute, Runs
    PROVE  /\ Goes(machine.pc + w) /\ Keeps(Used \ {9}) /\ machine'.mem = machine.mem
           /\ machine'.reg[9] = Computed("MDI", 0, machine.reg[8], 10)
<1> DEFINE n == 10
<1>1. 9 \in Used /\ 8 \in Used /\ "MDI" \in Arithmetic /\ n \in 0 .. 127
    BY DEF Used, Arithmetic
<1>2. Lying(With("MDI", 9, 8, n), w, machine.pc)
    OBVIOUS
<1> HIDE DEF n
<1>3. /\ Goes(machine.pc + w) /\ Keeps(Used \ {9}) /\ machine'.mem = machine.mem
      /\ machine'.reg[9] = Computed("MDI", 0, machine.reg[8], n)
    BY <1>1, <1>2, WithDone, Zenon
<1> QED BY <1>3 DEF n

LEMMA DigitMade ==
    ASSUME NEW w, Lying(With("ADI", 9, 9, 48), w, machine.pc), Execute, Runs
    PROVE  /\ Goes(machine.pc + w) /\ Keeps(Used \ {9}) /\ machine'.mem = machine.mem
           /\ machine'.reg[9] = Computed("ADI", 0, machine.reg[9], 48)
<1> DEFINE n == 48
<1>1. 9 \in Used /\ "ADI" \in Arithmetic /\ n \in 0 .. 127
    BY DEF Used, Arithmetic
<1>2. Lying(With("ADI", 9, 9, n), w, machine.pc)
    OBVIOUS
<1> HIDE DEF n
<1>3. /\ Goes(machine.pc + w) /\ Keeps(Used \ {9}) /\ machine'.mem = machine.mem
      /\ machine'.reg[9] = Computed("ADI", 0, machine.reg[9], n)
    BY <1>1, <1>2, WithDone, Zenon
<1> QED BY <1>3 DEF n

LEMMA AheadGone ==
    ASSUME NEW w, Lying(With("ADI", 1, 1, 1), w, machine.pc), Execute, Runs
    PROVE  /\ Goes(machine.pc + w) /\ Keeps(Used \ {1}) /\ machine'.mem = machine.mem
           /\ machine'.reg[1] = Computed("ADI", 0, machine.reg[1], 1)
<1> DEFINE n == 1
<1>1. 1 \in Used /\ "ADI" \in Arithmetic /\ n \in 0 .. 127
    BY DEF Used, Arithmetic
<1>2. Lying(With("ADI", 1, 1, n), w, machine.pc)
    OBVIOUS
<1> HIDE DEF n
<1>3. /\ Goes(machine.pc + w) /\ Keeps(Used \ {1}) /\ machine'.mem = machine.mem
      /\ machine'.reg[1] = Computed("ADI", 0, machine.reg[1], n)
    BY <1>1, <1>2, WithDone, Zenon
<1> QED BY <1>3 DEF n

LEMMA TenthTaken ==
    ASSUME NEW w, Lying(With("DVI", 8, 8, 10), w, machine.pc), Execute, Runs
    PROVE  /\ Goes(machine.pc + w) /\ Keeps(Used \ {8}) /\ machine'.mem = machine.mem
           /\ machine'.reg[8] = Computed("DVI", 0, machine.reg[8], 10)
           /\ machine'.zero = (Computed("DVI", 0, machine.reg[8], 10) = 0)
<1> DEFINE n == 10
<1>1. 8 \in Used /\ "DVI" \in Arithmetic /\ n \in 0 .. 127
    BY DEF Used, Arithmetic
<1>2. Lying(With("DVI", 8, 8, n), w, machine.pc)
    OBVIOUS
<1> HIDE DEF n
<1>3. /\ Goes(machine.pc + w) /\ Keeps(Used \ {8}) /\ machine'.mem = machine.mem
      /\ machine'.reg[8] = Computed("DVI", 0, machine.reg[8], n)
      /\ machine'.zero = (Computed("DVI", 0, machine.reg[8], n) = 0)
    BY <1>1, <1>2, WithDone, Zenon
<1> QED BY <1>3 DEF n

LEMMA MathStep ==
    ASSUME Drawn, test = "math", NEW known, NEW p \in 0 .. 4, NEW t, MathTurn(known, p, t),
           NEW w, Lying(MathLoop[p + 1], w, machine.pc), Execute, Runs
    PROVE  Goes(machine.pc + w) /\ MathTurn(known, p + 1, t)'
<1>1. test' = test /\ job' = job
    BY Zenon DEF Execute, compose
<1>2. NumChars' = NumChars /\ ExpectedResponse' = ExpectedResponse
    BY <1>1, DrawnKept
<1>3. /\ 1 \in Used /\ 2 \in Used /\ 8 \in Used /\ 9 \in Used
      /\ "ADI" \in Arithmetic /\ "MDI" \in Arithmetic /\ "DVI" \in Arithmetic
      /\ 1 \in 0 .. 127 /\ 10 \in 0 .. 127 /\ 48 \in 0 .. 127
    BY DEF Used, Arithmetic
<1>4. t \in 0 .. NumChars - 1
    BY DEF MathTurn
<1>5. /\ NumChars \in 1 .. 20 /\ t \in 0 .. 20 /\ t + 1 \in 1 .. NumChars
      /\ Quotient(t) \in Nat /\ Quotient(t + 1) = Quotient(t) \div 10
      /\ ExpectedResponse[t + 1] = 48 + (Quotient(t) % 10)
    BY <1>4, MathNumbers
<1>6. Quotient(t)' = Quotient(t) /\ Quotient(t + 1)' = Quotient(t + 1)
    BY <1>1, QuotientKept
<1>7. ASSUME machine'.mem = machine.mem, NEW n, Wrote(n) PROVE Wrote(n)'
    BY <1>1, <1>7, DrawnKept DEF Wrote
<1> DEFINE q == Quotient(t)
           x == q % 10
<1>8. /\ Computed("DVI", 0, q, 10) = q \div 10 /\ Computed("MDI", 0, q, 10) = x
      /\ Computed("ADI", 0, x, 48) = 48 + x /\ Stored("STS", 48 + x) = 48 + x
    BY <1>5, LeastDigit
<1> HIDE DEF q, x
<1>9. CASE p = 0
    <2>1. /\ Wrote(t) /\ machine.reg[1] = Buffer + t /\ machine.reg[8] = q
          /\ "count" \in known => machine.reg[2] = Counter
        BY <1>9 DEF MathTurn, q
    <2>2. Lying(With("MDI", 9, 8, 10), w, machine.pc)
        BY <1>9, MathLoopIs
    <2>3. /\ Goes(machine.pc + w) /\ Keeps(Used \ {9}) /\ machine'.mem = machine.mem
          /\ machine'.reg[9] = Computed("MDI", 0, machine.reg[8], 10)
        BY <2>2, RestTaken
    <2>4. machine'.reg[9] = Quotient(t)' % 10
        BY <1>6, <1>8, <2>1, <2>3 DEF q, x
    <2>5. machine'.reg[8] = Quotient(t)' /\ machine'.reg[1] = Buffer + t
        BY <1>3, <1>6, <2>1, <2>3 DEF Keeps, q
    <2>6. Wrote(t)'
        BY <1>7, <2>1, <2>3
    <2> QED BY <1>2, <1>3, <1>4, <1>9, <2>1, <2>3, <2>4, <2>5, <2>6 DEF MathTurn, Keeps, Buffer
<1>10. CASE p = 1
    <2>1. /\ Wrote(t) /\ machine.reg[1] = Buffer + t /\ machine.reg[8] = q /\ machine.reg[9] = x
          /\ "count" \in known => machine.reg[2] = Counter
        BY <1>10 DEF MathTurn, q, x
    <2>2. Lying(With("ADI", 9, 9, 48), w, machine.pc)
        BY <1>10, MathLoopIs
    <2>3. /\ Goes(machine.pc + w) /\ Keeps(Used \ {9}) /\ machine'.mem = machine.mem
          /\ machine'.reg[9] = Computed("ADI", 0, machine.reg[9], 48)
        BY <2>2, DigitMade
    <2>4. machine'.reg[9] = ExpectedResponse[t + 1]
        BY <1>5, <1>8, <2>1, <2>3 DEF q, x
    <2>5. machine'.reg[8] = Quotient(t)' /\ machine'.reg[1] = Buffer + t
        BY <1>3, <1>6, <2>1, <2>3 DEF Keeps, q
    <2>6. Wrote(t)'
        BY <1>7, <2>1, <2>3
    <2> QED BY <1>2, <1>3, <1>4, <1>10, <2>1, <2>3, <2>4, <2>5, <2>6 DEF MathTurn, Keeps, Buffer
<1>11. CASE p = 2
    <2>1. /\ Wrote(t) /\ machine.reg[1] = Buffer + t /\ machine.reg[8] = q
          /\ machine.reg[9] = ExpectedResponse[t + 1]
          /\ "count" \in known => machine.reg[2] = Counter
        BY <1>11 DEF MathTurn, q
    <2>2. Stored("STS", machine.reg[9]) = ExpectedResponse[t + 1]
        BY <1>5, <1>8, <2>1 DEF q, x
    <2>3. Lying(Stores("STS", 9, 1), w, machine.pc)
        BY <1>11, MathLoopIs
    <2>4. Goes(machine.pc + w) /\ machine'.reg = machine.reg /\ Wrote(t + 1)'
        BY <1>3, <1>4, <2>1, <2>2, <2>3, CharacterDone
    <2>5. machine'.reg[8] = Quotient(t)' /\ machine'.reg[1] = Buffer + t
        BY <1>6, <2>1, <2>4 DEF q
    <2> QED BY <1>2, <1>4, <1>11, <2>1, <2>4, <2>5 DEF MathTurn, Buffer
<1>12. CASE p = 3
    <2>1. /\ Wrote(t + 1) /\ machine.reg[1] = Buffer + t /\ machine.reg[8] = q
          /\ "count" \in known => machine.reg[2] = Counter
        BY <1>12 DEF MathTurn, q
    <2>2. Lying(With("ADI", 1, 1, 1), w, machine.pc)
        BY <1>12, MathLoopIs
    <2>3. /\ Goes(machine.pc + w) /\ Keeps(Used \ {1}) /\ machine'.mem = machine.mem
          /\ machine'.reg[1] = Computed("ADI", 0, machine.reg[1], 1)
        BY <2>2, AheadGone
    <2>4. machine'.reg[1] = Buffer + (t + 1)
        <3>1. Computed("ADI", 0, Buffer + t, 1) = Buffer + (t + 1)
            BY <1>5, CountsUp
        <3> QED BY <2>1, <2>3, <3>1
    <2>5. machine'.reg[8] = Quotient(t)'
        BY <1>3, <1>6, <2>1, <2>3 DEF Keeps, q
    <2>6. Wrote(t + 1)'
        BY <1>7, <2>1, <2>3
    <2> QED BY <1>2, <1>3, <1>4, <1>12, <2>1, <2>3, <2>4, <2>5, <2>6 DEF MathTurn, Keeps, Buffer
<1>13. CASE p = 4
    <2>1. /\ Wrote(t + 1) /\ machine.reg[1] = Buffer + (t + 1) /\ machine.reg[8] = q
          /\ "count" \in known => machine.reg[2] = Counter
        BY <1>13 DEF MathTurn, q
    <2>2. Lying(With("DVI", 8, 8, 10), w, machine.pc)
        BY <1>13, MathLoopIs
    <2>3. /\ Goes(machine.pc + w) /\ Keeps(Used \ {8}) /\ machine'.mem = machine.mem
          /\ machine'.reg[8] = Computed("DVI", 0, machine.reg[8], 10)
          /\ machine'.zero = (Computed("DVI", 0, machine.reg[8], 10) = 0)
        BY <2>2, TenthTaken
    <2>4. Computed("DVI", 0, machine.reg[8], 10) = Quotient(t + 1)
        BY <1>5, <1>8, <2>1 DEF q
    <2>5. machine'.reg[8] = Quotient(t + 1)' /\ machine'.zero = (machine'.reg[8] = 0)
        BY <1>6, <2>3, <2>4
    <2>6. Wrote(t + 1)' /\ machine'.reg[1] = Buffer + (t + 1)
        BY <1>3, <1>7, <2>1, <2>3 DEF Keeps
    <2> QED BY <1>2, <1>3, <1>4, <1>13, <2>1, <2>3, <2>5, <2>6 DEF MathTurn, Keeps, Buffer
<1> QED BY <1>9, <1>10, <1>11, <1>12, <1>13

LEMMA MathBranch ==
    ASSUME Drawn, test = "math", NEW known, NEW t, MathTurn(known, 5, t), machine.pc \in Nat,
           NEW w, Lying(MathLoop[6], w, machine.pc), Execute, Runs
    PROVE  \/ Goes(machine.pc + w) /\ Knows(Behind(known))'
           \/ Goes(machine.pc + (-18)) /\ MathTurn(known, 0, t + 1)'
<1>1. test' = test /\ job' = job
    BY Zenon DEF Execute, compose
<1>2. NumChars' = NumChars /\ Quotient(t + 1)' = Quotient(t + 1)
    BY <1>1, DrawnKept, QuotientKept
<1>3. /\ t \in 0 .. NumChars - 1 /\ Wrote(t + 1) /\ machine.reg[1] = Buffer + (t + 1)
      /\ machine.reg[8] = Quotient(t + 1)
      /\ "count" \in known => machine.reg[2] = Counter
      /\ machine.zero = (machine.reg[8] = 0)
    BY DEF MathTurn
<1>4. /\ NumChars \in 1 .. 20 /\ t + 1 \in 1 .. NumChars
      /\ Quotient(t + 1) = 0 <=> t + 1 = NumChars
    BY <1>3, MathNumbers
<1>5. Lying(Back("N", -18), w, machine.pc)
    BY MathLoopIs
<1>6. /\ machine.zero => Goes(machine.pc + w)
      /\ ~ machine.zero => Goes(machine.pc + (-18))
      /\ machine'.reg = machine.reg /\ machine'.mem = machine.mem
    <2>1. -18 \in -100 .. -1
        OBVIOUS
    <2> DEFINE back == -18
    <2>2. back \in -100 .. -1 /\ Lying(Back("N", back), w, machine.pc)
        BY <1>5, <2>1
    <2> HIDE DEF back
    <2>3. /\ machine.zero => Goes(machine.pc + w)
          /\ ~ machine.zero => Goes(machine.pc + back)
          /\ machine'.reg = machine.reg /\ machine'.mem = machine.mem
        BY <2>2, BackDone
    <2> QED BY <2>3 DEF back
<1>7. Wrote(t + 1)'
    BY <1>1, <1>3, <1>6, DrawnKept DEF Wrote
<1>8. CASE machine.zero
    <2>1. t + 1 = NumChars
        <3>1. machine.reg[8] = 0
            BY <1>3, <1>8, Zenon
        <3> QED BY <1>3, <1>4, <3>1
    <2>2. Wrote(NumChars)'
        BY <1>2, <1>7, <2>1 DEF Wrote
    <2>3. Knows(Behind(known))'
        BY <1>3, <1>6, <2>2 DEF Knows, Behind, Counter
    <2> QED BY <1>6, <1>8, <2>3
<1>9. CASE ~ machine.zero
    <2>1. t + 1 \in 0 .. NumChars - 1
        <3>1. machine.reg[8] # 0
            BY <1>3, <1>9, Zenon
        <3> QED BY <1>3, <1>4, <3>1
    <2>2. MathTurn(known, 0, t + 1)'
        BY <1>2, <1>3, <1>6, <1>7, <2>1 DEF MathTurn, Buffer
    <2> QED BY <1>6, <1>9, <2>2
<1> QED BY <1>8, <1>9

-----------------------------------------------------------------------------
(* A program, and the way through it.  Of each place in it there is what the *)
(* machine knows when it first gets there, and how far in the loop it is.    *)

Loop == IF test = "echo" THEN EchoLoop ELSE MathLoop
InTurn(known, p, t) == IF test = "echo" THEN EchoTurn(known, p, t) ELSE MathTurn(known, p, t)
Needed == {"buffer", "value"} \cup (IF test = "echo" THEN {"length"} ELSE {})

Straight(l, c, m) == l.p = 0 /\ m.p = 0 /\ Learns(l.known, c, m.known)
Looping(l, c, m) ==
    /\ l.p \in 0 .. Len(Loop) - 1 /\ c = Loop[l.p + 1] /\ Needed \subseteq l.known
    /\ IF l.p + 1 = Len(Loop) THEN m.p = 0 /\ m.known = Behind(l.known)
       ELSE m.p = l.p + 1 /\ m.known = l.known
Follows(l, c, m) == Straight(l, c, m) \/ Looping(l, c, m)

Route(body, r) ==
    /\ r[0].known = {} /\ r[0].p = 0
    /\ \A k \in 1 .. Len(body) : Follows(r[k - 1], body[k], r[k])

\* The program as it lies in the machine, with a halt at its end.
Laid(body, r, g) ==
    /\ Len(body) \in Nat /\ g \in [0 .. Len(body) -> Nat] /\ g[0] = 0
    /\ Route(body, r)
    /\ \A k \in 1 .. Len(body) : Lying(body[k], g[k] - g[k - 1], g[k - 1])
    /\ \E w : Lying(Halt, w, g[Len(body)])
    /\ r[Len(body)].p = 0 /\ {"written", "told"} \subseteq r[Len(body)].known

\* The machine behind the first k calls.
Stands(body, r, g, k) ==
    /\ k \in 0 .. Len(body) /\ machine.pc = g[k]
    /\ \/ r[k].p = 0 /\ Knows(r[k].known)
       \/ k < Len(body) /\ Looping(r[k], body[k + 1], r[k + 1]) /\ \E t : InTurn(r[k].known, r[k].p, t)

LEMMA LearnsKept ==
    ASSUME test' = test, job' = job, NEW known, NEW c, NEW after, Learns(known, c, after)
    PROVE  Learns(known, c, after)'
<1>1. NumChars' = NumChars /\ Input1' = Input1 /\ Operation' = Operation
    BY DrawnKept
<1> QED BY <1>1 DEF Learns, Strewn

LEMMA FollowsKept ==
    ASSUME test' = test, job' = job, NEW l, NEW c, NEW m, Follows(l, c, m)
    PROVE  Follows(l, c, m)' /\ (Looping(l, c, m) => Looping(l, c, m)')
<1>1. Loop' = Loop /\ Needed' = Needed
    BY DEF Loop, Needed, EchoLoop, MathLoop
<1>2. Looping(l, c, m) => Looping(l, c, m)'
    BY <1>1 DEF Looping, Behind
<1>3. Straight(l, c, m) => Straight(l, c, m)'
    BY LearnsKept DEF Straight
<1> QED BY <1>2, <1>3 DEF Follows

LEMMA LyingKept ==
    ASSUME machine'.code = machine.code, NEW c, NEW w, NEW pc, Lying(c, w, pc)
    PROVE  Lying(c, w, pc)'
BY DEF Lying, Coded, WordsAt, Spoken

LEMMA LaidKept ==
    ASSUME test' = test, job' = job, machine'.code = machine.code, NEW body, NEW r, NEW g, Laid(body, r, g)
    PROVE  Laid(body, r, g)'
<1>1. Route(body, r)'
    BY FollowsKept DEF Laid, Route
<1>2. \A k \in 1 .. Len(body) : Lying(body[k], g[k] - g[k - 1], g[k - 1])'
    BY LyingKept DEF Laid
<1>3. \E w : Lying(Halt, w, g[Len(body)])'
    BY LyingKept DEF Laid
<1> QED BY <1>1, <1>2, <1>3 DEF Laid, Halt, Call

\* Nothing has to be done to enter the loop.
LEMMA Entering ==
    ASSUME Drawn, NEW known, Knows(known), Needed \subseteq known
    PROVE  InTurn(known, 0, 0)
<1>1. Wrote(0)
    BY DEF Wrote
<1>2. NumChars \in 1 .. 20 /\ Buffer \in Nat
    BY CharsAre, Addresses, SMT
<1>3. 0 \in 0 .. NumChars - 1 /\ Buffer + 0 = Buffer /\ NumChars - 0 = NumChars
    BY <1>2
<1>4. machine.reg[1] = Buffer /\ machine.reg[8] = Value /\ ("count" \in known => machine.reg[2] = Counter)
    BY DEF Needed, Knows
<1>5. CASE test = "echo"
    <2>1. machine.reg[3] = NumChars /\ Value = job[2]
        BY <1>5 DEF Needed, Knows, Value
    <2> QED BY <1>1, <1>3, <1>4, <1>5, <2>1 DEF InTurn, EchoTurn
<1>6. CASE test = "math"
    <2>1. Value = Quotient(0) /\ test # "echo"
        BY <1>6, MathExpects DEF Value
    <2> QED BY <1>1, <1>3, <1>4, <2>1 DEF InTurn, MathTurn
<1> QED BY <1>5, <1>6 DEF Drawn

\* How long a call is, is told by its name.
LEMMA SpokenOnce ==
    ASSUME NEW c, NEW v, NEW w, Spoken(c, v), Spoken(c, w)
    PROVE  v = w
BY DEF Spoken

LEMMA LoopSpoken ==
    /\ Spoken(EchoLoop[1], 6) /\ Spoken(EchoLoop[2], 3) /\ Spoken(EchoLoop[3], 3) /\ Spoken(EchoLoop[4], 3)
    /\ Spoken(MathLoop[1], 3) /\ Spoken(MathLoop[2], 3) /\ Spoken(MathLoop[3], 6) /\ Spoken(MathLoop[4], 3)
    /\ Spoken(MathLoop[5], 3) /\ Spoken(MathLoop[6], 3)
<1>1. Spoken(Stores("STS", 8, 1), 6) /\ Spoken(Stores("STS", 9, 1), 6)
    BY LoopNumbers, StoresSpoken
<1>2. /\ Spoken(With("ADI", 1, 1, 1), 3) /\ Spoken(With("SBI", 3, 3, 1), 3)
      /\ Spoken(With("MDI", 9, 8, 10), 3) /\ Spoken(With("ADI", 9, 9, 48), 3) /\ Spoken(With("DVI", 8, 8, 10), 3)
    BY LoopNumbers, WithSpoken
<1>3. -12 \in -100 .. 0 /\ -18 \in -100 .. 0
    OBVIOUS
<1>4. Spoken(Back("N", -12), 3) /\ Spoken(Back("N", -18), 3)
    BY <1>3, BackSpoken
<1> QED BY <1>1, <1>2, <1>4, EchoLoopIs, MathLoopIs

\* In the loop, the call before is the one before it in the loop.
LEMMA Earlier ==
    ASSUME NEW body, NEW r, NEW g, Laid(body, r, g), NEW k \in 0 .. Len(body), r[k].p # 0,
           NEW q \in 0 .. 5, r[k].p = q + 1
    PROVE  /\ k - 1 \in 0 .. Len(body) /\ k - 1 < Len(body) /\ (k - 1) + 1 = k
           /\ r[k - 1].p = q /\ r[k - 1].known = r[k].known
           /\ Looping(r[k - 1], body[k], r[k]) /\ body[k] = Loop[q + 1]
           /\ \A w : Spoken(Loop[q + 1], w) => g[k - 1] = g[k] - w
<1>1. k \in 1 .. Len(body) /\ Len(body) \in Nat
    BY DEF Laid, Route
<1>2. k - 1 \in 0 .. Len(body) /\ k - 1 < Len(body) /\ (k - 1) + 1 = k
    BY <1>1
<1>3. Follows(r[k - 1], body[k], r[k]) /\ Lying(body[k], g[k] - g[k - 1], g[k - 1])
    BY <1>1 DEF Laid, Route
<1>4. Looping(r[k - 1], body[k], r[k])
    BY <1>3 DEF Follows, Straight
<1>5. r[k - 1].p \in 0 .. Len(Loop) - 1 /\ r[k].p = r[k - 1].p + 1 /\ r[k - 1].known = r[k].known
      /\ body[k] = Loop[r[k - 1].p + 1]
    BY <1>4 DEF Looping
<1>6. r[k - 1].p = q
    BY <1>5
<1>7. g[k] \in Nat /\ g[k - 1] \in Nat
    BY <1>1, <1>2 DEF Laid
<1>8. ASSUME NEW w, Spoken(Loop[q + 1], w) PROVE g[k - 1] = g[k] - w
    <2>1. Spoken(body[k], g[k] - g[k - 1]) /\ Spoken(body[k], w)
        BY <1>3, <1>5, <1>6, <1>8 DEF Lying
    <2>2. w = g[k] - g[k - 1]
        BY <2>1, SpokenOnce
    <2> QED BY <1>7, <2>2
<1> QED BY <1>2, <1>4, <1>5, <1>6, <1>8

\* A place in the same turn, that many words before.
InTurnWith(body, r, g, k, h, p, words) ==
    /\ h \in 0 .. Len(body) /\ h < Len(body) /\ r[h].p = p /\ r[h].known = r[k].known
    /\ Looping(r[h], body[h + 1], r[h + 1]) /\ g[h] = g[k] - words

LEMMA OneBefore ==
    ASSUME NEW body, NEW r, NEW g, Laid(body, r, g), NEW k \in 0 .. Len(body),
           NEW q \in 0 .. 5, r[k].p = q + 1, NEW w, Spoken(Loop[q + 1], w)
    PROVE  \E h : InTurnWith(body, r, g, k, h, q, w)
<1>1. r[k].p # 0
    OBVIOUS
<1>2. /\ k - 1 \in 0 .. Len(body) /\ k - 1 < Len(body) /\ (k - 1) + 1 = k
      /\ r[k - 1].p = q /\ r[k - 1].known = r[k].known
      /\ Looping(r[k - 1], body[k], r[k]) /\ g[k - 1] = g[k] - w
    BY <1>1, Earlier
<1>3. InTurnWith(body, r, g, k, k - 1, q, w)
    BY <1>2 DEF InTurnWith
<1> QED BY <1>3

LEMMA MoreBefore ==
    ASSUME NEW body, NEW r, NEW g, Laid(body, r, g), NEW k \in 0 .. Len(body),
           NEW q \in 0 .. 5, NEW w, w \in Nat, Spoken(Loop[q + 1], w),
           NEW v \in Nat, \E h : InTurnWith(body, r, g, k, h, q + 1, v)
    PROVE  \E h : InTurnWith(body, r, g, k, h, q, v + w)
<1>1. PICK i : InTurnWith(body, r, g, k, i, q + 1, v)
    OBVIOUS
<1>2. i \in 0 .. Len(body) /\ r[i].p = q + 1 /\ r[i].known = r[k].known /\ g[i] = g[k] - v
    BY <1>1 DEF InTurnWith
<1>3. PICK h : InTurnWith(body, r, g, i, h, q, w)
    BY <1>2, OneBefore
<1>4. g[k] \in Nat
    BY DEF Laid
<1>5. g[h] = g[k] - (v + w)
    BY <1>2, <1>3, <1>4 DEF InTurnWith
<1>6. InTurnWith(body, r, g, k, h, q, v + w)
    BY <1>2, <1>3, <1>5 DEF InTurnWith
<1> QED BY <1>6

LEMMA EchoHead ==
    ASSUME test = "echo", NEW body, NEW r, NEW g, Laid(body, r, g), NEW k \in 0 .. Len(body), r[k].p = 3
    PROVE  \E h : InTurnWith(body, r, g, k, h, 0, 12)
<1>1. /\ Loop[1] = EchoLoop[1] /\ Loop[2] = EchoLoop[2] /\ Loop[3] = EchoLoop[3]
    BY DEF Loop
<1>2. \E h : InTurnWith(body, r, g, k, h, 2, 3)
    <2>1. Spoken(Loop[2 + 1], 3) /\ r[k].p = 2 + 1 /\ 2 \in 0 .. 5
        BY <1>1, LoopSpoken
    <2> QED BY <2>1, OneBefore
<1>3. \E h : InTurnWith(body, r, g, k, h, 1, 6)
    <2>1. /\ Spoken(Loop[1 + 1], 3) /\ 1 \in 0 .. 5 /\ 3 \in Nat /\ 3 + 3 = 6
          /\ \E h : InTurnWith(body, r, g, k, h, 1 + 1, 3)
        BY <1>1, <1>2, LoopSpoken
    <2>2. \E h : InTurnWith(body, r, g, k, h, 1, 3 + 3)
        BY <2>1, MoreBefore
    <2> QED BY <2>1, <2>2
<1>4. \E h : InTurnWith(body, r, g, k, h, 0, 12)
    <2>1. /\ Spoken(Loop[0 + 1], 6) /\ 0 \in 0 .. 5 /\ 6 \in Nat /\ 6 + 6 = 12
          /\ \E h : InTurnWith(body, r, g, k, h, 0 + 1, 6)
        BY <1>1, <1>3, LoopSpoken
    <2>2. \E h : InTurnWith(body, r, g, k, h, 0, 6 + 6)
        BY <2>1, MoreBefore
    <2> QED BY <2>1, <2>2
<1> QED BY <1>4

LEMMA MathHead ==
    ASSUME test = "math", NEW body, NEW r, NEW g, Laid(body, r, g), NEW k \in 0 .. Len(body), r[k].p = 5
    PROVE  \E h : InTurnWith(body, r, g, k, h, 0, 18)
<1>1. /\ Loop[1] = MathLoop[1] /\ Loop[2] = MathLoop[2] /\ Loop[3] = MathLoop[3]
      /\ Loop[4] = MathLoop[4] /\ Loop[5] = MathLoop[5]
    BY DEF Loop
<1>2. \E h : InTurnWith(body, r, g, k, h, 4, 3)
    <2>1. Spoken(Loop[4 + 1], 3) /\ r[k].p = 4 + 1 /\ 4 \in 0 .. 5
        BY <1>1, LoopSpoken
    <2> QED BY <2>1, OneBefore
<1>3. \E h : InTurnWith(body, r, g, k, h, 3, 6)
    <2>1. /\ Spoken(Loop[3 + 1], 3) /\ 3 \in 0 .. 5 /\ 3 \in Nat /\ 3 + 3 = 6
          /\ \E h : InTurnWith(body, r, g, k, h, 3 + 1, 3)
        BY <1>1, <1>2, LoopSpoken
    <2>2. \E h : InTurnWith(body, r, g, k, h, 3, 3 + 3)
        BY <2>1, MoreBefore
    <2> QED BY <2>1, <2>2
<1>4. \E h : InTurnWith(body, r, g, k, h, 2, 12)
    <2>1. /\ Spoken(Loop[2 + 1], 6) /\ 2 \in 0 .. 5 /\ 6 \in Nat /\ 6 + 6 = 12
          /\ \E h : InTurnWith(body, r, g, k, h, 2 + 1, 6)
        BY <1>1, <1>3, LoopSpoken
    <2>2. \E h : InTurnWith(body, r, g, k, h, 2, 6 + 6)
        BY <2>1, MoreBefore
    <2> QED BY <2>1, <2>2
<1>5. \E h : InTurnWith(body, r, g, k, h, 1, 15)
    <2>1. /\ Spoken(Loop[1 + 1], 3) /\ 1 \in 0 .. 5 /\ 3 \in Nat /\ 12 \in Nat /\ 12 + 3 = 15
          /\ \E h : InTurnWith(body, r, g, k, h, 1 + 1, 12)
        BY <1>1, <1>4, LoopSpoken
    <2>2. \E h : InTurnWith(body, r, g, k, h, 1, 12 + 3)
        BY <2>1, MoreBefore
    <2> QED BY <2>1, <2>2
<1>6. \E h : InTurnWith(body, r, g, k, h, 0, 18)
    <2>1. /\ Spoken(Loop[0 + 1], 3) /\ 0 \in 0 .. 5 /\ 3 \in Nat /\ 15 \in Nat /\ 15 + 3 = 18
          /\ \E h : InTurnWith(body, r, g, k, h, 0 + 1, 15)
        BY <1>1, <1>5, LoopSpoken
    <2>2. \E h : InTurnWith(body, r, g, k, h, 0, 15 + 3)
        BY <2>1, MoreBefore
    <2> QED BY <2>1, <2>2
<1> QED BY <1>6

-----------------------------------------------------------------------------
(* Every step of the machine.                                                *)

\* The machine has printed what is expected, and stops.
LEMMA HaltPrints ==
    ASSUME Drawn, NEW known, Knows(known), {"written", "told"} \subseteq known, Runs,
           machine' = [machine EXCEPT !.state = "halted"], test' = test, job' = job
    PROVE  machine'.state = "halted" /\ (Printed = ExpectedResponse)'
<1>1. Wrote(NumChars) /\ CountTold
    BY DEF Knows
<1>2. machine'.state = "halted" /\ machine'.mem = machine.mem
    BY DEF Runs, Fields
<1>3. ExpectedResponse = [i \in 1 .. NumChars |-> ExpectedResponse[i]]
    <2>1. CASE test = "echo"
        <3>1. ExpectedResponse = [i \in 1 .. NumChars |-> job[2]]
            BY <2>1, EchoExpects
        <3> DEFINE n == NumChars
                   e == ExpectedResponse
                   c == job[2]
        <3>2. e = [i \in 1 .. n |-> c]
            BY <3>1
        <3> HIDE DEF n, e, c
        <3>3. e = [i \in 1 .. n |-> e[i]]
            BY <3>2
        <3> QED BY <3>3 DEF n, e
    <2>2. CASE test = "math"
        BY <2>2, MathExpects
    <2> QED BY <2>1, <2>2 DEF Drawn
<1>4. ExpectedResponse' = ExpectedResponse
    BY DrawnKept
<1> DEFINE m == machine'.mem
           n == NumChars
           e == ExpectedResponse
           cell(a) == IF a \in DOMAIN m THEN m[a] ELSE 0
<1>5. Printed' = [i \in 1 .. cell(Counter) |-> cell(Buffer + i - 1)]
    BY DEF Printed, Counter, Buffer
<1>6. cell(Counter) = n
    BY <1>1, <1>2 DEF CountTold
<1>7. \A i \in 1 .. n : cell(Buffer + (i - 1)) = e[i]
    BY <1>1, <1>2 DEF Wrote
<1>8. n \in Nat /\ Buffer \in Nat
    BY CharsAre, Addresses, SMT
<1> HIDE DEF m, n, e
<1>9. \A i \in 1 .. n : Buffer + i - 1 = Buffer + (i - 1)
    BY <1>8
<1>10. \A i \in 1 .. n : cell(Buffer + i - 1) = e[i]
    BY <1>7, <1>9
<1> HIDE DEF cell
<1>11. Printed' = [i \in 1 .. n |-> e[i]]
    BY <1>5, <1>6, <1>10
<1>12. e = [i \in 1 .. n |-> e[i]]
    BY <1>3 DEF n, e
<1> QED BY <1>2, <1>4, <1>11, <1>12 DEF e

\* The machine runs on, with its code.
RunsOn == Runs' /\ machine'.code = machine.code

LEMMA TurnsOn ==
    ASSUME Drawn, Execute, Runs, NEW body, NEW r, NEW g, Laid(body, r, g),
           NEW k \in 0 .. Len(body), k < Len(body), machine.pc = g[k],
           Looping(r[k], body[k + 1], r[k + 1]), NEW t, InTurn(r[k].known, r[k].p, t)
    PROVE  RunsOn /\ \E h : Stands(body, r, g, h)'
<1> DEFINE p == r[k].p
           known == r[k].known
           w == g[k + 1] - g[k]
<1>1. /\ k + 1 \in 1 .. Len(body) /\ (k + 1) - 1 = k /\ k + 1 \in 0 .. Len(body)
      /\ g[k] \in Nat /\ g[k + 1] \in Nat /\ Len(body) \in Nat
    BY DEF Laid
<1>2. Lying(body[k + 1], w, machine.pc)
    BY <1>1 DEF Laid
<1>3. body[k + 1] = Loop[p + 1] /\ p \in 0 .. Len(Loop) - 1
    BY DEF Looping
<1>4. machine.pc + w = g[k + 1] /\ machine.pc \in Nat
    BY <1>1
<1>5. test' = test /\ job' = job
    BY Zenon DEF Execute, compose
<1>6. \A l, c, m : Looping(l, c, m) => Looping(l, c, m)'
    BY <1>5, FollowsKept DEF Follows
<1> HIDE DEF w
<1>7. \A pc : Goes(pc) => RunsOn /\ machine'.pc = pc
    BY DEF Goes, Runs, RunsOn
\* On, within the turn.
<1>8. ASSUME p + 1 # Len(Loop), Goes(machine.pc + w), InTurn(known, p + 1, t)'
      PROVE  RunsOn /\ \E h : Stands(body, r, g, h)'
    <2>1. r[k + 1].p = p + 1 /\ r[k + 1].known = known
        BY <1>8 DEF Looping
    <2>2. r[k + 1].p # 0
        BY <1>3, <2>1
    <2>3. k + 1 # Len(body)
        BY <2>2 DEF Laid
    <2>4. /\ (k + 1) + 1 \in 1 .. Len(body) /\ ((k + 1) + 1) - 1 = k + 1 /\ k + 1 < Len(body)
        BY <1>1, <2>3
    <2>5. Follows(r[k + 1], body[(k + 1) + 1], r[(k + 1) + 1])
        BY <2>4 DEF Laid, Route
    <2>6. Looping(r[k + 1], body[(k + 1) + 1], r[(k + 1) + 1])'
        BY <1>6, <2>2, <2>5 DEF Follows, Straight
    <2>7. \E u : InTurn(r[k + 1].known, r[k + 1].p, u)'
        BY <1>8, <2>1
    <2>8. Stands(body, r, g, k + 1)'
        BY <1>1, <1>4, <1>7, <1>8, <2>4, <2>6, <2>7 DEF Stands
    <2> QED BY <1>7, <1>8, <2>8
\* Behind it.
<1>9. ASSUME p + 1 = Len(Loop), Goes(machine.pc + w), Knows(Behind(known))'
      PROVE  RunsOn /\ \E h : Stands(body, r, g, h)'
    <2>1. r[k + 1].p = 0 /\ r[k + 1].known = Behind(known)
        BY <1>9 DEF Looping
    <2>2. Stands(body, r, g, k + 1)'
        BY <1>1, <1>4, <1>7, <1>9, <2>1 DEF Stands
    <2> QED BY <1>7, <1>9, <2>2
\* To the next.
<1>10. ASSUME NEW n \in Nat, \E h : InTurnWith(body, r, g, k, h, 0, n), Goes(machine.pc + (-n)),
              InTurn(known, 0, t + 1)'
       PROVE  RunsOn /\ \E h : Stands(body, r, g, h)'
    <2>1. PICK h : InTurnWith(body, r, g, k, h, 0, n)
        BY <1>10
    <2>2. /\ h \in 0 .. Len(body) /\ h < Len(body) /\ r[h].p = 0 /\ r[h].known = known
          /\ Looping(r[h], body[h + 1], r[h + 1]) /\ g[h] = g[k] - n
        BY <2>1 DEF InTurnWith
    <2>3. machine.pc + (-n) = g[h]
        BY <1>1, <2>2
    <2>4. Looping(r[h], body[h + 1], r[h + 1])'
        BY <1>6, <2>2
    <2>5. \E u : InTurn(r[h].known, r[h].p, u)'
        BY <1>10, <2>2
    <2>6. machine'.pc = g[h]
        BY <1>7, <1>10, <2>3
    <2>7. Stands(body, r, g, h)'
        BY <2>2, <2>4, <2>5, <2>6 DEF Stands
    <2> QED BY <1>7, <1>10, <2>7
<1>11. CASE test = "echo"
    <2>1. Loop = EchoLoop /\ Len(Loop) = 4 /\ EchoTurn(known, p, t)
        BY <1>11, EchoLoopIs DEF Loop, InTurn
    <2>2. CASE p = 3
        <3>1. EchoTurn(known, 3, t) /\ Lying(EchoLoop[4], w, machine.pc) /\ p + 1 = Len(Loop)
            BY <1>2, <1>3, <2>1, <2>2
        <3>2. \/ Goes(machine.pc + w) /\ Knows(Behind(known))'
              \/ Goes(machine.pc + (-12)) /\ EchoTurn(known, 0, t + 1)'
            BY <1>4, <1>11, <3>1, EchoBranch
        <3>3. CASE Goes(machine.pc + w) /\ Knows(Behind(known))'
            BY <1>9, <3>1, <3>3
        <3>4. CASE Goes(machine.pc + (-12)) /\ EchoTurn(known, 0, t + 1)'
            <4>1. 12 \in Nat /\ \E h : InTurnWith(body, r, g, k, h, 0, 12)
                BY <1>11, <2>2, EchoHead
            <4>2. InTurn(known, 0, t + 1)'
                BY <1>5, <1>11, <3>4 DEF InTurn
            <4> QED BY <1>10, <3>4, <4>1, <4>2
        <3> QED BY <3>2, <3>3, <3>4
    <2>3. CASE p # 3
        <3>1. p \in 0 .. 2 /\ p + 1 # Len(Loop) /\ Lying(EchoLoop[p + 1], w, machine.pc)
            BY <1>2, <1>3, <2>1, <2>3
        <3>2. Goes(machine.pc + w) /\ EchoTurn(known, p + 1, t)'
            BY <1>11, <2>1, <3>1, EchoStep
        <3>3. InTurn(known, p + 1, t)'
            BY <1>5, <1>11, <3>2 DEF InTurn
        <3> QED BY <1>8, <3>1, <3>2, <3>3
    <2> QED BY <2>2, <2>3
<1>12. CASE test = "math"
    <2>1. Loop = MathLoop /\ Len(Loop) = 6 /\ MathTurn(known, p, t) /\ test # "echo"
        BY <1>12, MathLoopIs DEF Loop, InTurn
    <2>2. CASE p = 5
        <3>1. MathTurn(known, 5, t) /\ Lying(MathLoop[6], w, machine.pc) /\ p + 1 = Len(Loop)
            BY <1>2, <1>3, <2>1, <2>2
        <3>2. \/ Goes(machine.pc + w) /\ Knows(Behind(known))'
              \/ Goes(machine.pc + (-18)) /\ MathTurn(known, 0, t + 1)'
            BY <1>4, <1>12, <3>1, MathBranch
        <3>3. CASE Goes(machine.pc + w) /\ Knows(Behind(known))'
            BY <1>9, <3>1, <3>3
        <3>4. CASE Goes(machine.pc + (-18)) /\ MathTurn(known, 0, t + 1)'
            <4>1. 18 \in Nat /\ \E h : InTurnWith(body, r, g, k, h, 0, 18)
                BY <1>12, <2>2, MathHead
            <4>2. InTurn(known, 0, t + 1)'
                BY <1>5, <2>1, <3>4 DEF InTurn
            <4> QED BY <1>10, <3>4, <4>1, <4>2
        <3> QED BY <3>2, <3>3, <3>4
    <2>3. CASE p # 5
        <3>1. p \in 0 .. 4 /\ p + 1 # Len(Loop) /\ Lying(MathLoop[p + 1], w, machine.pc)
            BY <1>2, <1>3, <2>1, <2>3
        <3>2. Goes(machine.pc + w) /\ MathTurn(known, p + 1, t)'
            BY <1>12, <2>1, <3>1, MathStep
        <3>3. InTurn(known, p + 1, t)'
            BY <1>5, <2>1, <3>2 DEF InTurn
        <3> QED BY <1>8, <3>1, <3>2, <3>3
    <2> QED BY <2>2, <2>3
<1> QED BY <1>11, <1>12 DEF Drawn

LEMMA Stepping ==
    ASSUME Drawn, Execute, Runs, NEW body, NEW r, NEW g, Laid(body, r, g), NEW k, Stands(body, r, g, k)
    PROVE  \/ machine'.state = "halted" /\ (Printed = ExpectedResponse)'
           \/ Runs' /\ Laid(body, r, g)' /\ \E h : Stands(body, r, g, h)'
<1>1. test' = test /\ job' = job
    BY Zenon DEF Execute, compose
<1>2. k \in 0 .. Len(body) /\ machine.pc = g[k] /\ Len(body) \in Nat
    BY DEF Stands, Laid
<1>3. CASE k = Len(body)
    <2>1. Knows(r[k].known) /\ {"written", "told"} \subseteq r[k].known
        BY <1>2, <1>3 DEF Stands, Laid
    <2>2. PICK w : Lying(Halt, w, machine.pc)
        BY <1>2, <1>3 DEF Laid
    <2>3. machine' = [machine EXCEPT !.state = "halted"]
        BY <2>2, HaltDone
    <2> QED BY <1>1, <2>1, <2>3, HaltPrints
<1>4. CASE k # Len(body)
    <2>1. k < Len(body) /\ k + 1 \in 1 .. Len(body) /\ (k + 1) - 1 = k /\ k + 1 \in 0 .. Len(body)
        BY <1>2, <1>4
    <2>2. /\ Follows(r[k], body[k + 1], r[k + 1]) /\ Lying(body[k + 1], g[k + 1] - g[k], machine.pc)
          /\ g[k] \in Nat /\ g[k + 1] \in Nat
        BY <1>2, <2>1 DEF Laid, Route
    <2>3. RunsOn /\ \E h : Stands(body, r, g, h)'
        <3>1. CASE Straight(r[k], body[k + 1], r[k + 1]) /\ Knows(r[k].known)
            <4> DEFINE w == g[k + 1] - g[k]
            <4>1. Learns(r[k].known, body[k + 1], r[k + 1].known) /\ r[k + 1].p = 0
                BY <3>1 DEF Straight
            <4>2. machine.pc + w = g[k + 1] /\ Lying(body[k + 1], w, machine.pc)
                BY <1>2, <2>2
            <4> HIDE DEF w
            <4>3. Goes(machine.pc + w) /\ Knows(r[k + 1].known)'
                BY <3>1, <4>1, <4>2, LearnsDone
            <4>4. Stands(body, r, g, k + 1)'
                BY <2>1, <4>1, <4>2, <4>3 DEF Stands, Goes
            <4>5. RunsOn
                BY <4>3 DEF Goes, Runs, RunsOn
            <4> QED BY <4>4, <4>5
        <3>2. CASE Looping(r[k], body[k + 1], r[k + 1]) /\ r[k].p = 0 /\ Knows(r[k].known)
            <4>1. InTurn(r[k].known, r[k].p, 0)
                BY <3>2, Entering DEF Looping
            <4> QED BY <1>2, <2>1, <3>2, <4>1, TurnsOn
        <3>3. CASE Looping(r[k], body[k + 1], r[k + 1]) /\ \E t : InTurn(r[k].known, r[k].p, t)
            BY <1>2, <2>1, <3>3, TurnsOn
        <3> QED BY <2>2, <3>1, <3>2, <3>3 DEF Stands, Follows
    <2>4. Runs' /\ machine'.code = machine.code
        BY <2>3 DEF RunsOn
    <2>5. Laid(body, r, g)'
        BY <1>1, <2>4, LaidKept
    <2> QED BY <2>3, <2>4, <2>5
<1> QED BY <1>3, <1>4

-----------------------------------------------------------------------------
(* How a program is composed.                                                *)

LEMMA HexesConcat ==
    ASSUME NEW S, NEW c \in Seq(S), NEW d \in Seq(S)
    PROVE  Hexes(c \o d) = Hexes(c) \o Hexes(d)
<1> DEFINE v == c \o d
           k == Len(c)
           l == Len(d)
           a == Hexes(c)
           b == Hexes(d)
           h == Hexes(v)
           T == {h[i] : i \in 1 .. k + l}
<1>1. /\ v \in Seq(S) /\ Len(v) = k + l
      /\ \A i \in 1 .. k + l : v[i] = IF i <= k THEN c[i] ELSE d[i - k]
    BY ConcatProperties
<1>2. k \in Nat /\ l \in Nat /\ DOMAIN c = 1 .. k /\ DOMAIN d = 1 .. l /\ DOMAIN v = 1 .. k + l
    BY <1>1, LenProperties
<1> HIDE DEF v, k, l
<1>3. /\ a = [i \in 1 .. k |-> Assemble(c[i].name, c[i].args).hex]
      /\ b = [i \in 1 .. l |-> Assemble(d[i].name, d[i].args).hex]
      /\ h = [i \in 1 .. k + l |-> Assemble(v[i].name, v[i].args).hex]
    BY <1>2 DEF Hexes
<1>4. ASSUME NEW i \in 1 .. k + l
      PROVE  h[i] = IF i <= k THEN a[i] ELSE b[i - k]
    <2>1. CASE i <= k
        <3>1. v[i] = c[i] /\ i \in 1 .. k
            BY <1>1, <1>2, <2>1
        <3> QED BY <1>3, <2>1, <3>1
    <2>2. CASE ~ (i <= k)
        <3>1. i - k \in 1 .. l /\ v[i] = d[i - k]
            BY <1>1, <1>2, <2>2
        <3> QED BY <1>3, <2>2, <3>1
    <2> QED BY <2>1, <2>2
<1>5. /\ DOMAIN h = 1 .. k + l /\ DOMAIN a = 1 .. k /\ DOMAIN b = 1 .. l
      /\ h = [i \in 1 .. k + l |-> h[i]] /\ a = [i \in 1 .. k |-> a[i]] /\ b = [i \in 1 .. l |-> b[i]]
    BY <1>3
<1> HIDE DEF a, b, h
<1>6. ASSUME NEW i \in 1 .. k PROVE a[i] \in T
    <2>1. i \in 1 .. k + l /\ i <= k
        BY <1>2
    <2> QED BY <1>4, <2>1
<1>7. ASSUME NEW i \in 1 .. l PROVE b[i] \in T
    <2> DEFINE j == k + i
    <2>1. j \in 1 .. k + l /\ ~ (j <= k) /\ j - k = i
        BY <1>2
    <2> HIDE DEF j
    <2>2. h[j] = b[i]
        BY <1>4, <2>1
    <2> QED BY <2>1, <2>2
<1>8. \A i \in 1 .. k + l : h[i] \in T
    OBVIOUS
<1> HIDE DEF T
<1>9. a \in Seq(T) /\ Len(a) = k /\ b \in Seq(T) /\ Len(b) = l
    BY <1>2, <1>5, <1>6, <1>7, FunctionIsSeq
<1>10. k + l \in Nat
    BY <1>2
<1>11. h \in Seq(T) /\ Len(h) = k + l
    BY <1>5, <1>8, <1>10, FunctionIsSeq
<1>12. /\ a \o b \in Seq(T) /\ Len(a \o b) = k + l
       /\ \A i \in 1 .. k + l : (a \o b)[i] = IF i <= k THEN a[i] ELSE b[i - k]
    BY <1>9, ConcatProperties
<1>13. h = a \o b
    BY <1>4, <1>11, <1>12, SeqEqual
<1> QED BY <1>13 DEF v, a, b, h

\* A way through calls, from a place to a place.
Traces(calls, q, l, m) ==
    /\ q[0] = l /\ q[Len(calls)] = m
    /\ \A k \in 1 .. Len(calls) : Follows(q[k - 1], calls[k], q[k])
Passage(calls, l, m) ==
    /\ \E S : calls \in Seq(S)
    /\ \A k \in 1 .. Len(calls) : \E w : Spoken(calls[k], w)
    /\ \E q : Traces(calls, q, l, m)

LEMMA NoPassage ==
    ASSUME NEW l
    PROVE  Passage(<<>>, l, l)
<1>1. <<>> \in Seq({}) /\ Len(<<>>) = 0
    BY EmptySeq
<1> DEFINE q == [i \in 0 .. 0 |-> l]
<1>2. q[0] = l
    OBVIOUS
<1> HIDE DEF q
<1>3. Traces(<<>>, q, l, l)
    BY <1>1, <1>2 DEF Traces
<1> QED BY <1>1, <1>3 DEF Passage

LEMMA OnePassage ==
    ASSUME NEW l, NEW c, NEW m, NEW w, Follows(l, c, m), Spoken(c, w)
    PROVE  Passage(<<c>>, l, m)
<1> DEFINE t == <<c>>
           q == [i \in 0 .. 1 |-> IF i = 0 THEN l ELSE m]
<1>1. t \in Seq({c}) /\ Len(t) = 1 /\ t[1] = c
    OBVIOUS
<1>2. q[0] = l /\ q[1] = m
    OBVIOUS
<1>3. \A k \in 1 .. 1 : k = 1 /\ k - 1 = 0
    OBVIOUS
<1> HIDE DEF t, q
<1>4. Traces(t, q, l, m)
    BY <1>1, <1>2, <1>3 DEF Traces
<1>5. Passage(t, l, m)
    BY <1>1, <1>3, <1>4 DEF Passage
<1> QED BY <1>5 DEF t

LEMMA MorePassage ==
    ASSUME NEW a, NEW b, NEW l, NEW m, NEW n, Passage(a, l, m), Passage(b, m, n)
    PROVE  Passage(a \o b, l, n)
<1> DEFINE v == a \o b
           x == Len(a)
           y == Len(b)
<1>1. PICK S : a \in Seq(S)
    BY DEF Passage
<1>2. PICK R : b \in Seq(R)
    BY DEF Passage
<1>3. a \in Seq(S \cup R) /\ b \in Seq(S \cup R)
    BY <1>1, <1>2
<1>4. /\ v \in Seq(S \cup R) /\ Len(v) = x + y
      /\ \A i \in 1 .. x + y : v[i] = IF i <= x THEN a[i] ELSE b[i - x]
    BY <1>3, ConcatProperties
<1>5. x \in Nat /\ y \in Nat
    BY <1>3, LenProperties
<1>6. PICK q : Traces(a, q, l, m)
    BY DEF Passage
<1>7. PICK p : Traces(b, p, m, n)
    BY DEF Passage
<1>8. /\ q[0] = l /\ q[x] = m /\ \A k \in 1 .. x : Follows(q[k - 1], a[k], q[k])
      /\ \A k \in 1 .. x : \E w : Spoken(a[k], w)
    BY <1>6 DEF Traces, Passage
<1>9. /\ p[0] = m /\ p[y] = n /\ \A k \in 1 .. y : Follows(p[k - 1], b[k], p[k])
      /\ \A k \in 1 .. y : \E w : Spoken(b[k], w)
    BY <1>7 DEF Traces, Passage
<1> HIDE DEF v, x, y
<1> DEFINE s == [i \in 0 .. x + y |-> IF i <= x THEN q[i] ELSE p[i - x]]
<1>10. /\ \A i \in 0 .. x + y : i <= x => s[i] = q[i]
       /\ \A i \in 0 .. x + y : x <= i => s[i] = p[i - x]
    <2>1. ASSUME NEW i \in 0 .. x + y, i <= x PROVE s[i] = q[i]
        BY <2>1
    <2>2. ASSUME NEW i \in 0 .. x + y, x <= i PROVE s[i] = p[i - x]
        <3>1. CASE i = x
            <4>1. i - x = 0
                BY <1>5, <3>1
            <4> QED BY <1>5, <1>8, <1>9, <3>1, <4>1
        <3>2. CASE i # x
            <4>1. ~ (i <= x)
                BY <1>5, <2>2, <3>2
            <4> QED BY <4>1
        <3> QED BY <3>1, <3>2
    <2> QED BY <2>1, <2>2
<1> HIDE DEF s
<1>11. ASSUME NEW k \in 1 .. x + y
       PROVE  Follows(s[k - 1], v[k], s[k]) /\ \E w : Spoken(v[k], w)
    <2>1. k \in 0 .. x + y /\ k - 1 \in 0 .. x + y
        BY <1>5
    <2>2. CASE k <= x
        <3>1. k \in 1 .. x /\ k - 1 <= x
            BY <1>5, <2>2
        <3>2. s[k - 1] = q[k - 1] /\ s[k] = q[k] /\ v[k] = a[k]
            BY <1>4, <1>10, <2>1, <2>2, <3>1
        <3> QED BY <1>8, <3>1, <3>2
    <2>3. CASE ~ (k <= x)
        <3> DEFINE j == k - x
        <3>1. j \in 1 .. y /\ x <= k /\ x <= k - 1 /\ (k - 1) - x = j - 1
            BY <1>5, <2>3
        <3>2. s[k - 1] = p[(k - 1) - x] /\ s[k] = p[j] /\ v[k] = b[j]
            BY <1>4, <1>10, <2>1, <2>3, <3>1
        <3> HIDE DEF j
        <3>3. s[k - 1] = p[j - 1]
            BY <3>1, <3>2
        <3> QED BY <1>9, <3>1, <3>2, <3>3
    <2> QED BY <2>2, <2>3
<1>12. s[0] = l /\ s[x + y] = n
    <2>1. 0 \in 0 .. x + y /\ 0 <= x /\ x + y \in 0 .. x + y /\ x <= x + y /\ (x + y) - x = y
        BY <1>5
    <2>2. s[x + y] = p[(x + y) - x]
        BY <1>10, <2>1
    <2> QED BY <1>8, <1>9, <1>10, <2>1, <2>2
<1>13. Traces(v, s, l, n)
    BY <1>4, <1>11, <1>12 DEF Traces
<1>14. Passage(v, l, n)
    BY <1>4, <1>11, <1>13 DEF Passage
<1> QED BY <1>14 DEF v

LEMMA PassageKept ==
    ASSUME test' = test, job' = job, NEW calls, NEW l, NEW m, Passage(calls, l, m)
    PROVE  Passage(calls, l, m)'
<1>1. PICK q : Traces(calls, q, l, m)
    BY DEF Passage
<1>2. Traces(calls, q, l, m)'
    BY <1>1, FollowsKept DEF Traces
<1> QED BY <1>2 DEF Passage, Spoken

\* What is composed when such calls are added.
LEMMA AddsCode ==
    ASSUME NEW calls, NEW l, NEW m, Passage(calls, l, m), Adds(calls)
    PROVE  /\ exit' = exit /\ code' = code \o Hexes(calls) /\ at' = at + 1
           /\ UNCHANGED <<test, job, phase, page, solution, move, alarmed, service, behind>>
<1> DEFINE I == [i \in DOMAIN calls |-> Assemble(calls[i].name, calls[i].args)]
<1>1. /\ IF \E i \in DOMAIN I : I[i].result = "raises"
         THEN exit' = 1 /\ UNCHANGED code
         ELSE exit' = exit /\ code' = code \o [i \in DOMAIN I |-> I[i].hex]
      /\ at' = at + 1
      /\ UNCHANGED <<test, job, phase, page, solution, move, alarmed, service, behind>>
    BY DEF Adds
<1>2. ASSUME NEW i \in DOMAIN calls PROVE I[i].result # "raises"
    <2>1. DOMAIN calls = 1 .. Len(calls)
        BY DEF Passage
    <2>2. PICK w : Spoken(calls[i], w)
        BY <2>1 DEF Passage
    <2>3. Assemble(calls[i].name, calls[i].args).result = "code"
        BY <2>2, SpokenLayout
    <2> QED BY <2>3
<1>3. [i \in DOMAIN I |-> I[i].hex] = Hexes(calls) /\ DOMAIN I = DOMAIN calls
    BY DEF Hexes
<1> HIDE DEF I
<1>4. exit' = exit /\ code' = code \o Hexes(calls)
    BY <1>1, <1>2, <1>3
<1> QED BY <1>1, <1>4

Place(known) == [known |-> known, p |-> 0]
Inside(known, p) == [known |-> known, p |-> p]
\* That the program so far leads there.
LeadsTo(known) == \E body : Passage(body, Place({}), Place(known)) /\ code = Hexes(body)

LEMMA LeadsOn ==
    ASSUME NEW known, LeadsTo(known), NEW calls, NEW after, Passage(calls, Place(known), Place(after)), Adds(calls)
    PROVE  LeadsTo(after)'
<1>1. PICK body : Passage(body, Place({}), Place(known)) /\ code = Hexes(body)
    BY DEF LeadsTo
<1> DEFINE l == Place({})
           m == Place(known)
           n == Place(after)
<1>2. Passage(body, l, m) /\ Passage(calls, m, n)
    BY <1>1
<1>3. code' = code \o Hexes(calls) /\ test' = test /\ job' = job
    BY <1>2, AddsCode
<1> HIDE DEF l, m, n
<1>4. Passage(body \o calls, l, n)
    BY <1>2, MorePassage
<1>5. Passage(body \o calls, l, n)'
    BY <1>3, <1>4, PassageKept
<1>6. Hexes(body \o calls) = Hexes(body) \o Hexes(calls)
    <2>1. PICK S : body \in Seq(S)
        BY <1>2 DEF Passage
    <2>2. PICK R : calls \in Seq(R)
        BY <1>2 DEF Passage
    <2>3. body \in Seq(S \cup R) /\ calls \in Seq(S \cup R)
        BY <2>1, <2>2
    <2> QED BY <2>3, HexesConcat
<1>7. code' = Hexes(body \o calls)
    BY <1>1, <1>3, <1>6
<1>8. (Place({}))' = l /\ (Place(after))' = n
    BY DEF l, n, Place
<1> QED BY <1>5, <1>7 DEF LeadsTo, l, n, Place, Hexes

LEMMA TupleTwo ==
    ASSUME NEW a, NEW b
    PROVE  <<a>> \o <<b>> = <<a, b>>
<1> DEFINE S == {a, b}
           x == <<a>>
           y == <<b>>
           t == <<a, b>>
<1>1. x \in Seq(S) /\ y \in Seq(S) /\ Len(x) = 1 /\ Len(y) = 1 /\ x[1] = a /\ y[1] = b
    OBVIOUS
<1>2. t \in Seq(S) /\ Len(t) = 2 /\ t[1] = a /\ t[2] = b
    OBVIOUS
<1> HIDE DEF x, y, t, S
<1> DEFINE v == x \o y
<1>3. /\ v \in Seq(S) /\ Len(v) = Len(x) + Len(y)
      /\ \A i \in 1 .. Len(x) + Len(y) : v[i] = IF i <= Len(x) THEN x[i] ELSE y[i - Len(x)]
    BY <1>1, ConcatProperties
<1> HIDE DEF v
<1>4. Len(x) + Len(y) = 2 /\ Len(v) = Len(t)
    BY <1>1, <1>2, <1>3
<1>5. \A i \in 1 .. Len(v) : v[i] = t[i]
    BY <1>1, <1>2, <1>3, <1>4
<1>6. v = t
    BY <1>2, <1>3, <1>4, <1>5, SeqEqual
<1> QED BY <1>6 DEF x, y, t, v

LEMMA TupleFour ==
    ASSUME NEW a, NEW b, NEW c, NEW d
    PROVE  <<a, b>> \o <<c, d>> = <<a, b, c, d>>
<1> DEFINE S == {a, b, c, d}
           x == <<a, b>>
           y == <<c, d>>
           t == <<a, b, c, d>>
<1>1. /\ x \in Seq(S) /\ y \in Seq(S) /\ Len(x) = 2 /\ Len(y) = 2
      /\ x[1] = a /\ x[2] = b /\ y[1] = c /\ y[2] = d
    OBVIOUS
<1>2. t \in Seq(S) /\ Len(t) = 4 /\ t[1] = a /\ t[2] = b /\ t[3] = c /\ t[4] = d
    OBVIOUS
<1> HIDE DEF x, y, t, S
<1> DEFINE v == x \o y
<1>3. /\ v \in Seq(S) /\ Len(v) = Len(x) + Len(y)
      /\ \A i \in 1 .. Len(x) + Len(y) : v[i] = IF i <= Len(x) THEN x[i] ELSE y[i - Len(x)]
    BY <1>1, ConcatProperties
<1> HIDE DEF v
<1>4. Len(x) + Len(y) = 4 /\ Len(v) = Len(t)
    BY <1>1, <1>2, <1>3
<1>5. \A i \in 1 .. Len(v) : v[i] = t[i]
    BY <1>1, <1>2, <1>3, <1>4
<1>6. v = t
    BY <1>2, <1>3, <1>4, <1>5, SeqEqual
<1> QED BY <1>6 DEF x, y, t, v

LEMMA TupleSix ==
    ASSUME NEW a, NEW b, NEW c, NEW d, NEW e, NEW f
    PROVE  <<a, b, c, d>> \o <<e, f>> = <<a, b, c, d, e, f>>
<1> DEFINE S == {a, b, c, d, e, f}
           x == <<a, b, c, d>>
           y == <<e, f>>
           t == <<a, b, c, d, e, f>>
<1>1. /\ x \in Seq(S) /\ y \in Seq(S) /\ Len(x) = 4 /\ Len(y) = 2
      /\ x[1] = a /\ x[2] = b /\ x[3] = c /\ x[4] = d /\ y[1] = e /\ y[2] = f
    OBVIOUS
<1>2. t \in Seq(S) /\ Len(t) = 6 /\ t[1] = a /\ t[2] = b /\ t[3] = c /\ t[4] = d /\ t[5] = e /\ t[6] = f
    OBVIOUS
<1> HIDE DEF x, y, t, S
<1> DEFINE v == x \o y
<1>3. /\ v \in Seq(S) /\ Len(v) = Len(x) + Len(y)
      /\ \A i \in 1 .. Len(x) + Len(y) : v[i] = IF i <= Len(x) THEN x[i] ELSE y[i - Len(x)]
    BY <1>1, ConcatProperties
<1> HIDE DEF v
<1>4. Len(x) + Len(y) = 6 /\ Len(v) = Len(t)
    BY <1>1, <1>2, <1>3
<1>5. \A i \in 1 .. Len(v) : v[i] = t[i]
    BY <1>1, <1>2, <1>3, <1>4
<1>6. v = t
    BY <1>2, <1>3, <1>4, <1>5, SeqEqual
<1> QED BY <1>6 DEF x, y, t, v

LEMMA TwoPassage ==
    ASSUME NEW l, NEW m, NEW n, NEW a, NEW b, Passage(<<a>>, l, m), Passage(<<b>>, m, n)
    PROVE  Passage(<<a, b>>, l, n)
<1>1. Passage(<<a>> \o <<b>>, l, n)
    BY MorePassage
<1>2. <<a>> \o <<b>> = <<a, b>>
    BY TupleTwo
<1> QED BY <1>1, <1>2

LEMMA FourPassage ==
    ASSUME NEW l, NEW m, NEW n, NEW o, NEW p, NEW a, NEW b, NEW c, NEW d,
           Passage(<<a>>, l, m), Passage(<<b>>, m, n), Passage(<<c>>, n, o), Passage(<<d>>, o, p)
    PROVE  Passage(<<a, b, c, d>>, l, p)
<1>1. Passage(<<a, b>>, l, n) /\ Passage(<<c, d>>, n, p)
    BY TwoPassage
<1>2. Passage(<<a, b>> \o <<c, d>>, l, p)
    BY <1>1, MorePassage
<1>3. <<a, b>> \o <<c, d>> = <<a, b, c, d>>
    BY TupleFour
<1> QED BY <1>2, <1>3

LEMMA LearnPassage ==
    ASSUME NEW known, NEW c, NEW after, Learns(known, c, after), NEW w, Spoken(c, w)
    PROVE  Passage(<<c>>, Place(known), Place(after))
<1> DEFINE l == Place(known)
           m == Place(after)
<1>1. Follows(l, c, m)
    BY DEF Follows, Straight, Place
<1> HIDE DEF l, m
<1>2. Passage(<<c>>, l, m)
    BY <1>1, OnePassage
<1> QED BY <1>2 DEF l, m

\* What the single moves add.
Lower(known) == (known \ {"buffer"}) \cup {"base"}
Upper(known) == (known \ {"base"}) \cup {"buffer"}
CountLow(known) == (known \ {"count"}) \cup {"low"}
CountHigh(known) == (known \ {"low"}) \cup {"count"}

LEMMA MovePassages ==
    ASSUME Drawn, NEW known
    PROVE  /\ Passage(<<Move("ML", 1, 0)>>, Place(known), Place(Lower(known)))
           /\ "base" \in known => Passage(<<Move("MH", 1, OutputBufAddr)>>, Place(known), Place(Upper(known)))
           /\ Passage(<<Move("ML", 2, 0)>>, Place(known), Place(CountLow(known)))
           /\ "low" \in known =>
                Passage(<<Move("MH", 2, OutputCountAddr)>>, Place(known), Place(CountHigh(known)))
           /\ Passage(<<Move("ML", 3, NumChars)>>, Place(known), Place(known \cup {"length"}))
           /\ test = "echo" => Passage(<<Move("ML", 8, job[2])>>, Place(known), Place(known \cup {"value"}))
           /\ test = "math" => Passage(<<Move("ML", 7, Input1)>>, Place(known), Place(known \cup {"input"}))
<1>1. 0 \in Small /\ OutputBufAddr \in Small /\ OutputCountAddr \in Small
    BY Between DEF OutputBufAddr, OutputCountAddr
<1>2. 7 \in Small
    BY Between
<1>3. \A rA \in Small : \A n \in Small : Spoken(Move("ML", rA, n), 3) /\ Spoken(Move("MH", rA, n), 3)
    BY LoopNumbers, MoveSpoken
<1>4. /\ Learns(known, Move("ML", 1, 0), Lower(known))
      /\ "base" \in known => Learns(known, Move("MH", 1, OutputBufAddr), Upper(known))
      /\ Learns(known, Move("ML", 2, 0), CountLow(known))
      /\ "low" \in known => Learns(known, Move("MH", 2, OutputCountAddr), CountHigh(known))
      /\ Learns(known, Move("ML", 3, NumChars), known \cup {"length"})
      /\ test = "echo" => Learns(known, Move("ML", 8, job[2]), known \cup {"value"})
      /\ test = "math" => Learns(known, Move("ML", 7, Input1), known \cup {"input"})
    BY DEF Learns, Lower, Upper, CountLow, CountHigh
<1> QED BY <1>1, <1>2, <1>3, <1>4, LoopNumbers, NumbersSmall, LearnPassage

LEMMA SetCountPassage ==
    ASSUME Drawn, NEW known
    PROVE  Passage(SetCount, Place(known), Place(CountHigh(CountLow(known))))
<1>1. "low" \in CountLow(known)
    BY DEF CountLow
<1> DEFINE m == CountLow(known)
<1>2. Passage(<<Move("ML", 2, 0)>>, Place(known), Place(m))
    BY MovePassages
<1> HIDE DEF m
<1>3. Passage(<<Move("MH", 2, OutputCountAddr)>>, Place(m), Place(CountHigh(m)))
    BY <1>1, MovePassages DEF m
<1>4. Passage(SetCount, Place(known), Place(CountHigh(m)))
    BY <1>2, <1>3, TwoPassage DEF SetCount
<1> QED BY <1>4 DEF m

\* What a part of the composition leads to, without the count register lost.
Affords(known, after, facts) == facts \subseteq after /\ ("count" \in known => "count" \in after)
Brings(calls, known, facts) ==
    \E after : Passage(calls, Place(known), Place(after)) /\ Affords(known, after, facts)

LEMMA SetUpBrings ==
    ASSUME Drawn, NEW known, NEW order \in SetUps
    PROVE  Brings(order, known, {"buffer", "length", IF test = "echo" THEN "value" ELSE "input"})
<1> DEFINE lower == Move("ML", 1, 0)
           upper == Move("MH", 1, OutputBufAddr)
           length == Move("ML", 3, NumChars)
           char == Move("ML", 8, job[2])
           input == Move("ML", 7, Input1)
\* A move on its own.
<1>1. ASSUME NEW k
      PROVE  /\ Passage(<<lower>>, Place(k), Place(Lower(k)))
             /\ "base" \in k => Passage(<<upper>>, Place(k), Place(Upper(k)))
             /\ Passage(<<length>>, Place(k), Place(k \cup {"length"}))
             /\ test = "echo" => Passage(<<char>>, Place(k), Place(k \cup {"value"}))
             /\ test = "math" => Passage(<<input>>, Place(k), Place(k \cup {"input"}))
    BY MovePassages
<1>2. CASE test = "echo"
    <2>1. SetUps = {<<lower, upper, char, length>>, <<char, lower, upper, length>>,
                    <<lower, char, length, upper>>, <<length, lower, char, upper>>}
        BY <1>2 DEF SetUps
    <2> HIDE DEF lower, upper, length, char, input
    <2>2. CASE order = <<lower, upper, char, length>>
        <3> DEFINE a == Lower(known)
                   b == Upper(a)
                   c == b \cup {"value"}
                   d == c \cup {"length"}
        <3>1. "base" \in a /\ Affords(known, d, {"buffer", "length", "value"})
            BY DEF Affords, Lower, Upper
        <3>2. /\ Passage(<<lower>>, Place(known), Place(a)) /\ Passage(<<upper>>, Place(a), Place(b))
              /\ Passage(<<char>>, Place(b), Place(c)) /\ Passage(<<length>>, Place(c), Place(d))
            BY <1>1, <1>2, <3>1
        <3> HIDE DEF a, b, c, d
        <3>3. Passage(order, Place(known), Place(d))
            BY <2>2, <3>2, FourPassage
        <3> QED BY <1>2, <3>1, <3>3 DEF Brings
    <2>3. CASE order = <<char, lower, upper, length>>
        <3> DEFINE a == known \cup {"value"}
                   b == Lower(a)
                   c == Upper(b)
                   d == c \cup {"length"}
        <3>1. "base" \in b /\ Affords(known, d, {"buffer", "length", "value"})
            BY DEF Affords, Lower, Upper
        <3>2. /\ Passage(<<char>>, Place(known), Place(a)) /\ Passage(<<lower>>, Place(a), Place(b))
              /\ Passage(<<upper>>, Place(b), Place(c)) /\ Passage(<<length>>, Place(c), Place(d))
            BY <1>1, <1>2, <3>1
        <3> HIDE DEF a, b, c, d
        <3>3. Passage(order, Place(known), Place(d))
            BY <2>3, <3>2, FourPassage
        <3> QED BY <1>2, <3>1, <3>3 DEF Brings
    <2>4. CASE order = <<lower, char, length, upper>>
        <3> DEFINE a == Lower(known)
                   b == a \cup {"value"}
                   c == b \cup {"length"}
                   d == Upper(c)
        <3>1. "base" \in c /\ Affords(known, d, {"buffer", "length", "value"})
            BY DEF Affords, Lower, Upper
        <3>2. /\ Passage(<<lower>>, Place(known), Place(a)) /\ Passage(<<char>>, Place(a), Place(b))
              /\ Passage(<<length>>, Place(b), Place(c)) /\ Passage(<<upper>>, Place(c), Place(d))
            BY <1>1, <1>2, <3>1
        <3> HIDE DEF a, b, c, d
        <3>3. Passage(order, Place(known), Place(d))
            BY <2>4, <3>2, FourPassage
        <3> QED BY <1>2, <3>1, <3>3 DEF Brings
    <2>5. CASE order = <<length, lower, char, upper>>
        <3> DEFINE a == known \cup {"length"}
                   b == Lower(a)
                   c == b \cup {"value"}
                   d == Upper(c)
        <3>1. "base" \in c /\ Affords(known, d, {"buffer", "length", "value"})
            BY DEF Affords, Lower, Upper
        <3>2. /\ Passage(<<length>>, Place(known), Place(a)) /\ Passage(<<lower>>, Place(a), Place(b))
              /\ Passage(<<char>>, Place(b), Place(c)) /\ Passage(<<upper>>, Place(c), Place(d))
            BY <1>1, <1>2, <3>1
        <3> HIDE DEF a, b, c, d
        <3>3. Passage(order, Place(known), Place(d))
            BY <2>5, <3>2, FourPassage
        <3> QED BY <1>2, <3>1, <3>3 DEF Brings
    <2> QED BY <2>1, <2>2, <2>3, <2>4, <2>5
<1>3. CASE test = "math"
    <2>1. order = <<lower, upper, length, input>>
        BY <1>3 DEF SetUps
    <2> HIDE DEF lower, upper, length, char, input
    <2> DEFINE a == Lower(known)
               b == Upper(a)
               c == b \cup {"length"}
               d == c \cup {"input"}
    <2>2. "base" \in a /\ Affords(known, d, {"buffer", "length", "input"})
        BY DEF Affords, Lower, Upper
    <2>3. /\ Passage(<<lower>>, Place(known), Place(a)) /\ Passage(<<upper>>, Place(a), Place(b))
          /\ Passage(<<length>>, Place(b), Place(c)) /\ Passage(<<input>>, Place(c), Place(d))
        BY <1>1, <1>3, <2>2
    <2> HIDE DEF a, b, c, d
    <2>4. Passage(order, Place(known), Place(d))
        BY <2>1, <2>3, FourPassage
    <2> QED BY <1>3, <2>2, <2>4 DEF Brings
<1> QED BY <1>2, <1>3 DEF Drawn

LEMMA OperationBrings ==
    ASSUME Drawn, test = "math", NEW known, "input" \in known
    PROVE  Passage(Operation, Place(known), Place(known \cup {"value"}))
<1> DEFINE name == CASE job[1] = "+" -> "ADI" [] job[1] = "-" -> "SBI"
                     [] job[1] = "*" -> "MUI" [] job[1] = "/" -> "DVI"
<1>1. job[1] \in {"+", "-", "*", "/"} /\ Input2 \in Small /\ 7 \in Small /\ 8 \in Small
    BY NumbersSmall, Between
<1>2. name \in DrawnWith \cup {"DVI", "MDI"}
    <2>1. name \in {"ADI", "SBI", "MUI", "DVI"}
        BY <1>1
    <2> HIDE DEF name
    <2> QED BY <2>1 DEF DrawnWith
<1> DEFINE c == With(name, 8, 7, Input2)
<1>3. Operation = <<c>>
    BY DEF Operation
<1> HIDE DEF name
<1>4. Spoken(c, 3)
    BY <1>1, <1>2, WithSpoken
<1> HIDE DEF c
<1>5. c = Operation[1]
    BY <1>3
<1>6. Learns(known, c, known \cup {"value"})
    BY <1>5 DEF Learns
<1> QED BY <1>3, <1>4, <1>6, LearnPassage

LEMMA FinishBrings ==
    ASSUME Drawn, NEW known, countSet => "count" \in known
    PROVE  \E after : Passage(Finish, Place(known), Place(after))
                      /\ "told" \in after /\ "count" \in after /\ ("written" \in known => "written" \in after)
<1> DEFINE m == IF countSet THEN known ELSE CountHigh(CountLow(known))
           n == m \cup {"length"}
           o == n \cup {"told"}
           move3 == Move("ML", 3, NumChars)
           store == Stores("STT", 3, 2)
<1>1. /\ "count" \in m /\ ("written" \in known => "written" \in m)
      /\ "told" \in o /\ "count" \in o /\ ("written" \in known => "written" \in o)
    BY DEF CountHigh, CountLow
<1>2. Passage(IF countSet THEN <<>> ELSE SetCount, Place(known), Place(m))
    BY SetCountPassage, NoPassage
<1> HIDE DEF m
<1>3. Passage(<<move3>>, Place(m), Place(n))
    BY MovePassages
<1>4. Passage(<<store>>, Place(n), Place(o))
    <2>1. Spoken(store, 6)
        BY LoopNumbers, StoresSpoken
    <2>2. Learns(n, store, o)
        BY <1>1 DEF Learns
    <2> HIDE DEF n, o, store
    <2> QED BY <2>1, <2>2, LearnPassage
<1> HIDE DEF n, o, move3, store
<1>5. Passage(<<move3, store>>, Place(m), Place(o))
    BY <1>3, <1>4, TwoPassage
<1>6. Finish = (IF countSet THEN <<>> ELSE SetCount) \o <<move3, store>>
    BY DEF Finish, move3, store
<1>7. Passage(Finish, Place(known), Place(o))
    BY <1>2, <1>5, <1>6, MorePassage
<1> QED BY <1>1, <1>7

LEMMA RandomSpoken ==
    ASSUME NEW draw \in Draws
    PROVE  /\ Strewn(RandomInstruction(draw))
           /\ Spoken(RandomInstruction(draw), 2) \/ Spoken(RandomInstruction(draw), 3)
<1> DEFINE c == RandomInstruction(draw)
<1>1. /\ draw.name \in DrawnThree \cup DrawnWith \cup DrawnTwo \cup {"CMI"} \cup DrawnMove
      /\ draw.rA \in AvailableRegisters /\ draw.rB \in AvailableRegisters /\ draw.rC \in AvailableRegisters
      /\ draw.Immediate \in 0 .. 127 /\ draw.Immediate17 \in 0 .. 2^17 - 1
    BY DrawsAssumption
<1>2. draw.rA \in Small /\ draw.rB \in Small /\ draw.rC \in Small /\ draw.Immediate \in Small
    <2>1. \A r \in AvailableRegisters : r \in 0 .. 127
        BY DEF AvailableRegisters
    <2> QED BY <1>1, <2>1, Between
<1>3. draw.Immediate17 \in Small
    BY <1>1, SmallNumbers
<1> DEFINE name == draw.name
           three == Three(draw.name, draw.rA, draw.rB, draw.rC)
           with == With(draw.name, draw.rA, draw.rB, draw.Immediate)
           two == Two(draw.name, draw.rA, draw.rB)
           compared == Move(draw.name, draw.rA, draw.Immediate)
           moved == Move(draw.name, draw.rA, draw.Immediate17)
<1>4. c = CASE name \in DrawnThree -> three [] name \in DrawnWith -> with
            [] name \in DrawnTwo -> two [] name = "CMI" -> compared [] name \in DrawnMove -> moved
    BY DEF RandomInstruction
<1>5. /\ name \in DrawnThree => Spoken(three, 3)
      /\ name \in DrawnWith => Spoken(with, 3)
      /\ name \in DrawnTwo => Spoken(two, 2) \/ Spoken(two, 3)
      /\ name = "CMI" => Spoken(compared, 3)
      /\ name \in DrawnMove => Spoken(moved, 3)
      /\ Strewn(three) \/ name \notin DrawnThree
      /\ Strewn(with) \/ name \notin DrawnWith
      /\ Strewn(two) \/ name \notin DrawnTwo
      /\ Strewn(compared) \/ name # "CMI"
      /\ Strewn(moved) \/ name \notin DrawnMove
    <2>1. name \in DrawnThree => Spoken(three, 3)
        BY <1>2, ThreeSpoken
    <2>2. name \in DrawnWith => Spoken(with, 3)
        BY <1>2, WithSpoken
    <2>3. name \in DrawnTwo => Spoken(two, 2) \/ Spoken(two, 3)
        BY <1>2, TwoSpoken
    <2>4. name = "CMI" => Spoken(compared, 3)
        BY <1>2, MoveSpoken
    <2>5. name \in DrawnMove => Spoken(moved, 3)
        BY <1>2, <1>3, MoveSpoken
    <2>6. /\ Strewn(three) \/ name \notin DrawnThree
          /\ Strewn(with) \/ name \notin DrawnWith
          /\ Strewn(two) \/ name \notin DrawnTwo
          /\ Strewn(compared) \/ name # "CMI"
          /\ Strewn(moved) \/ name \notin DrawnMove
        BY <1>1 DEF Strewn, Three, With, Two, Move, Call
    <2> QED BY <2>1, <2>2, <2>3, <2>4, <2>5, <2>6
<1>6. /\ DrawnWith \cap DrawnThree = {} /\ DrawnTwo \cap (DrawnThree \cup DrawnWith) = {}
      /\ DrawnMove \cap (DrawnThree \cup DrawnWith \cup DrawnTwo) = {}
      /\ "CMI" \notin DrawnThree \cup DrawnWith \cup DrawnTwo \cup DrawnMove
    BY DEF DrawnWith, DrawnThree, DrawnTwo, DrawnMove
<1>7. Strewn(c) /\ (Spoken(c, 2) \/ Spoken(c, 3))
    <2> HIDE DEF c, three, with, two, compared, moved
    <2>1. CASE name \in DrawnThree
        <3>1. name \notin DrawnWith /\ name \notin DrawnTwo /\ name # "CMI" /\ name \notin DrawnMove
            BY <1>6, <2>1
        <3>2. c = three
            BY <1>4, <2>1, <3>1
        <3> QED BY <1>5, <2>1, <3>2
    <2>2. CASE name \in DrawnWith
        <3>1. name \notin DrawnThree /\ name \notin DrawnTwo /\ name # "CMI" /\ name \notin DrawnMove
            BY <1>6, <2>2
        <3>2. c = with
            BY <1>4, <2>2, <3>1
        <3> QED BY <1>5, <2>2, <3>2
    <2>3. CASE name \in DrawnTwo
        <3>1. name \notin DrawnThree /\ name \notin DrawnWith /\ name # "CMI" /\ name \notin DrawnMove
            BY <1>6, <2>3
        <3>2. c = two
            BY <1>4, <2>3, <3>1
        <3> QED BY <1>5, <2>3, <3>2
    <2>4. CASE name = "CMI"
        <3>1. name \notin DrawnThree /\ name \notin DrawnWith /\ name \notin DrawnTwo /\ name \notin DrawnMove
            BY <1>6, <2>4
        <3>2. c = compared
            BY <1>4, <2>4, <3>1
        <3> QED BY <1>5, <2>4, <3>2
    <2>5. CASE name \in DrawnMove
        <3>1. name \notin DrawnThree /\ name \notin DrawnWith /\ name \notin DrawnTwo /\ name # "CMI"
            BY <1>6, <2>5
        <3>2. c = moved
            BY <1>4, <2>5, <3>1
        <3> QED BY <1>5, <2>5, <3>2
    <2> QED BY <1>1, <2>1, <2>2, <2>3, <2>4, <2>5
<1> QED BY <1>7 DEF c

LEMMA RandomBrings ==
    ASSUME NEW draw \in Draws, NEW known
    PROVE  Passage(<<RandomInstruction(draw)>>, Place(known), Place(known))
<1> DEFINE c == RandomInstruction(draw)
<1>1. PICK w : Strewn(c) /\ Spoken(c, w)
    BY RandomSpoken
<1> HIDE DEF c
<1>2. Learns(known, c, known)
    BY <1>1 DEF Learns
<1>3. Passage(<<c>>, Place(known), Place(known))
    BY <1>1, <1>2, LearnPassage
<1> QED BY <1>3 DEF c

\* A call of the loop.
LEMMA LoopPassage ==
    ASSUME NEW known, Needed \subseteq known, NEW q \in 0 .. 5, q < Len(Loop), Len(Loop) \in Nat,
           NEW w, Spoken(Loop[q + 1], w), NEW c, c = Loop[q + 1]
    PROVE  /\ q + 1 # Len(Loop) => Passage(<<c>>, Inside(known, q), Inside(known, q + 1))
           /\ q + 1 = Len(Loop) => Passage(<<c>>, Inside(known, q), Place(Behind(known)))
<1>1. q \in 0 .. Len(Loop) - 1
    OBVIOUS
<1>2. CASE q + 1 # Len(Loop)
    <2> DEFINE l == Inside(known, q)
               m == Inside(known, q + 1)
    <2>1. Follows(l, c, m)
        BY <1>1, <1>2 DEF Follows, Looping, Inside
    <2> HIDE DEF l, m
    <2>2. Passage(<<c>>, l, m)
        BY <2>1, OnePassage
    <2> QED BY <1>2, <2>2 DEF l, m
<1>3. CASE q + 1 = Len(Loop)
    <2> DEFINE l == Inside(known, q)
               m == Place(Behind(known))
    <2>1. Follows(l, c, m)
        BY <1>1, <1>3 DEF Follows, Looping, Inside, Place
    <2> HIDE DEF l, m
    <2>2. Passage(<<c>>, l, m)
        BY <2>1, OnePassage
    <2> QED BY <1>3, <2>2 DEF l, m
<1> QED BY <1>2, <1>3

LEMMA EchoLoopBrings ==
    ASSUME test = "echo", NEW known, Needed \subseteq known
    PROVE  Passage(EchoLoop, Place(known), Place(Behind(known)))
<1>1. Loop = EchoLoop /\ Len(Loop) = 4 /\ Place(known) = Inside(known, 0)
    BY EchoLoopIs DEF Loop, Place, Inside
<1>2. /\ Spoken(Loop[0 + 1], 6) /\ Spoken(Loop[1 + 1], 3) /\ Spoken(Loop[2 + 1], 3) /\ Spoken(Loop[3 + 1], 3)
    BY <1>1, LoopSpoken
<1>3. /\ 0 \in 0 .. 5 /\ 1 \in 0 .. 5 /\ 2 \in 0 .. 5 /\ 3 \in 0 .. 5
      /\ 0 < 4 /\ 1 < 4 /\ 2 < 4 /\ 3 < 4 /\ 4 \in Nat
      /\ 0 + 1 # 4 /\ 1 + 1 # 4 /\ 2 + 1 # 4 /\ 3 + 1 = 4
    OBVIOUS
<1>4. /\ Passage(<<Loop[0 + 1]>>, Inside(known, 0), Inside(known, 0 + 1))
      /\ Passage(<<Loop[1 + 1]>>, Inside(known, 1), Inside(known, 1 + 1))
      /\ Passage(<<Loop[2 + 1]>>, Inside(known, 2), Inside(known, 2 + 1))
      /\ Passage(<<Loop[3 + 1]>>, Inside(known, 3), Place(Behind(known)))
    BY <1>1, <1>2, <1>3, LoopPassage
<1>5. /\ Passage(<<EchoLoop[1]>>, Place(known), Inside(known, 1))
      /\ Passage(<<EchoLoop[2]>>, Inside(known, 1), Inside(known, 2))
      /\ Passage(<<EchoLoop[3]>>, Inside(known, 2), Inside(known, 3))
      /\ Passage(<<EchoLoop[4]>>, Inside(known, 3), Place(Behind(known)))
    BY <1>1, <1>4
<1>6. EchoLoop = <<EchoLoop[1], EchoLoop[2], EchoLoop[3], EchoLoop[4]>>
    BY DEF EchoLoop
<1>7. Passage(<<EchoLoop[1], EchoLoop[2], EchoLoop[3], EchoLoop[4]>>, Place(known), Place(Behind(known)))
    BY <1>5, FourPassage
<1> QED BY <1>6, <1>7

LEMMA MathLoopBrings ==
    ASSUME test = "math", NEW known, Needed \subseteq known
    PROVE  Passage(MathLoop, Place(known), Place(Behind(known)))
<1>1. Loop = MathLoop /\ Len(Loop) = 6 /\ Place(known) = Inside(known, 0)
    BY MathLoopIs DEF Loop, Place, Inside
<1>2. /\ Spoken(Loop[0 + 1], 3) /\ Spoken(Loop[1 + 1], 3) /\ Spoken(Loop[2 + 1], 6) /\ Spoken(Loop[3 + 1], 3)
      /\ Spoken(Loop[4 + 1], 3) /\ Spoken(Loop[5 + 1], 3)
    BY <1>1, LoopSpoken
<1>3. /\ 0 \in 0 .. 5 /\ 1 \in 0 .. 5 /\ 2 \in 0 .. 5 /\ 3 \in 0 .. 5 /\ 4 \in 0 .. 5 /\ 5 \in 0 .. 5
      /\ 0 < 6 /\ 1 < 6 /\ 2 < 6 /\ 3 < 6 /\ 4 < 6 /\ 5 < 6 /\ 6 \in Nat
      /\ 0 + 1 # 6 /\ 1 + 1 # 6 /\ 2 + 1 # 6 /\ 3 + 1 # 6 /\ 4 + 1 # 6 /\ 5 + 1 = 6
    OBVIOUS
<1>4. /\ Passage(<<Loop[0 + 1]>>, Inside(known, 0), Inside(known, 0 + 1))
      /\ Passage(<<Loop[1 + 1]>>, Inside(known, 1), Inside(known, 1 + 1))
      /\ Passage(<<Loop[2 + 1]>>, Inside(known, 2), Inside(known, 2 + 1))
      /\ Passage(<<Loop[3 + 1]>>, Inside(known, 3), Inside(known, 3 + 1))
      /\ Passage(<<Loop[4 + 1]>>, Inside(known, 4), Inside(known, 4 + 1))
      /\ Passage(<<Loop[5 + 1]>>, Inside(known, 5), Place(Behind(known)))
    BY <1>1, <1>2, <1>3, LoopPassage
<1>5. /\ Passage(<<MathLoop[1]>>, Place(known), Inside(known, 1))
      /\ Passage(<<MathLoop[2]>>, Inside(known, 1), Inside(known, 2))
      /\ Passage(<<MathLoop[3]>>, Inside(known, 2), Inside(known, 3))
      /\ Passage(<<MathLoop[4]>>, Inside(known, 3), Inside(known, 4))
      /\ Passage(<<MathLoop[5]>>, Inside(known, 4), Inside(known, 5))
      /\ Passage(<<MathLoop[6]>>, Inside(known, 5), Place(Behind(known)))
    BY <1>1, <1>4
<1>6. MathLoop = <<MathLoop[1], MathLoop[2], MathLoop[3], MathLoop[4], MathLoop[5], MathLoop[6]>>
    BY DEF MathLoop
<1>7. /\ Passage(<<MathLoop[1], MathLoop[2], MathLoop[3], MathLoop[4]>>, Place(known), Inside(known, 4))
      /\ Passage(<<MathLoop[5], MathLoop[6]>>, Inside(known, 4), Place(Behind(known)))
    BY <1>5, TwoPassage, FourPassage
<1>8. Passage(<<MathLoop[1], MathLoop[2], MathLoop[3], MathLoop[4]>> \o <<MathLoop[5], MathLoop[6]>>,
              Place(known), Place(Behind(known)))
    BY <1>7, MorePassage
<1>9. <<MathLoop[1], MathLoop[2], MathLoop[3], MathLoop[4]>> \o <<MathLoop[5], MathLoop[6]>>
        = <<MathLoop[1], MathLoop[2], MathLoop[3], MathLoop[4], MathLoop[5], MathLoop[6]>>
    BY TupleSix
<1> QED BY <1>6, <1>8, <1>9, Zenon

-----------------------------------------------------------------------------
(* The page, and the machine that begins with it.                            *)

\* A page with a program that leads to what is to be printed, and a halt behind it.
Holding(sc, body, known, n) ==
    /\ Passage(body, Place({}), Place(known)) /\ {"written", "told"} \subseteq known
    /\ n \in Nat /\ n <= PageSize /\ Weighs(Hexes(body \o <<Halt>>), n)
    /\ sc = MakeSc(Hexes(body \o <<Halt>>))
UnderWay(body) == Runs /\ \E r, g : Laid(body, r, g) /\ Stands(body, r, g, 0)

\* A program with a halt behind it.
LEMMA WholeProgram ==
    ASSUME NEW body, NEW l, NEW m, Passage(body, l, m)
    PROVE  LET whole == body \o <<Halt>>
               program == Hexes(whole)
           IN  /\ Len(body) \in Nat /\ Len(program) = Len(body) + 1 /\ DOMAIN program = 1 .. Len(body) + 1
               /\ \A k \in 1 .. Len(body) : whole[k] = body[k]
               /\ whole[Len(body) + 1] = Halt
               /\ \A k \in 1 .. Len(body) + 1 : program[k] = HexOf(whole[k]) /\ \E w : Spoken(whole[k], w)
<1> DEFINE t == <<Halt>>
           whole == body \o t
           x == Len(body)
           program == Hexes(whole)
<1>1. PICK S : body \in Seq(S)
    BY DEF Passage
<1>2. \A k \in 1 .. x : \E w : Spoken(body[k], w)
    BY DEF Passage
<1>3. t \in Seq({Halt}) /\ Len(t) = 1 /\ t[1] = Halt
    OBVIOUS
<1> HIDE DEF t
<1>4. body \in Seq(S \cup {Halt}) /\ t \in Seq(S \cup {Halt})
    BY <1>1, <1>3
<1>5. /\ whole \in Seq(S \cup {Halt}) /\ Len(whole) = x + Len(t)
      /\ \A i \in 1 .. x + Len(t) : whole[i] = IF i <= x THEN body[i] ELSE t[i - x]
    BY <1>4, ConcatProperties
<1>6. x \in Nat
    BY <1>1, LenProperties
<1> HIDE DEF whole, x
<1>7. DOMAIN whole = 1 .. x + 1 /\ x + 1 \in Nat
    BY <1>3, <1>5, <1>6, LenProperties
<1>8. program = [i \in 1 .. x + 1 |-> HexOf(whole[i])]
    BY <1>7 DEF Hexes, HexOf
<1>9. \A k \in 1 .. x : whole[k] = body[k]
    BY <1>3, <1>5, <1>6
<1>10. whole[x + 1] = Halt
    <2>1. ~ (x + 1 <= x) /\ (x + 1) - x = 1 /\ x + 1 \in 1 .. x + 1
        BY <1>6
    <2> QED BY <1>3, <1>5, <2>1
<1>11. ASSUME NEW k \in 1 .. x + 1 PROVE \E w : Spoken(whole[k], w)
    <2>1. k \in 1 .. x \/ k = x + 1
        BY <1>6
    <2> QED BY <1>2, <1>9, <1>10, <2>1, HaltSpoken
<1> HIDE DEF program
<1>12. Len(program) = x + 1 /\ DOMAIN program = 1 .. x + 1 /\ \A k \in 1 .. x + 1 : program[k] = HexOf(whole[k])
    <2>1. \A k \in 1 .. x + 1 : program[k] \in {program[i] : i \in 1 .. x + 1}
        OBVIOUS
    <2>2. DOMAIN program = 1 .. x + 1 /\ program = [i \in 1 .. x + 1 |-> program[i]]
        BY <1>8
    <2>3. Len(program) = x + 1
        BY <1>7, <2>1, <2>2, FunctionIsSeq
    <2> QED BY <1>8, <2>3
<1> QED BY <1>6, <1>9, <1>10, <1>11, <1>12 DEF program, whole, x, t

LEMMA Starting ==
    ASSUME NEW sc, NEW body, NEW known, NEW n, Holding(sc, body, known, n), machine = Started(sc)
    PROVE  UnderWay(body)
<1> DEFINE whole == body \o <<Halt>>
           program == Hexes(whole)
           x == Len(body)
<1>1. /\ Passage(body, Place({}), Place(known)) /\ {"written", "told"} \subseteq known
      /\ n \in Nat /\ n <= PageSize /\ Weighs(program, n) /\ sc = MakeSc(program)
    BY DEF Holding
<1>2. /\ x \in Nat /\ Len(program) = x + 1
      /\ \A k \in 1 .. x : whole[k] = body[k]
      /\ whole[x + 1] = Halt
      /\ \A k \in 1 .. x + 1 : program[k] = HexOf(whole[k]) /\ \E w : Spoken(whole[k], w)
    BY <1>1, WholeProgram
<1> HIDE DEF program, whole, x
<1>3. PICK S : program \in Seq(S)
    BY <1>1 DEF Weighs
<1>4. PICK g : Places(g, program, n)
    BY <1>1 DEF Weighs
<1>5. \A i \in 1 .. Len(program) : Worded(program[i])
    BY <1>2, SpokenWords
<1>6. /\ sc \in Seq(0 .. 511) /\ Len(sc) = PageSize
      /\ \A k \in 1 .. Len(program) : LiesIn(sc, g, program, k)
    BY <1>1, <1>3, <1>4, <1>5, PageIs
<1>7. /\ machine.code = sc /\ machine.state = "on" /\ machine.pc = 0
      /\ machine.reg = [u \in Used |-> 0] /\ machine.mem = <<>>
    BY DEF Started, Off
<1>8. Coded(machine.code)
    BY <1>6, <1>7 DEF Coded
<1>9. /\ g \in [0 .. x + 1 -> Nat] /\ g[0] = 0
      /\ \A i \in 1 .. x + 1 : g[i] = g[i - 1] + Weight(program[i])
    BY <1>2, <1>4 DEF Places
<1>10. ASSUME NEW k \in 1 .. x + 1
       PROVE  Lying(whole[k], g[k] - g[k - 1], g[k - 1])
    <2>1. PICK w : Spoken(whole[k], w)
        BY <1>2
    <2>2. Worded(program[k]) /\ Len(Words(program[k])) = w /\ program[k] = HexOf(whole[k])
        BY <1>2, <2>1, SpokenWords
    <2>3. Weight(program[k]) = w
        BY <2>2 DEF Worded
    <2>4. g[k] = g[k - 1] + w /\ g[k - 1] \in Nat /\ g[k] \in Nat
        BY <1>2, <1>9, <2>3
    <2>5. w \in {2, 3, 6}
        BY <2>1 DEF Spoken
    <2>6. g[k] - g[k - 1] = w
        BY <2>4, <2>5
    <2>7. \A j \in 1 .. w : g[k - 1] + j <= PageSize /\ machine.code[g[k - 1] + j] = Words(HexOf(whole[k]))[j]
        BY <1>2, <1>6, <1>7, <2>2, <2>3 DEF LiesIn
    <2>8. g[k - 1] + w <= PageSize
        <3>1. w \in 1 .. w
            BY <2>5
        <3> QED BY <2>7, <3>1
    <2> QED BY <1>8, <2>1, <2>4, <2>6, <2>7, <2>8 DEF Lying, WordsAt
<1> DEFINE h == [i \in 0 .. x |-> g[i]]
<1>11. /\ h \in [0 .. x -> Nat] /\ h[0] = 0
       /\ \A i \in 0 .. x : h[i] = g[i]
    BY <1>2, <1>9
<1> HIDE DEF h
<1>12. \A k \in 1 .. x : Lying(body[k], h[k] - h[k - 1], h[k - 1])
    <2>1. ASSUME NEW k \in 1 .. x PROVE Lying(body[k], h[k] - h[k - 1], h[k - 1])
        <3>1. k \in 1 .. x + 1 /\ k \in 0 .. x /\ k - 1 \in 0 .. x
            BY <1>2
        <3> QED BY <1>2, <1>10, <1>11, <3>1
    <2> QED BY <2>1
<1>13. \E w : Lying(Halt, w, h[x])
    <2>1. x + 1 \in 1 .. x + 1 /\ (x + 1) - 1 = x /\ x \in 0 .. x
        BY <1>2
    <2>2. Lying(Halt, g[x + 1] - g[(x + 1) - 1], g[(x + 1) - 1])
        BY <1>2, <1>10, <2>1
    <2> QED BY <1>11, <2>1, <2>2
<1>14. PICK r : Traces(body, r, Place({}), Place(known))
    BY <1>1 DEF Passage
<1>15. Route(body, r) /\ r[0] = Place({}) /\ r[x] = Place(known)
    BY <1>14 DEF Traces, Route, Place, x
<1>16. Laid(body, r, h)
    BY <1>1, <1>2, <1>11, <1>12, <1>13, <1>15 DEF Laid, Place, x
<1>17. Stands(body, r, h, 0)
    <2>1. 0 \in 0 .. x
        BY <1>2
    <2>2. r[0].p = 0 /\ Knows(r[0].known)
        BY <1>15 DEF Place, Knows
    <2> QED BY <1>7, <1>11, <2>1, <2>2 DEF Stands, x
<1>18. Runs
    <2>1. DOMAIN Off = Fields
        BY DEF Off, Fields
    <2>2. DOMAIN machine = DOMAIN Off
        BY DEF Started
    <2> QED BY <1>7, <2>1, <2>2 DEF Runs
<1> QED BY <1>16, <1>17, <1>18 DEF UnderWay

-----------------------------------------------------------------------------
(* How far the composition is, and what it leads to.                         *)

EchoReady(known) ==
    /\ at \in 5 .. 8 => {"buffer", "length", "value"} \subseteq known
    /\ at >= 9 => "written" \in known
    /\ at >= 11 => "told" \in known
MathReady(known) ==
    /\ at \in 5 .. 8 => {"buffer", "input"} \subseteq known
    /\ at = 9 => {"buffer", "value"} \subseteq known
    /\ at >= 10 => "written" \in known
    /\ at >= 12 => "told" \in known
Ready(known) ==
    /\ countSet => "count" \in known
    /\ test = "echo" => EchoReady(known)
    /\ test = "math" => MathReady(known)
RouteInv == phase = "compose" => \E known : LeadsTo(known) /\ Ready(known)

LEMMA RouteInit == Init => RouteInv
<1> SUFFICES ASSUME Init PROVE RouteInv
    OBVIOUS
<1>1. at = 1 /\ code = <<>> /\ countSet = FALSE
    BY DEF Init
<1>2. Passage(<<>>, Place({}), Place({}))
    BY NoPassage
<1>3. Hexes(<<>>) = <<>>
    BY DEF Hexes
<1>4. LeadsTo({})
    BY <1>1, <1>2, <1>3 DEF LeadsTo
<1>5. Ready({})
    BY <1>1 DEF Ready, EchoReady, MathReady
<1> QED BY <1>4, <1>5 DEF RouteInv

\* A part that leads on to what is ready then.
LEMMA PartLeads ==
    ASSUME NEW known, LeadsTo(known), NEW calls, NEW after, Passage(calls, Place(known), Place(after)), Adds(calls),
           at' = at + 1 /\ test' = test => Ready(after)'
    PROVE  RouteInv'
<1>1. at' = at + 1 /\ test' = test
    <2> DEFINE l == Place(known)
               m == Place(after)
    <2>1. Passage(calls, l, m)
        OBVIOUS
    <2> HIDE DEF l, m
    <2>2. at' = at + 1 /\ UNCHANGED <<test, job, phase, page, solution, move, alarmed, service, behind>>
        BY <2>1, AddsCode
    <2> QED BY <2>2
<1>2. LeadsTo(after)'
    BY LeadsOn
<1>3. (LeadsTo(after) /\ Ready(after))'
    BY <1>1, <1>2
<1> QED BY <1>3 DEF RouteInv

LEMMA RandomLeads ==
    ASSUME FitInv, RouteInv, MaybeRandom PROVE RouteInv'
<1>1. phase = "compose" /\ Plan[at] = "random" /\ countSet' = countSet
    BY DEF MaybeRandom, Part
<1>2. Drawn /\ Composing
    BY <1>1 DEF FitInv
<1>3. \/ test = "echo" /\ at \in {1, 3, 5, 7, 9, 11}
      \/ test = "math" /\ at \in {1, 3, 5, 7, 10, 12}
    BY <1>1, <1>2, EchoPlan, MathPlan DEF Drawn, Composing
<1>4. PICK known : LeadsTo(known) /\ Ready(known)
    BY <1>1 DEF RouteInv
<1>5. at' = at + 1 /\ test' = test => Ready(known)'
    BY <1>1, <1>3, <1>4 DEF Ready, EchoReady, MathReady
<1>6. CASE Adds(<<>>)
    <2>1. Passage(<<>>, Place(known), Place(known))
        BY NoPassage
    <2> QED BY <1>4, <1>5, <1>6, <2>1, PartLeads
<1>7. ASSUME NEW draw \in Draws, Adds(<<RandomInstruction(draw)>>) PROVE RouteInv'
    <2>1. Passage(<<RandomInstruction(draw)>>, Place(known), Place(known))
        BY RandomBrings
    <2> QED BY <1>4, <1>5, <1>7, <2>1, PartLeads
<1> QED BY <1>6, <1>7 DEF MaybeRandom

LEMMA CountLeads ==
    ASSUME FitInv, RouteInv, MaybeCount PROVE RouteInv'
<1>1. phase = "compose" /\ Plan[at] = "count"
    BY DEF MaybeCount, Part
<1>2. Drawn /\ Composing
    BY <1>1 DEF FitInv
<1>3. at \in {2, 6} /\ test \in {"echo", "math"}
    BY <1>1, <1>2, EchoPlan, MathPlan DEF Drawn, Composing
<1>4. PICK known : LeadsTo(known) /\ Ready(known)
    BY <1>1 DEF RouteInv
<1>5. CASE Adds(<<>>) /\ countSet' = countSet
    <2>1. Passage(<<>>, Place(known), Place(known))
        BY NoPassage
    <2>2. at' = at + 1 /\ test' = test => Ready(known)'
        BY <1>3, <1>4, <1>5 DEF Ready, EchoReady, MathReady
    <2> QED BY <1>4, <1>5, <2>1, <2>2, PartLeads
<1>6. CASE Adds(SetCount)
    <2> DEFINE after == CountHigh(CountLow(known))
    <2>1. Passage(SetCount, Place(known), Place(after))
        BY <1>2, SetCountPassage
    <2>2. "count" \in after /\ \A x \in known : x \notin {"count", "low"} => x \in after
        BY DEF CountHigh, CountLow
    <2> HIDE DEF after
    <2>3. at' = at + 1 /\ test' = test => Ready(after)'
        BY <1>3, <1>4, <2>2 DEF Ready, EchoReady, MathReady
    <2> QED BY <1>4, <1>6, <2>1, <2>3, PartLeads
<1> QED BY <1>5, <1>6 DEF MaybeCount

LEMMA SetUpLeads ==
    ASSUME FitInv, RouteInv, SetUp PROVE RouteInv'
<1>1. phase = "compose" /\ Plan[at] = "set up" /\ UNCHANGED <<available, countSet>>
    BY DEF SetUp, Part
<1>2. Drawn /\ Composing
    BY <1>1 DEF FitInv
<1>3. at = 4 /\ test \in {"echo", "math"}
    BY <1>1, <1>2, EchoPlan, MathPlan DEF Drawn, Composing
<1>4. PICK known : LeadsTo(known) /\ Ready(known)
    BY <1>1 DEF RouteInv
<1>5. PICK order \in SetUps : Adds(order)
    BY DEF SetUp
<1>6. Brings(order, known, {"buffer", "length", IF test = "echo" THEN "value" ELSE "input"})
    BY <1>2, SetUpBrings
<1>7. PICK after : /\ Passage(order, Place(known), Place(after))
                   /\ Affords(known, after, {"buffer", "length", IF test = "echo" THEN "value" ELSE "input"})
    BY <1>6 DEF Brings
<1>8. ASSUME at' = at + 1, test' = test PROVE Ready(after)'
    <2>1. at' = 5
        BY <1>3, <1>8
    <2>4. countSet' = countSet
        BY <1>1
    <2>2. countSet => "count" \in after
        BY <1>4, <1>7 DEF Ready, Affords
    <2>3. /\ {"buffer", "length"} \subseteq after
          /\ test = "echo" => "value" \in after
          /\ test = "math" => "input" \in after
        BY <1>7 DEF Affords
    <2> QED BY <1>8, <2>1, <2>2, <2>3, <2>4 DEF Ready, EchoReady, MathReady
<1> QED BY <1>4, <1>5, <1>7, <1>8, PartLeads

LEMMA ComputeLeads ==
    ASSUME FitInv, RouteInv, Compute PROVE RouteInv'
<1>1. phase = "compose" /\ UNCHANGED <<available, countSet>>
    BY DEF Compute, Part
<1>2. Drawn /\ Composing
    BY <1>1 DEF FitInv
<1>3. (test = "echo" /\ at \in 1 .. 12) \/ (test = "math" /\ at \in 1 .. 13)
    BY <1>2 DEF Drawn, Composing
<1>4. PICK known : LeadsTo(known) /\ Ready(known)
    BY <1>1 DEF RouteInv
<1>5. CASE Part("operation") /\ Adds(Operation)
    <2>1. test = "math" /\ at = 8
        BY <1>3, <1>5, EchoPlan, MathPlan DEF Part
    <2>2. {"buffer", "input"} \subseteq known
        BY <1>4, <2>1 DEF Ready, MathReady
    <2> DEFINE after == known \cup {"value"}
    <2>3. Passage(Operation, Place(known), Place(after))
        BY <1>2, <2>1, <2>2, OperationBrings
    <2>4. at' = at + 1 /\ test' = test => Ready(after)'
        BY <1>1, <1>4, <2>1, <2>2 DEF Ready, EchoReady, MathReady
    <2> HIDE DEF after
    <2> QED BY <1>4, <1>5, <2>3, <2>4, PartLeads
<1>6. CASE Part("echo loop") /\ Adds(EchoLoop)
    <2>1. test = "echo" /\ at = 8
        BY <1>3, <1>6, EchoPlan, MathPlan DEF Part
    <2>2. Needed \subseteq known
        BY <1>4, <2>1 DEF Ready, EchoReady, Needed
    <2> DEFINE after == Behind(known)
    <2>3. Passage(EchoLoop, Place(known), Place(after))
        BY <2>1, <2>2, EchoLoopBrings
    <2>4. at' = at + 1 /\ test' = test => Ready(after)'
        BY <1>1, <1>4, <2>1 DEF Ready, EchoReady, MathReady, Behind
    <2> HIDE DEF after
    <2> QED BY <1>4, <1>6, <2>3, <2>4, PartLeads
<1>7. CASE Part("math loop") /\ Adds(MathLoop)
    <2>1. test = "math" /\ at = 9
        BY <1>3, <1>7, EchoPlan, MathPlan DEF Part
    <2>2. Needed \subseteq known
        BY <1>4, <2>1 DEF Ready, MathReady, Needed
    <2> DEFINE after == Behind(known)
    <2>3. Passage(MathLoop, Place(known), Place(after))
        BY <2>1, <2>2, MathLoopBrings
    <2>4. at' = at + 1 /\ test' = test => Ready(after)'
        BY <1>1, <1>4, <2>1 DEF Ready, EchoReady, MathReady, Behind
    <2> HIDE DEF after
    <2> QED BY <1>4, <1>7, <2>3, <2>4, PartLeads
<1>8. CASE Part("finish") /\ Adds(Finish)
    <2>1. (test = "echo" /\ at = 10) \/ (test = "math" /\ at = 11)
        BY <1>3, <1>8, EchoPlan, MathPlan DEF Part
    <2>2. "written" \in known /\ (countSet => "count" \in known)
        BY <1>4, <2>1 DEF Ready, EchoReady, MathReady
    <2>3. PICK after : Passage(Finish, Place(known), Place(after))
                       /\ "told" \in after /\ "count" \in after /\ ("written" \in known => "written" \in after)
        BY <1>2, <2>2, FinishBrings
    <2>4. at' = at + 1 /\ test' = test => Ready(after)'
        BY <1>1, <2>1, <2>2, <2>3 DEF Ready, EchoReady, MathReady
    <2> QED BY <1>4, <1>8, <2>3, <2>4, PartLeads
<1> QED BY <1>5, <1>6, <1>7, <1>8 DEF Compute

\* What is sent.
PageInv == phase = "greeting" => \E body, known, n : Holding(page, body, known, n)

LEMMA PageHolds ==
    ASSUME FitInv, RouteInv, Assembled
    PROVE  PageInv' /\ solution' = Seed(page') /\ exit' = exit /\ phase' = "greeting"
<1> DEFINE halt == HexOf(Halt)
           whole == Append(code, halt)
<1>1. phase = "compose" /\ Plan[at] = "halt" /\ UNCHANGED <<test, job>>
    BY DEF Assembled, Part
<1>2. Drawn /\ Composing
    BY <1>1 DEF FitInv
<1>3. (test = "echo" /\ at = 12) \/ (test = "math" /\ at = 13)
    BY <1>1, <1>2, EchoPlan, MathPlan DEF Drawn, Composing
<1>4. PICK known : LeadsTo(known) /\ Ready(known)
    BY <1>1 DEF RouteInv
<1>5. {"written", "told"} \subseteq known
    BY <1>3, <1>4 DEF Ready, EchoReady, MathReady
<1>6. PICK body : Passage(body, Place({}), Place(known)) /\ code = Hexes(body)
    BY <1>4 DEF LeadsTo
<1>7. PICK m \in Nat : Weighs(code, m) /\ m + Budget <= 53
    BY <1>2 DEF Composing
<1>8. Budget >= 2 /\ Budget \in Nat
    BY <1>2 DEF Composing, Budget, CountLeft, Left, LeftOfEcho, LeftOfMath
<1>9. m + 2 \in Nat /\ m + 2 <= PageSize
    BY <1>7, <1>8 DEF PageSize
<1>10. Hexes(<<Halt>>) = <<halt>>
    BY DEF Hexes, HexOf
<1>11. Weighs(<<halt>>, 2)
    <2>1. Weighs(Hexes(<<Halt>>), 2)
        BY HaltMakes, CostsOne DEF Costs
    <2> QED BY <1>10, <2>1
<1>12. whole = code \o <<halt>>
    <2>1. PICK S : code \in Seq(S)
        BY <1>7 DEF Weighs
    <2>2. code \in Seq(S \cup {halt}) /\ halt \in S \cup {halt}
        BY <2>1
    <2> HIDE DEF halt
    <2> QED BY <2>2, AppendIsConcat
<1>13. Assemble(Halt.name, Halt.args).hex = halt
    BY DEF HexOf
<1> HIDE DEF halt
<1>14. whole = Hexes(body \o <<Halt>>)
    <2> DEFINE t == <<Halt>>
    <2>1. PICK S : body \in Seq(S)
        BY <1>6 DEF Passage
    <2>2. body \in Seq(S \cup {Halt}) /\ t \in Seq(S \cup {Halt})
        BY <2>1
    <2> HIDE DEF t
    <2>3. Hexes(body \o t) = Hexes(body) \o Hexes(t)
        BY <2>2, HexesConcat
    <2> QED BY <1>6, <1>10, <1>12, <2>3 DEF t
<1>15. Weighs(whole, m + 2)
    BY <1>7, <1>11, <1>12, WeighsMore
<1>16. /\ IF \/ \E i \in DOMAIN whole : Len(whole[i]) \notin {3, 5, 7, 14}
             \/ Len(MakeSc(whole)) > PageSize
          THEN exit' = 0 /\ UNCHANGED <<code, sent, phase>>
          ELSE /\ page' = MakeSc(whole) /\ solution' = Seed(page')
               /\ phase' = "greeting" /\ code' = <<>>
               /\ UNCHANGED exit
    BY <1>13 DEF Assembled
<1> HIDE DEF whole
<1>17. Len(MakeSc(whole)) = PageSize
    BY <1>9, <1>15, MakesPage
<1>18. \A i \in DOMAIN whole : Len(whole[i]) \in {5, 7, 14}
    BY <1>15 DEF Weighs, Sized
<1>19. ~ (\E i \in DOMAIN whole : Len(whole[i]) \notin {3, 5, 7, 14}) /\ ~ (Len(MakeSc(whole)) > PageSize)
    BY <1>17, <1>18 DEF PageSize
<1>20. page' = MakeSc(whole) /\ solution' = Seed(page') /\ phase' = "greeting" /\ exit' = exit
    BY <1>16, <1>19
<1>21. Passage(body, Place({}), Place(known))'
    <2> DEFINE l == Place({})
               n == Place(known)
    <2>1. Passage(body, l, n)
        BY <1>6
    <2> HIDE DEF l, n
    <2>2. Passage(body, l, n)'
        BY <1>1, <2>1, PassageKept
    <2> QED BY <2>2 DEF l, n, Place
<1>22. Holding(page, body, known, m + 2)'
    BY <1>5, <1>9, <1>14, <1>15, <1>20, <1>21 DEF Holding
<1> QED BY <1>20, <1>22 DEF PageInv

\* What stays when the machine does nothing.
LEMMA KnowsKept ==
    ASSUME test' = test, job' = job, machine' = machine, NEW known, Knows(known)
    PROVE  Knows(known)'
<1>1. /\ Buffer' = Buffer /\ Counter' = Counter /\ NumChars' = NumChars
      /\ Input1' = Input1 /\ Value' = Value
    BY DrawnKept DEF Buffer, Counter, OutputBufAddr, OutputCountAddr
<1>2. \A n : Wrote(n) => Wrote(n)'
    BY WroteKept
<1>3. CountTold => CountTold'
    BY CountToldKept
<1>4. Wrote(NumChars) => Wrote(NumChars)'
    BY <1>1, <1>2
<1> QED BY <1>1, <1>3, <1>4 DEF Knows

LEMMA InTurnKept ==
    ASSUME test' = test, job' = job, machine' = machine, NEW known, NEW p, NEW t, InTurn(known, p, t)
    PROVE  InTurn(known, p, t)'
<1>1. /\ Buffer' = Buffer /\ Counter' = Counter /\ NumChars' = NumChars /\ ExpectedResponse' = ExpectedResponse
    BY DrawnKept DEF Buffer, Counter, OutputBufAddr, OutputCountAddr
<1>2. \A n : Wrote(n) => Wrote(n)'
    BY WroteKept
<1>3. \A n : Quotient(n)' = Quotient(n)
    BY QuotientKept
<1>4. EchoTurn(known, p, t) => EchoTurn(known, p, t)'
    BY <1>1, <1>2 DEF EchoTurn
<1>5. MathTurn(known, p, t) => MathTurn(known, p, t)'
    BY <1>1, <1>2, <1>3 DEF MathTurn
<1> QED BY <1>4, <1>5 DEF InTurn

\* A machine within its program.
Going == Runs /\ \E body, r, g, k : Laid(body, r, g) /\ Stands(body, r, g, k)

LEMMA GoingKept ==
    ASSUME test' = test, job' = job, machine' = machine, Going
    PROVE  Going'
<1>1. PICK body, r, g, k : Laid(body, r, g) /\ Stands(body, r, g, k)
    BY DEF Going
<1>2. Laid(body, r, g)'
    BY <1>1, LaidKept
<1>3. Stands(body, r, g, k)'
    <2>1. k \in 0 .. Len(body) /\ machine.pc = g[k]
        BY <1>1 DEF Stands
    <2>2. CASE r[k].p = 0 /\ Knows(r[k].known)
        <3>1. Knows(r[k].known)'
            BY <2>2, KnowsKept
        <3> QED BY <2>1, <2>2, <3>1 DEF Stands
    <2>3. CASE k < Len(body) /\ Looping(r[k], body[k + 1], r[k + 1]) /\ \E t : InTurn(r[k].known, r[k].p, t)
        <3>1. PICK t : InTurn(r[k].known, r[k].p, t)
            BY <2>3
        <3>2. InTurn(r[k].known, r[k].p, t)'
            BY <3>1, InTurnKept
        <3>3. Looping(r[k], body[k + 1], r[k + 1])'
            BY <2>3, FollowsKept DEF Follows
        <3> QED BY <2>1, <2>3, <3>2, <3>3 DEF Stands
    <2> QED BY <1>1, <2>2, <2>3 DEF Stands
<1>4. Runs'
    BY DEF Going, Runs
<1> QED BY <1>2, <1>3, <1>4 DEF Going

\* The machine does what the test expects of it, all along.
MachineInv ==
    /\ machine.state \in {"off", "on", "halted", "shown"}
    /\ machine.state = "on" => Going
    /\ machine.state = "halted" => Printed = ExpectedResponse
    /\ machine.state = "shown" => machine.printed = ExpectedResponse

LEMMA MachineKept ==
    ASSUME MachineInv, test' = test, job' = job, machine' = machine
    PROVE  MachineInv'
<1>1. Printed' = Printed
    BY DEF Printed, OutputCountAddr, OutputBufAddr
<1>2. ExpectedResponse' = ExpectedResponse
    BY DrawnKept
<1> QED BY <1>1, <1>2, GoingKept DEF MachineInv

LEMMA MachineSteps ==
    ASSUME FitInv, MachineInv, Execute
    PROVE  MachineInv'
<1>1. machine.state = "on" /\ Drawn
    BY Zenon DEF Execute, FitInv
<1>2. Runs
    BY <1>1 DEF MachineInv, Going
<1>3. PICK body, r, g, k : Laid(body, r, g) /\ Stands(body, r, g, k)
    BY <1>1 DEF MachineInv, Going
<1>4. \/ machine'.state = "halted" /\ (Printed = ExpectedResponse)'
      \/ Runs' /\ Laid(body, r, g)' /\ \E h : Stands(body, r, g, h)'
    BY <1>1, <1>2, <1>3, Stepping
<1>5. CASE machine'.state = "halted" /\ (Printed = ExpectedResponse)'
    BY <1>5 DEF MachineInv
<1>6. CASE Runs' /\ Laid(body, r, g)' /\ \E h : Stands(body, r, g, h)'
    <2>1. Going'
        BY <1>6 DEF Going
    <2>2. machine'.state = "on"
        BY <1>6 DEF Runs
    <2> QED BY <2>1, <2>2 DEF MachineInv
<1> QED BY <1>4, <1>5, <1>6

LEMMA StartsAlways == \A s, b, k, i : Holding(s, b, k, i) /\ machine = Started(s) => UnderWay(b)
BY Starting

LEMMA MachineStarts ==
    ASSUME PageInv, MachineInv, SendSc
    PROVE  MachineInv'
<1>1. test' = test /\ job' = job /\ phase = "greeting"
    BY DEF SendSc, compose
<1>2. CASE machine' = machine
    BY <1>1, <1>2, MachineKept
<1>3. CASE machine' = Started(page)
    <2>1. PICK body, known, n : Holding(page, body, known, n)
        BY <1>1 DEF PageInv
    <2>2. PICK sc : sc = page
        OBVIOUS
    <2>3. Holding(sc, body, known, n) /\ machine' = Started(sc)
        BY <1>3, <2>1, <2>2
    <2>4. Holding(sc, body, known, n)'
        <3> DEFINE l == Place({})
                   m == Place(known)
        <3>1. Passage(body, l, m)
            BY <2>3 DEF Holding
        <3> HIDE DEF l, m
        <3>2. Passage(body, l, m)'
            BY <1>1, <3>1, PassageKept
        <3> QED BY <2>3, <3>2 DEF Holding, l, m, Place
    <2>6. (\A s, b, k, i : Holding(s, b, k, i) /\ machine = Started(s) => UnderWay(b))'
        BY StartsAlways, PTL
    <2>7. (machine = Started(sc))'
        BY <2>3 DEF Started, Off
    <2>8. UnderWay(body)'
        BY <2>4, <2>6, <2>7
    <2>9. Going'
        BY <2>8 DEF UnderWay, Going
    <2>10. machine'.state = "on"
        BY <2>9 DEF Going, Runs
    <2> QED BY <2>9, <2>10 DEF MachineInv
<1> QED BY <1>2, <1>3 DEF SendSc

PrintInv == FitInv /\ RouteInv /\ PageInv /\ MachineInv

\* While the check composes, the machine is left alone.
LEMMA ComposingPrints ==
    ASSUME PrintInv, UNCHANGED <<test, job, phase, machine>>, phase = "compose"
    PROVE  PageInv' /\ MachineInv'
<1>1. PageInv'
    BY DEF PageInv
<1>2. MachineInv'
    BY MachineKept DEF PrintInv
<1> QED BY <1>1, <1>2

\* An addition to the program is all that happens.
LEMMA AddsOnly ==
    ASSUME NEW calls, Adds(calls)
    PROVE  UNCHANGED <<test, job, phase, machine>>
BY DEF Adds, service

LEMMA RoutePageKept ==
    ASSUME RouteInv, PageInv, UNCHANGED compose,
           \/ UNCHANGED <<phase, page>>
           \/ phase' \notin {"compose", "greeting"}
    PROVE  RouteInv' /\ PageInv'
<1>1. UNCHANGED <<test, job, at, code, available, countSet>>
    BY DEF compose
<1>2. ASSUME NEW body, NEW known, Passage(body, Place({}), Place(known))
      PROVE  Passage(body, Place({}), Place(known))'
    <2> DEFINE l == Place({})
               m == Place(known)
    <2>1. Passage(body, l, m)
        BY <1>2
    <2> HIDE DEF l, m
    <2>2. Passage(body, l, m)'
        BY <1>1, <2>1, PassageKept
    <2> QED BY <2>2 DEF l, m, Place
<1>3. CASE UNCHANGED <<phase, page>>
    <2>1. ASSUME NEW known, LeadsTo(known), Ready(known) PROVE (LeadsTo(known) /\ Ready(known))'
        <3>1. LeadsTo(known)'
            BY <1>1, <1>2, <2>1 DEF LeadsTo
        <3>2. Ready(known)'
            BY <1>1, <2>1 DEF Ready, EchoReady, MathReady
        <3> QED BY <3>1, <3>2
    <2>2. RouteInv'
        BY <1>3, <2>1 DEF RouteInv
    <2>3. ASSUME NEW body, NEW known, NEW n, Holding(page, body, known, n)
          PROVE  Holding(page, body, known, n)'
        BY <1>2, <1>3, <2>3 DEF Holding
    <2>4. PageInv'
        BY <1>3, <2>3 DEF PageInv
    <2> QED BY <2>2, <2>4
<1>4. CASE phase' \notin {"compose", "greeting"}
    BY <1>4 DEF RouteInv, PageInv
<1> QED BY <1>3, <1>4

\* A step that leaves program and machine alone.
LEMMA PrintKept ==
    ASSUME PrintInv, FitInv', UNCHANGED <<compose, machine>>,
           \/ UNCHANGED <<phase, page>>
           \/ phase' \notin {"compose", "greeting"}
    PROVE  PrintInv'
<1>1. test' = test /\ job' = job /\ machine' = machine
    BY DEF compose
<1>2. RouteInv' /\ PageInv'
    BY RoutePageKept DEF PrintInv
<1>3. MachineInv'
    BY <1>1, MachineKept DEF PrintInv
<1> QED BY <1>2, <1>3 DEF PrintInv

LEMMA PrintInit == Init => PrintInv
<1> SUFFICES ASSUME Init PROVE PrintInv
    OBVIOUS
<1>1. FitInv /\ RouteInv
    BY FitInit, RouteInit
<1>2. PageInv
    BY DEF Init, PageInv
<1>3. MachineInv
    BY DEF Init, Off, MachineInv
<1> QED BY <1>1, <1>2, <1>3 DEF PrintInv

LEMMA PrintStep == PrintInv /\ [Next]_vars => PrintInv'
<1> SUFFICES ASSUME PrintInv, [Next]_vars PROVE PrintInv'
    OBVIOUS
<1>0. FitInv' /\ FitInv /\ RouteInv /\ PageInv /\ MachineInv
    BY FitStep DEF PrintInv
<1>1. CASE MaybeRandom
    <2>1. phase = "compose" /\ UNCHANGED <<test, job, phase, machine>>
        BY <1>1, AddsOnly DEF MaybeRandom, Part
    <2> QED BY <1>0, <1>1, <2>1, RandomLeads, ComposingPrints DEF PrintInv
<1>2. CASE MaybeCount
    <2>1. phase = "compose" /\ UNCHANGED <<test, job, phase, machine>>
        BY <1>2, AddsOnly DEF MaybeCount, Part
    <2> QED BY <1>0, <1>2, <2>1, CountLeads, ComposingPrints DEF PrintInv
<1>3. CASE SetUp
    <2>1. phase = "compose" /\ UNCHANGED <<test, job, phase, machine>>
        BY <1>3, AddsOnly DEF SetUp, Part
    <2> QED BY <1>0, <1>3, <2>1, SetUpLeads, ComposingPrints DEF PrintInv
<1>4. CASE Compute
    <2>1. phase = "compose" /\ UNCHANGED <<test, job, phase, machine>>
        BY <1>4, AddsOnly DEF Compute, Part
    <2> QED BY <1>0, <1>4, <2>1, ComputeLeads, ComposingPrints DEF PrintInv
<1>5. CASE Assembled
    <2>1. PageInv' /\ phase' = "greeting"
        BY <1>0, <1>5, PageHolds
    <2>2. test' = test /\ job' = job /\ machine' = machine
        BY <1>5 DEF Assembled, service
    <2>3. MachineInv'
        BY <1>0, <2>2, MachineKept
    <2>4. RouteInv'
        BY <2>1 DEF RouteInv
    <2> QED BY <1>0, <2>1, <2>3, <2>4 DEF PrintInv
<1>6. CASE Execute
    <2>1. MachineInv'
        BY <1>0, <1>6, MachineSteps
    <2>2. UNCHANGED <<compose, phase, page>>
        BY <1>6, Zenon DEF Execute, sent
    <2> QED BY <1>0, <2>1, <2>2, RoutePageKept DEF PrintInv
<1>7. CASE ShowCube
    <2>1. UNCHANGED <<compose, phase, page>>
        BY <1>7 DEF ShowCube, sent
    <2>2. test' = test /\ job' = job
        BY <2>1 DEF compose
    <2>3. machine.state = "halted" /\ machine'.state = "shown" /\ machine'.printed = Printed
        BY <1>7 DEF ShowCube, Off
    <2>4. machine'.printed = ExpectedResponse'
        BY <1>0, <2>2, <2>3, DrawnKept DEF MachineInv
    <2>5. MachineInv'
        BY <2>3, <2>4 DEF MachineInv
    <2> QED BY <1>0, <2>1, <2>5, RoutePageKept DEF PrintInv
<1>8. CASE HangUp
    BY <1>0, <1>8, PrintKept DEF HangUp, sent
<1>9. ASSUME NEW message, Reply(message) PROVE PrintInv'
    BY <1>0, <1>9, PrintKept DEF Reply, sent
<1>10. CASE SendSc
    <2>1. MachineInv'
        BY <1>0, <1>10, MachineStarts
    <2>2. UNCHANGED compose /\ (UNCHANGED <<phase, page>> \/ phase' = "initial")
        BY <1>10 DEF SendSc
    <2>3. RouteInv' /\ PageInv'
        BY <1>0, <2>2, RoutePageKept
    <2> QED BY <1>0, <2>1, <2>3 DEF PrintInv
<1>11. CASE ReadInitial
    <2>1. UNCHANGED <<compose, machine>> /\ phase' = "cube"
        BY <1>11 DEF ReadInitial
    <2> QED BY <1>0, <2>1, PrintKept
<1>12. CASE SendMove
    <2>1. UNCHANGED <<compose, page, machine>> /\ (phase' = phase \/ phase' = "reply")
        BY <1>12 DEF SendMove, sent, service
    <2> QED BY <1>0, <2>1, PrintKept
<1>13. CASE ReadReply
    <2>1. UNCHANGED <<compose, machine>> /\ phase' = "cube"
        BY <1>13 DEF ReadReply
    <2> QED BY <1>0, <2>1, PrintKept
<1>14. CASE Alarm
    BY <1>0, <1>14, PrintKept DEF Alarm, sent, service
<1>15. CASE UNCHANGED vars
    BY <1>0, <1>15, PrintKept DEF vars, sent, service
<1> QED BY <1>1, <1>2, <1>3, <1>4, <1>5, <1>6, <1>7, <1>8, <1>9, <1>10, <1>11, <1>12, <1>13, <1>14,
           <1>15 DEF Next

\* Whatever the tests of scripts/rubix/availability draw, in whatever order they compose what prints
\* it, and whatever random instructions they strew in, the machine that is sent the page comes to no
\* word that is not code: it prints what the test expects and halts.
THEOREM ProgramsPrint == Spec => []PrintsExpected
<1>1. Init => PrintInv
    BY PrintInit
<1>2. PrintInv /\ [Next]_vars => PrintInv'
    BY PrintStep
<1>3. PrintInv => PrintsExpected
    BY DEF PrintInv, MachineInv, PrintsExpected
<1> QED BY <1>1, <1>2, <1>3, PTL DEF Spec

-----------------------------------------------------------------------------
(* What the cube is scrambled with.                                          *)

\* A word that is fetched is the number of its bits.
LEMMA FetchedSlice ==
    ASSUME Coded(machine.code), NEW i \in 1 .. 3
    PROVE  Number(Slice(Fetched(0), i)) = machine.code[Order[i] + 1]
<1> DEFINE b == Fetched(0)
           o == Order[i]
           s == Slice(b, i)
           v == CodeWord(o)
           p == Padded(v, 9)
<1>1. o \in 0 .. 5
    BY OrderIs
<1>2. /\ b \in Seq(Bit) /\ Len(b) = 54
      /\ \A j \in 1 .. 9 : b[9 * (i - 1) + j] = BitsOf[v][j]
    <2>1. 0 \in Nat /\ i \in 1 .. 6 /\ 0 + o = o
        BY <1>1
    <2>2. /\ b \in Seq(Bit) /\ Len(b) = 54
          /\ \A l \in 1 .. 6, j \in 1 .. 9 : b[9 * (l - 1) + j] = BitsOf[CodeWord(0 + Order[l])][j]
        BY <2>1, FetchedIs
    <2>3. \A j \in 1 .. 9 : b[9 * (i - 1) + j] = BitsOf[CodeWord(0 + o)][j]
        BY <2>1, <2>2
    <2> HIDE DEF b, o
    <2>4. CodeWord(0 + o) = v
        BY <2>1
    <2> QED BY <2>2, <2>3, <2>4
<1> HIDE DEF b, o
<1>3. v \in 0 .. 511 /\ v = machine.code[o + 1]
    <2>1. PageSize = 54
        BY DEF PageSize
    <2>2. o \in 0 .. PageSize - 1 /\ o \in Nat
        BY <1>1, <2>1
    <2> HIDE DEF v
    <2> QED BY <2>2, CodeWords DEF v
<1> HIDE DEF v
<1>4. BitsOf[v] = p /\ p \in Seq(Bit) /\ Len(p) = 9
    BY <1>3, BitsOfWord
<1>5. s \in Seq(Bit) /\ Len(s) = 9 /\ \A j \in 1 .. 9 : s[j] = b[9 * (i - 1) + j]
    <2>1. i \in Nat /\ i >= 1 /\ 9 * i <= Len(b)
        BY <1>2
    <2> QED BY <1>2, <2>1, SliceIs, Zenon
<1> HIDE DEF s
<1>6. Number(p) = v
    <2>1. v \in Small /\ 9 \in 0 .. 30 /\ v < Power[9]
        BY <1>3, SmallPowers, SMT DEF Small
    <2> QED BY <2>1, NumberPadded
<1> HIDE DEF p
<1>7. \A j \in 1 .. 9 : s[j] = p[j]
    BY <1>2, <1>4, <1>5
<1>8. s = p
    BY <1>4, <1>5, <1>7, SeqEqual
<1> QED BY <1>3, <1>6, <1>8 DEF s, b, o

LEMMA ScrambleIs ==
    ASSUME Coded(machine.code)
    PROVE  Number(SubSeq(Fetched(0), 1, 27)) = Seed(machine.code)
<1> DEFINE b == Fetched(0)
           x == machine.code[1]
           y == machine.code[2]
           z == machine.code[3]
<1>1. b \in Seq(Bit) /\ Len(b) = 54
    <2>1. 0 \in Nat
        OBVIOUS
    <2> QED BY <2>1, FetchedIs
<1>2. Number(Slice(b, 1)) = y /\ Number(Slice(b, 2)) = x /\ Number(Slice(b, 3)) = z
    <2>1. 1 \in 1 .. 3 /\ 2 \in 1 .. 3 /\ 3 \in 1 .. 3
        OBVIOUS
    <2> QED BY <2>1, FetchedSlice, OrderIs
<1>3. x \in 0 .. 511 /\ y \in 0 .. 511 /\ z \in 0 .. 511
    <2> DEFINE W == 0 .. 511
               sc == machine.code
    <2>1. sc \in Seq(W) /\ Len(sc) = 54
        BY DEF Coded, PageSize
    <2>2. 1 \in 1 .. 54 /\ 2 \in 1 .. 54 /\ 3 \in 1 .. 54
        OBVIOUS
    <2> HIDE DEF W, sc
    <2>3. sc[1] \in W /\ sc[2] \in W /\ sc[3] \in W
        BY <2>1, <2>2, ElementOfSeq
    <2> QED BY <2>3 DEF W, sc
<1> HIDE DEF b, x, y, z
<1>4. ASSUME NEW i \in 0 .. 2
      PROVE  First(b, 9 * i + 9) = 512 * First(b, 9 * i) + Number(Slice(b, i + 1))
    <2> DEFINE k == 9 * i
    <2>1. k \in Nat /\ 9 \in 0 .. 30 /\ k + 9 <= Len(b) /\ 9 * ((i + 1) - 1) = k
        BY <1>1
    <2>2. Slice(b, i + 1) = SubSeq(b, k + 1, k + 9)
        BY <2>1 DEF Slice
    <2> HIDE DEF k
    <2>3. First(b, k + 9) = Power[9] * First(b, k) + Number(SubSeq(b, k + 1, k + 9))
        BY <1>1, <2>1, FirstSplits
    <2> QED BY <2>2, <2>3, SmallPowers DEF k
<1>5. /\ First(b, 9) = 512 * First(b, 0) + Number(Slice(b, 1))
      /\ First(b, 18) = 512 * First(b, 9) + Number(Slice(b, 2))
      /\ First(b, 27) = 512 * First(b, 18) + Number(Slice(b, 3))
    <2>1. /\ 9 * 0 = 0 /\ 9 * 1 = 9 /\ 9 * 2 = 18 /\ 0 + 9 = 9 /\ 9 + 9 = 18 /\ 18 + 9 = 27
          /\ 0 + 1 = 1 /\ 1 + 1 = 2 /\ 2 + 1 = 3 /\ 0 \in 0 .. 2 /\ 1 \in 0 .. 2 /\ 2 \in 0 .. 2
        OBVIOUS
    <2>2. /\ First(b, 9 * 0 + 9) = 512 * First(b, 9 * 0) + Number(Slice(b, 0 + 1))
          /\ First(b, 9 * 1 + 9) = 512 * First(b, 9 * 1) + Number(Slice(b, 1 + 1))
          /\ First(b, 9 * 2 + 9) = 512 * First(b, 9 * 2) + Number(Slice(b, 2 + 1))
        BY <1>4, <2>1
    <2> QED BY <2>1, <2>2
<1>6. First(b, 0) = 0
    BY <1>1, FirstNone
<1>7. First(b, 27) = 512 * (512 * y + x) + z
    <2>1. First(b, 9) = y
        BY <1>2, <1>3, <1>5, <1>6
    <2>2. First(b, 18) = 512 * y + x
        BY <1>2, <1>5, <2>1
    <2> QED BY <1>2, <1>5, <2>2
<1>8. 512 * (512 * y + x) + z = (x * 2^9 + y * 2^18) + z
    BY <1>3, SMT
<1>9. Seed(machine.code) = (x * 2^9 + y * 2^18) + z
    BY DEF Seed, x, y, z
<1>10. First(b, 27) = Number(SubSeq(b, 1, 27))
    BY DEF First
<1>11. Number(SubSeq(b, 1, 27)) = Seed(machine.code)
    BY <1>7, <1>8, <1>9, <1>10
<1> QED BY <1>11 DEF b

\* The moves are for the cube the service has.
SeedInv ==
    /\ phase \in {"compose", "greeting"} => machine.state = "off"
    /\ phase = "greeting" => solution = Seed(page)
    /\ machine.state \in {"on", "halted"} => Coded(machine.code) /\ solution = Seed(machine.code)
    /\ machine.state = "shown" => solution = machine.scramble

LEMMA SeedStep ==
    ASSUME PrintInv, PrintInv', SeedInv, [Next]_vars
    PROVE  SeedInv'
<1>1. ASSUME UNCHANGED <<solution, machine>>, phase' \notin {"compose", "greeting"} \/ UNCHANGED <<phase, page>>
       PROVE  SeedInv'
    BY <1>1 DEF SeedInv, Seed, Coded, PageSize
<1>2. ASSUME NEW calls, Adds(calls), phase = "compose" PROVE SeedInv'
    <2>1. UNCHANGED <<solution, machine, phase, page>>
        BY <1>2 DEF Adds, service
    <2> QED BY <1>1, <1>2, <2>1
<1>3. CASE MaybeRandom
    BY <1>2, <1>3 DEF MaybeRandom, Part
<1>4. CASE MaybeCount
    BY <1>2, <1>4 DEF MaybeCount, Part
<1>5. CASE SetUp
    BY <1>2, <1>5 DEF SetUp, Part
<1>6. CASE Compute
    BY <1>2, <1>6 DEF Compute, Part
<1>7. CASE Assembled
    <2>1. machine' = machine /\ phase = "compose" /\ machine.state = "off"
        BY <1>7 DEF Assembled, Part, service, SeedInv
    <2>2. solution' = Seed(page')
        BY <1>7, PageHolds DEF PrintInv
    <2> QED BY <2>1, <2>2 DEF SeedInv, Seed
<1>8. CASE Execute
    <2>1. machine.state = "on" /\ DOMAIN machine = Fields /\ UNCHANGED <<solution, phase, page>>
        BY <1>8, Zenon DEF Execute, sent, PrintInv, MachineInv, Going, Runs
    <2>2. machine'.code = machine.code
        BY <1>8, <2>1, Zenon DEF Execute, Fields
    <2>3. machine'.state # "shown"
        BY <1>8, <2>1, Zenon DEF Execute, Fields
    <2> QED BY <2>1, <2>2, <2>3 DEF SeedInv, Seed, Coded, PageSize
<1>9. CASE ShowCube
    <2>1. /\ machine.state = "halted" /\ machine'.state = "shown"
          /\ machine'.scramble = Number(SubSeq(Fetched(0), 1, 27)) /\ UNCHANGED <<solution, phase, page>>
        BY <1>9 DEF ShowCube, Off, sent
    <2>2. machine'.scramble = solution
        BY <2>1, ScrambleIs DEF SeedInv
    <2> QED BY <2>1, <2>2 DEF SeedInv, Seed
<1>10. CASE HangUp
    BY <1>1, <1>10 DEF HangUp, sent
<1>11. ASSUME NEW message, Reply(message) PROVE SeedInv'
    BY <1>1, <1>11 DEF Reply, sent
<1>12. CASE SendSc
    <2>1. phase = "greeting" /\ solution' = solution
        BY <1>12 DEF SendSc
    <2>2. CASE UNCHANGED <<phase, page, machine>>
        BY <1>1, <2>1, <2>2
    <2>3. CASE phase' = "initial" /\ machine' = Started(page)
        <3>1. machine'.code = page /\ machine'.state = "on"
            BY <2>3 DEF Started, Off
        <3>2. PICK body, r, g, k : Laid(body, r, g)'
            BY <3>1 DEF PrintInv, MachineInv, Going
        <3>3. Coded(machine.code)'
            BY <3>2 DEF Laid, Lying
        <3>4. solution' = Seed(machine.code)'
            BY <2>1, <3>1 DEF SeedInv, Seed
        <3> QED BY <2>3, <3>1, <3>3, <3>4 DEF SeedInv
    <2> QED BY <1>12, <2>2, <2>3 DEF SendSc
<1>13. CASE ReadInitial
    BY <1>1, <1>13 DEF ReadInitial, sent
<1>14. CASE SendMove
    BY <1>1, <1>14 DEF SendMove, sent, service
<1>15. CASE ReadReply
    BY <1>1, <1>15 DEF ReadReply, sent
<1>16. CASE Alarm
    BY <1>1, <1>16 DEF Alarm, sent, service
<1>17. CASE UNCHANGED vars
    BY <1>1, <1>17 DEF vars, sent, service
<1> QED BY <1>3, <1>4, <1>5, <1>6, <1>7, <1>8, <1>9, <1>10, <1>11, <1>12, <1>13, <1>14, <1>15, <1>16,
           <1>17 DEF Next

-----------------------------------------------------------------------------
(* What a service says that does all it should.                              *)

Solved == [kind |-> "solved", text |-> ExpectedResponse]
Answers == {Says("greeting"), Says("cube"), Says("prompt"), Solved}
\* The answer to a move.
AnswerTo(n) == IF n < Solution THEN Says("prompt") ELSE Solved

\* A check that has kept up with it.
Answered ==
    /\ phase \in {"compose", "greeting", "initial", "cube", "reply"}
    /\ phase \in {"compose", "greeting"} => wire = <<Says("greeting")>> /\ move = 0 /\ replied = 0
    /\ phase = "initial" => /\ move = 0 /\ replied = 0 /\ machine.state # "off"
                            /\ wire = <<>> \/ machine.state = "shown"
    /\ phase = "cube" => machine.state = "shown" /\ wire = <<>> /\ replied = move /\ move \in 0 .. Solution - 1
    /\ phase = "reply" => /\ machine.state = "shown" /\ move \in 1 .. Solution
                          /\ \/ replied = move - 1 /\ wire = <<>>
                             \/ replied = move /\ wire = <<AnswerTo(move)>>
Working ==
    /\ ~ closed /\ wire \in Seq(Answers)
    /\ (exit = Running /\ ~ behind) => Answered
    /\ (exit # Running /\ ~ behind /\ ~ alarmed) => exit = 0
UpInv == ~ faulty => Working

LEMMA AnswersKept ==
    ASSUME test' = test, job' = job
    PROVE  Solved' = Solved /\ Answers' = Answers
<1>1. Solved' = Solved
    BY DrawnKept DEF Solved
<1> QED BY <1>1 DEF Answers, Says

LEMMA AllOf ==
    ASSUME NEW S, NEW s \in Seq(S)
    PROVE  SubSeq(s, 1, Len(s)) = s
<1> DEFINE n == Len(s)
           t == SubSeq(s, 1, n)
<1>1. n \in Nat /\ 1 \in 1 .. n + 1 /\ n \in 1 - 1 .. n /\ n - 1 + 1 = n /\ \A i \in 1 .. n : 1 + i - 1 = i
    OBVIOUS
<1>2. t \in Seq(S) /\ Len(t) = n - 1 + 1 /\ \A i \in 1 .. n - 1 + 1 : t[i] = s[1 + i - 1]
    BY <1>1, SubSeqProperties
<1> HIDE DEF t
<1>3. t = s
    BY <1>1, <1>2, SeqEqual
<1> QED BY <1>3 DEF t

\* The check hears something of what there is; all of it, unless it falls behind.
LEMMA Hearing ==
    ASSUME NEW S, wire \in Seq(S), ~ closed, NEW n, Hears(n)
    PROVE  /\ n \in 1 .. Len(wire) /\ wire' \in Seq(S) /\ closed' = closed /\ faulty' = faulty
           /\ replied' = replied
           /\ ~ behind' => ~ behind /\ n = Len(wire) /\ wire' = <<>>
<1>1. /\ n \in 1 .. Len(wire) /\ wire' = SubSeq(wire, n + 1, Len(wire))
      /\ behind' = (behind \/ n < Len(wire)) /\ UNCHANGED <<replied, closed, faulty>>
    BY DEF Hears
<1> DEFINE l == Len(wire)
           w == SubSeq(wire, n + 1, l)
<1>2. l \in Nat /\ n + 1 \in 1 .. l + 1 /\ l \in (n + 1) - 1 .. l
    BY <1>1
<1>3. w \in Seq(S) /\ Len(w) = l - (n + 1) + 1
    BY <1>2, SubSeqProperties
<1>4. ASSUME ~ behind' PROVE ~ behind /\ n = l /\ w = <<>>
    <2>4. ~ behind /\ ~ (n < l)
        BY <1>1, <1>4, Zenon
    <2>1. ~ behind /\ n = l
        BY <1>1, <1>2, <2>4
    <2> HIDE DEF w
    <2>2. Len(w) = 0
        BY <1>2, <1>3, <2>1
    <2>3. w = <<>>
        BY <1>3, <2>2, EmptySeq
    <2> QED BY <2>1, <2>3
<1> QED BY <1>1, <1>3, <1>4

\* What the check makes of the answer to a move.
LEMMA VerdictOnAnswer ==
    ASSUME move \in 1 .. Solution
    PROVE  Verdict(<<AnswerTo(move)>>) = IF move < Solution THEN Running ELSE 0
<1> DEFINE a == AnswerTo(move)
           heard == <<a>>
           kinds == {heard[i].kind : i \in DOMAIN heard}
<1>1. Len(heard) = 1 /\ heard[1] = a /\ DOMAIN heard = {1}
    OBVIOUS
<1>2. Verdict(heard) =
        IF kinds \cap {"invalid", "failed"} # {} THEN 0
        ELSE IF "solved" \in kinds THEN IF heard[Len(heard)] = Solved THEN 0 ELSE -1
        ELSE IF move = Solution THEN -1
        ELSE Running
    BY DEF Verdict, Solved
<1> HIDE DEF heard
<1>3. kinds = {a.kind}
    BY <1>1
<1> HIDE DEF kinds
<1>4. CASE move < Solution
    <2>1. a = Says("prompt")
        BY <1>4 DEF AnswerTo
    <2>2. a.kind = "prompt"
        BY <2>1 DEF Says
    <2>3. move # Solution
        BY <1>4, SolutionAssumption
    <2>4. kinds \cap {"invalid", "failed"} = {} /\ "solved" \notin kinds
        BY <1>3, <2>2
    <2> QED BY <1>2, <1>4, <2>3, <2>4 DEF heard
<1>5. CASE ~ (move < Solution)
    <2>1. a = Solved
        BY <1>5 DEF AnswerTo
    <2>2. a.kind = "solved"
        BY <2>1 DEF Solved
    <2>3. kinds \cap {"invalid", "failed"} = {} /\ "solved" \in kinds
        BY <1>3, <2>2
    <2> QED BY <1>1, <1>2, <1>5, <2>1, <2>3 DEF heard
<1> QED BY <1>4, <1>5

\* A step in which the service is not heard, and says nothing.
LEMMA SilentUp ==
    ASSUME UpInv, UNCHANGED <<test, job, wire, replied, closed, faulty, behind>>,
           exit' = exit \/ (exit = Running /\ alarmed'), exit = Running \/ alarmed' = alarmed,
           ~ faulty /\ exit' = Running /\ ~ behind /\ Answered => Answered'
    PROVE  UpInv'
<1>1. Answers' = Answers
    BY AnswersKept
<1> SUFFICES ASSUME ~ faulty' PROVE Working'
    BY DEF UpInv
<1>2. ~ faulty /\ Working
    BY DEF UpInv
<1>3. ~ closed' /\ wire' \in Seq(Answers')
    BY <1>1, <1>2 DEF Working
<1>4. Running' = Running
    BY DEF Running
<1>5. ASSUME exit' = Running, ~ behind' PROVE Answered'
    BY <1>2, <1>5 DEF Working
<1>6. ASSUME exit' # Running, ~ behind', ~ alarmed' PROVE exit' = 0
    BY <1>2, <1>6 DEF Working
<1> QED BY <1>3, <1>4, <1>5, <1>6 DEF Working

\* What the service answers to the next move.
LEMMA RightIs ==
    ASSUME PrintInv, SeedInv, machine.state = "shown"
    PROVE  /\ RightReply \in Answers
           /\ replied + 1 = move /\ move \in 1 .. Solution => RightReply = AnswerTo(move)
<1>1. solution = machine.scramble /\ machine.printed = ExpectedResponse
    BY DEF SeedInv, PrintInv, MachineInv
<1>2. RightReply = IF replied + 1 < Solution THEN Says("prompt") ELSE Solved
    BY <1>1 DEF RightReply, Solved
<1> QED BY <1>2 DEF Answers, AnswerTo

LEMMA ReplyUp ==
    ASSUME PrintInv, SeedInv, UpInv, NEW message, Reply(message), exit = Running
    PROVE  UpInv'
<1>1. /\ test' = test /\ job' = job /\ UNCHANGED <<phase, move, exit, alarmed, machine, closed, behind>>
      /\ machine.state = "shown" /\ replied < move /\ replied' = replied + 1 /\ wire' = Append(wire, message)
      /\ faulty' = (faulty \/ message # RightReply)
    BY DEF Reply, compose, outcome
<1> SUFFICES ASSUME ~ faulty' PROVE Working'
    BY DEF UpInv
<1>2. ~ faulty /\ message = RightReply
    BY <1>1
<1>3. Working
    BY <1>2 DEF UpInv
<1>4. Answers' = Answers /\ Solved' = Solved
    BY <1>1, AnswersKept
<1>5. message \in Answers /\ (replied + 1 = move /\ move \in 1 .. Solution => message = AnswerTo(move))
    BY <1>1, <1>2, RightIs
<1>6. wire' \in Seq(Answers') /\ ~ closed'
    BY <1>1, <1>3, <1>4, <1>5 DEF Working
<1>7. Running' = Running
    BY DEF Running
<1>8. ASSUME ~ behind' PROVE Answered'
    <2>1. Answered
        BY <1>1, <1>3, <1>8 DEF Working
    <2>2. phase = "reply" /\ move \in 1 .. Solution /\ replied = move - 1 /\ wire = <<>>
        BY <1>1, <2>1 DEF Answered
    <2>3. message = AnswerTo(move) /\ replied' = move
        BY <1>1, <1>5, <2>2
    <2>4. wire' = <<AnswerTo(move)>>
        BY <1>1, <2>2, <2>3
    <2>6. AnswerTo(move)' = AnswerTo(move)
        BY <1>1, <1>4 DEF AnswerTo, Says
    <2>5. (wire = <<AnswerTo(move)>>)'
        BY <2>4, <2>6
    <2> QED BY <1>1, <2>2, <2>3, <2>4, <2>5 DEF Answered
<1> QED BY <1>1, <1>6, <1>7, <1>8 DEF Working

LEMMA AnsweredKept ==
    ASSUME Answered, UNCHANGED <<test, job, phase, wire, move, replied, machine>>
    PROVE  Answered'
<1>1. Solved' = Solved
    BY AnswersKept
<1>2. AnswerTo(move)' = AnswerTo(move)
    BY <1>1 DEF AnswerTo, Says
<1>3. Says("greeting")' = Says("greeting")
    BY DEF Says
<1> QED BY <1>2, <1>3 DEF Answered

\* While the check composes, or does nothing with what it is told.
LEMMA ComposingUp ==
    ASSUME FitInv', UpInv, NEW calls, Adds(calls), phase = "compose", exit = Running
    PROVE  UpInv'
<1>1. UNCHANGED <<test, job, phase, move, alarmed, wire, replied, closed, faulty, behind, machine>>
    BY DEF Adds, service
<1>2. exit' = exit
    BY <1>1 DEF FitInv, Composing, Running
<1> QED BY <1>1, <1>2, AnsweredKept, SilentUp

LEMMA ExecuteUp ==
    ASSUME PrintInv, SeedInv, UpInv, Execute, exit = Running
    PROVE  UpInv'
<1>1. /\ UNCHANGED <<test, job, phase, move, alarmed, exit, wire, replied, closed, faulty, behind>>
      /\ machine.state = "on"
    BY Zenon DEF Execute, compose, outcome
<1>2. machine'.state # "off"
    <2>1. DOMAIN machine = Fields
        BY <1>1 DEF PrintInv, MachineInv, Going, Runs
    <2> QED BY <1>1, <2>1, Zenon DEF Execute, Fields
<1>3. ASSUME Answered PROVE Answered'
    <2>1. phase = "initial" /\ wire = <<>> /\ move = 0 /\ replied = 0
        BY <1>1, <1>3 DEF Answered, SeedInv
    <2> QED BY <1>1, <1>2, <2>1 DEF Answered
<1> QED BY <1>1, <1>3, SilentUp

LEMMA ShowCubeUp ==
    ASSUME SeedInv, UpInv, ShowCube, exit = Running
    PROVE  UpInv'
<1>1. /\ UNCHANGED <<test, job, phase, move, alarmed, exit, replied, closed, faulty, behind>>
      /\ machine.state = "halted" /\ machine'.state = "shown"
    BY DEF ShowCube, compose, outcome, Off
<1>2. PICK pieces \in 1 .. 2 : wire' = wire \o [i \in 1 .. pieces |-> Says("cube")]
    BY DEF ShowCube
<1> SUFFICES ASSUME ~ faulty' PROVE Working'
    BY DEF UpInv
<1>3. ~ faulty /\ Working
    BY <1>1 DEF UpInv
<1>4. Answers' = Answers
    BY <1>1, AnswersKept
<1>5. wire' \in Seq(Answers')
    <2>1. [i \in 1 .. pieces |-> Says("cube")] \in Seq(Answers)
        BY DEF Answers
    <2> QED BY <1>2, <1>3, <1>4, <2>1 DEF Working
<1>6. ASSUME ~ behind' PROVE Answered'
    <2>1. Answered
        BY <1>1, <1>3, <1>6 DEF Working
    <2>2. phase = "initial" /\ move = 0 /\ replied = 0
        BY <1>1, <2>1 DEF Answered, SeedInv
    <2> QED BY <1>1, <2>2 DEF Answered
<1>7. Running' = Running
    BY DEF Running
<1> QED BY <1>1, <1>3, <1>5, <1>6, <1>7 DEF Working

\* A step in which the check hears its service.
LEMMA HeardUp ==
    ASSUME UpInv, test' = test, job' = job, alarmed' = alarmed, exit = Running,
           NEW n, Hears(n), closed => faulty,
           ~ behind' /\ ~ faulty /\ Answered /\ n = Len(wire) /\ n >= 1 /\ wire' = <<>> /\ replied' = replied
             => (exit' = Running /\ Answered') \/ exit' = 0
    PROVE  UpInv'
<1>1. faulty' = faulty
    BY DEF Hears
<1> SUFFICES ASSUME ~ faulty' PROVE Working'
    BY DEF UpInv
<1>2. ~ faulty /\ Working
    BY <1>1 DEF UpInv
<1>3. Answers' = Answers
    BY AnswersKept
<1>4. wire \in Seq(Answers) /\ ~ closed
    BY <1>2 DEF Working
<1> DEFINE S == Answers
<1> HIDE DEF S
<1>5. wire \in Seq(S)
    BY <1>4 DEF S
<1>6. /\ n \in 1 .. Len(wire) /\ wire' \in Seq(S) /\ closed' = closed /\ replied' = replied
      /\ ~ behind' => ~ behind /\ n = Len(wire) /\ wire' = <<>>
    BY <1>4, <1>5, Hearing
<1>7. wire' \in Seq(Answers') /\ ~ closed'
    BY <1>3, <1>4, <1>6 DEF S
<1>8. ASSUME ~ behind' PROVE (exit' = Running /\ Answered') \/ exit' = 0
    <2>1. ~ behind /\ n = Len(wire) /\ n >= 1 /\ wire' = <<>> /\ replied' = replied
        BY <1>6, <1>8
    <2>2. Answered
        BY <1>2, <2>1 DEF Working
    <2> QED BY <1>2, <1>8, <2>1, <2>2
<1>9. Running' = Running /\ Running # 0
    BY DEF Running
<1> QED BY <1>7, <1>8, <1>9 DEF Working

LEMMA SendScUp ==
    ASSUME UpInv, SendSc, closed => faulty
    PROVE  UpInv'
<1>1. /\ test' = test /\ job' = job /\ alarmed' = alarmed /\ exit = Running /\ move' = move /\ phase = "greeting"
      /\ (closed \/ (exit' = exit /\ phase' = "initial" /\ machine' = Started(page)))
    BY DEF SendSc, compose, SendRaises
<1>2. PICK n : Hears(n)
    BY DEF SendSc
<1>3. ASSUME ~ faulty, Answered, wire' = <<>>, replied' = replied PROVE exit' = Running /\ Answered'
    <2>1. exit' = Running /\ phase' = "initial" /\ machine' = Started(page)
        BY <1>1, <1>3
    <2>2. machine'.state # "off"
        BY <2>1 DEF Started, Off
    <2>3. move = 0 /\ replied = 0
        BY <1>1, <1>3 DEF Answered
    <2> QED BY <1>1, <1>3, <2>1, <2>2, <2>3 DEF Answered
<1> QED BY <1>1, <1>2, <1>3, HeardUp

LEMMA ReadInitialUp ==
    ASSUME UpInv, ReadInitial, closed => faulty
    PROVE  UpInv'
<1>1. /\ test' = test /\ job' = job /\ alarmed' = alarmed /\ exit = Running /\ move' = move /\ phase = "initial"
      /\ exit' = exit /\ phase' = "cube" /\ machine' = machine
    BY DEF ReadInitial, compose, outcome
<1>2. PICK n : Hears(n)
    BY DEF ReadInitial
<1>3. ASSUME Answered, n = Len(wire), n >= 1, wire' = <<>>, replied' = replied PROVE Answered'
    <2>1. wire # <<>>
        <3>1. Len(<<>>) = 0
            BY EmptySeq
        <3> QED BY <1>3, <3>1
    <2>2. move = 0 /\ replied = 0 /\ machine.state = "shown"
        BY <1>1, <1>3, <2>1 DEF Answered
    <2>3. 0 \in 0 .. Solution - 1
        BY SolutionAssumption
    <2> QED BY <1>1, <1>3, <2>2, <2>3 DEF Answered
<1> QED BY <1>1, <1>2, <1>3, HeardUp

LEMMA SendMoveUp ==
    ASSUME UpInv, SendMove, closed => faulty
    PROVE  UpInv'
<1>1. /\ UNCHANGED <<test, job, alarmed, wire, replied, closed, faulty, behind, machine>>
      /\ exit = Running /\ phase = "cube"
      /\ (closed \/ (exit' = exit /\ phase' = "reply" /\ move' = move + 1))
    BY DEF SendMove, compose, SendRaises, service
<1>2. CASE faulty
    BY <1>1, <1>2 DEF UpInv
<1>3. CASE ~ faulty
    <2>1. exit' = exit /\ phase' = "reply" /\ move' = move + 1
        BY <1>1, <1>3
    <2>2. ASSUME Answered PROVE Answered'
        <3>1. machine.state = "shown" /\ wire = <<>> /\ replied = move /\ move \in 0 .. Solution - 1
            BY <1>1, <2>2 DEF Answered
        <3>2. move + 1 \in 1 .. Solution /\ move = (move + 1) - 1
            BY <3>1, SolutionAssumption
        <3> QED BY <1>1, <2>1, <3>1, <3>2 DEF Answered
    <2> QED BY <1>1, <2>1, <2>2, SilentUp
<1> QED BY <1>2, <1>3

LEMMA ReadReplyUp ==
    ASSUME UpInv, ReadReply, closed => faulty
    PROVE  UpInv'
<1>1. /\ test' = test /\ job' = job /\ alarmed' = alarmed /\ exit = Running /\ move' = move /\ phase = "reply"
      /\ phase' = "cube" /\ machine' = machine
    BY DEF ReadReply, compose
<1>2. PICK n : Hears(n) /\ exit' = Verdict(SubSeq(wire, 1, n))
    BY DEF ReadReply
<1>3. ASSUME Answered, n = Len(wire), n >= 1, wire' = <<>>, replied' = replied
      PROVE  (exit' = Running /\ Answered') \/ exit' = 0
    <2> DEFINE a == AnswerTo(move)
               heard == <<a>>
    <2>1. wire # <<>>
        <3>1. Len(<<>>) = 0
            BY EmptySeq
        <3> QED BY <1>3, <3>1
    <2>2. machine.state = "shown" /\ move \in 1 .. Solution /\ replied = move /\ wire = heard
        BY <1>1, <1>3, <2>1 DEF Answered
    <2>3. heard \in Seq({a})
        OBVIOUS
    <2>4. Verdict(heard) = IF move < Solution THEN Running ELSE 0
        BY <2>2, VerdictOnAnswer
    <2> HIDE DEF a, heard
    <2>5. SubSeq(wire, 1, n) = heard
        BY <1>3, <2>2, <2>3, AllOf
    <2>6. exit' = IF move < Solution THEN Running ELSE 0
        BY <1>2, <2>4, <2>5
    <2>7. CASE move < Solution
        <3>1. move \in 0 .. Solution - 1
            BY <2>2, <2>7, SolutionAssumption
        <3> QED BY <1>1, <1>3, <2>2, <2>6, <2>7, <3>1 DEF Answered
    <2> QED BY <2>6, <2>7
<1> QED BY <1>1, <1>2, <1>3, HeardUp

LEMMA UpInit == Init => SeedInv /\ UpInv
<1> SUFFICES ASSUME Init PROVE SeedInv /\ UpInv
    OBVIOUS
<1>1. /\ phase = "compose" /\ machine.state = "off" /\ wire = <<Says("greeting")>> /\ move = 0 /\ replied = 0
      /\ exit = Running /\ ~ closed
    BY DEF Init, Off
<1>2. SeedInv
    BY <1>1 DEF SeedInv
<1>3. wire \in Seq(Answers)
    BY <1>1 DEF Answers
<1>4. Answered
    BY <1>1 DEF Answered
<1> QED BY <1>1, <1>2, <1>3, <1>4 DEF UpInv, Working

LEMMA UpStep == PrintInv /\ PrintInv' /\ SeedInv /\ UpInv /\ [Next]_vars => UpInv'
<1> SUFFICES ASSUME PrintInv, PrintInv', SeedInv, UpInv, [Next]_vars PROVE UpInv'
    OBVIOUS
<1>0. FitInv' /\ (closed => faulty)
    BY DEF PrintInv, UpInv, Working
<1>1. CASE MaybeRandom
    BY <1>0, <1>1, ComposingUp DEF MaybeRandom, Part
<1>2. CASE MaybeCount
    BY <1>0, <1>2, ComposingUp DEF MaybeCount, Part
<1>3. CASE SetUp
    BY <1>0, <1>3, ComposingUp DEF SetUp, Part
<1>4. CASE Compute
    BY <1>0, <1>4, ComposingUp DEF Compute, Part
<1>5. CASE Assembled
    <2>1. exit' = exit /\ phase' = "greeting"
        BY <1>5, PageHolds DEF PrintInv
    <2>2. /\ UNCHANGED <<test, job, move, alarmed, wire, replied, closed, faulty, behind, machine>>
          /\ phase = "compose"
        BY <1>5 DEF Assembled, Part, service
    <2>3. ASSUME Answered PROVE Answered'
        <3>1. wire = <<Says("greeting")>> /\ move = 0 /\ replied = 0
            BY <2>2, <2>3 DEF Answered
        <3> QED BY <2>1, <2>2, <3>1 DEF Answered, Says
    <2> QED BY <2>1, <2>2, <2>3, SilentUp
<1>6. CASE exit = Running /\ Execute
    BY <1>6, ExecuteUp
<1>7. CASE exit = Running /\ ShowCube
    BY <1>7, ShowCubeUp
<1>8. CASE HangUp
    BY <1>8 DEF HangUp, UpInv
<1>9. ASSUME NEW message, exit = Running, Reply(message) PROVE UpInv'
    BY <1>9, ReplyUp
<1>10. CASE SendSc
    BY <1>0, <1>10, SendScUp
<1>11. CASE ReadInitial
    BY <1>0, <1>11, ReadInitialUp
<1>12. CASE SendMove
    BY <1>0, <1>12, SendMoveUp
<1>13. CASE ReadReply
    BY <1>0, <1>13, ReadReplyUp
<1>14. CASE Alarm
    <2>1. /\ UNCHANGED <<test, job, phase, move, wire, replied, closed, faulty, behind, machine>>
          /\ exit = Running /\ alarmed'
        BY <1>14 DEF Alarm, compose, service
    <2> QED BY <2>1, AnsweredKept, SilentUp
<1>15. CASE UNCHANGED vars
    <2>1. UNCHANGED <<test, job, phase, move, exit, alarmed, wire, replied, closed, faulty, behind, machine>>
        BY <1>15 DEF vars, compose, outcome, service
    <2> QED BY <2>1, AnsweredKept, SilentUp
<1> QED BY <1>1, <1>2, <1>3, <1>4, <1>5, <1>6, <1>7, <1>8, <1>9, <1>10, <1>11, <1>12, <1>13, <1>14,
           <1>15 DEF Next

\* A service that runs what it is sent, scrambles its cube by it and turns it as it is told is never
\* failed by scripts/rubix/availability, and the check of it ends with the status of a service that
\* works, unless the alarm comes first or the check falls behind what the service has said.
THEOREM WorkingServicesPass == Spec => []WorkingServiceIsUp
<1> DEFINE Inv == PrintInv /\ SeedInv /\ UpInv
<1>1. Init => Inv
    BY PrintInit, UpInit
<1>2. Inv /\ [Next]_vars => Inv'
    BY PrintStep, SeedStep, UpStep
<1>3. Inv => WorkingServiceIsUp
    <2> SUFFICES ASSUME Inv, ~ faulty
                 PROVE  /\ \A i \in DOMAIN wire : wire[i].kind # "failed"
                        /\ (exit # Running /\ ~ behind /\ ~ alarmed) => exit = 0
        BY DEF WorkingServiceIsUp
    <2>1. Working
        BY DEF UpInv
    <2>2. \A a \in Answers : a.kind # "failed"
        BY DEF Answers, Says, Solved
    <2>3. \A i \in DOMAIN wire : wire[i] \in Answers
        BY <2>1 DEF Working
    <2> QED BY <2>1, <2>2, <2>3 DEF Working
<1> QED BY <1>1, <1>2, <1>3, PTL DEF Spec

=============================================================================
