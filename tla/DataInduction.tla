--------------------------- MODULE DataInduction ----------------------------
(***************************************************************************)
(* Induction over the data that the models compute with.  The theorems of  *)
(* the library take the property as an operator; here a property is the    *)
(* set of what has it, and a function defined by recursion is one of those *)
(* that satisfy its equation, of which there is one.                       *)
(***************************************************************************)
EXTENDS Integers, FiniteSets, SequencesExt, FiniteSetTheorems, SequenceTheorems,
        WellFoundedInduction, TLAPS

\* Of finitely many things, what some part of them is not without, a part has
\* that without any one of its elements is not.
LEMMA SmallestPart ==
    ASSUME NEW S, IsFiniteSet(S), NEW W \in SUBSET (SUBSET S), W # {}
    PROVE  \E T \in W : IsFiniteSet(T) /\ \A x \in T : T \ {x} \notin W
<1>1. W \subseteq FiniteSubsetsOf(S)
    BY FS_FiniteSubsetsOfFinite
<1>2. PICK T \in W : \A U \in W : <<U, T>> \notin StrictSubsetOrdering(S)
    BY <1>1, FS_StrictSubsetOrderingWellFounded, WFMin
<1>3. ASSUME NEW x \in T, T \ {x} \in W PROVE FALSE
    <2>1. T \ {x} \subseteq T /\ T \ {x} # T
        OBVIOUS
    <2>2. <<T \ {x}, T>> \in StrictSubsetOrdering(S)
        BY <1>3, <2>1 DEF StrictSubsetOrdering
    <2> QED BY <1>2, <1>3, <2>2
<1>4. IsFiniteSet(T)
    BY FS_Subset
<1> QED BY <1>2, <1>3, <1>4

\* Of any numbers one is the least.
LEMMA LeastNumber ==
    ASSUME NEW T \in SUBSET Nat, T # {}
    PROVE  \E m \in T : \A n \in T : m <= n
<1> DEFINE W == {0..k : k \in T}
<1>1. W \subseteq FiniteSubsetsOf(Nat) /\ W # {}
    <2>1. \A k \in T : IsFiniteSet(0..k) /\ 0..k \subseteq Nat
        BY FS_Interval
    <2> QED BY <2>1 DEF FiniteSubsetsOf
<1>2. \E U \in W : \A V \in W : <<V, U>> \notin StrictSubsetOrdering(Nat)
    <2> HIDE DEF W
    <2> QED BY <1>1, FS_StrictSubsetOrderingWellFounded, WFMin
<1>3. PICK m \in T : \A n \in T : <<0..n, 0..m>> \notin StrictSubsetOrdering(Nat)
    BY <1>2
<1>4. ASSUME NEW n \in T, n < m PROVE FALSE
    <2>1. 0..n \subseteq 0..m /\ 0..n # 0..m
        <3>1. m \in 0..m /\ m \notin 0..n
            BY <1>4
        <3> QED BY <1>4, <3>1
    <2>2. 0..n \in SUBSET Nat /\ 0..m \in SUBSET Nat
        BY <1>3
    <2> QED BY <1>3, <2>1, <2>2 DEF StrictSubsetOrdering
<1> QED BY <1>3, <1>4

\* What holds of 0, and of a number's successor if of the number, holds of all.
LEMMA NaturalInduction ==
    ASSUME NEW T, 0 \in T, \A n \in Nat : n \in T => n + 1 \in T
    PROVE  Nat \subseteq T
<1> SUFFICES ASSUME Nat \ T # {} PROVE FALSE
    OBVIOUS
<1>1. PICK m \in Nat \ T : \A n \in Nat \ T : m <= n
    BY LeastNumber
<1>2. m - 1 \in Nat /\ m - 1 \in T
    BY <1>1
<1> QED BY <1>1, <1>2

\* What holds of the empty sequence, and of a longer one if of the sequence
\* without its last element, holds of all.
LEMMA SequenceInduction ==
    ASSUME NEW S, NEW T, <<>> \in T, \A s \in Seq(S), e \in S : s \in T => Append(s, e) \in T
    PROVE  Seq(S) \subseteq T
<1> DEFINE N == {n \in Nat : \A s \in Seq(S) : Len(s) = n => s \in T}
<1>1. 0 \in N
    <2>1. \A s \in Seq(S) : Len(s) = 0 => s = <<>>
        BY EmptySeq
    <2> QED BY <2>1
<1>2. ASSUME NEW n \in Nat, n \in N PROVE n + 1 \in N
    <2> SUFFICES ASSUME NEW s \in Seq(S), Len(s) = n + 1 PROVE s \in T
        OBVIOUS
    <2>1. s # <<>>
        BY EmptySeq
    <2>2. PICK t \in Seq(S), e \in S : s = Append(t, e)
        BY <2>1, SequenceEmptyOrAppend
    <2>3. Len(t) = n
        BY <2>2, AppendProperties, LenProperties
    <2> QED BY <1>2, <2>2, <2>3
<1> HIDE DEF N
<1>3. Nat \subseteq N
    BY <1>1, <1>2, NaturalInduction
<1> QED BY <1>3, LenProperties DEF N

\* What a sequence with one element more is.
LEMMA Longer ==
    ASSUME NEW S, NEW s \in Seq(S), NEW e \in S,
           NEW t \in Seq(S), Len(t) = Len(s) + 1, t[Len(t)] = e, \A i \in 1..Len(s) : t[i] = s[i]
    PROVE  Append(s, e) = t
<1>1. /\ Append(s, e) \in Seq(S) /\ Len(Append(s, e)) = Len(s) + 1 /\ Append(s, e)[Len(s) + 1] = e
      /\ \A i \in 1..Len(s) : Append(s, e)[i] = s[i]
    BY AppendProperties
<1>2. \A i \in 1..Len(t) : i \in 1..Len(s) \/ i = Len(s) + 1
    OBVIOUS
<1> QED BY <1>1, <1>2, SeqEqual

-----------------------------------------------------------------------------
(* Sequences of sequences, flattened.                                        *)

\* The equation of the recursive function that FlattenSeq takes.
Joins(g, seqs, n) == g = [i \in 1..n |-> IF i = 1 THEN seqs[i] ELSE g[i - 1] \o seqs[i]]

LEMMA FlattenUnfolds ==
    ASSUME NEW seqs
    PROVE  FlattenSeq(seqs) = IF Len(seqs) = 0 THEN seqs
                              ELSE (CHOOSE g : Joins(g, seqs, Len(seqs)))[Len(seqs)]
BY DEF FlattenSeq, Joins

LEMMA JoinsExists ==
    ASSUME NEW seqs PROVE \A n \in Nat : \E g : Joins(g, seqs, n)
<1> DEFINE T == {n \in Nat : \E g : Joins(g, seqs, n)}
<1>1. 0 \in T
    <2> DEFINE g == [i \in 1..0 |-> <<>>]
    <2>1. g = [i \in 1..0 |-> IF i = 1 THEN seqs[i] ELSE g[i - 1] \o seqs[i]]
        OBVIOUS
    <2>2. Joins(g, seqs, 0)
        BY <2>1 DEF Joins
    <2> QED BY <2>2
<1>2. ASSUME NEW n \in Nat, n \in T PROVE n + 1 \in T
    <2>1. PICK g : Joins(g, seqs, n)
        BY <1>2
    <2> DEFINE h == [i \in 1..(n + 1) |-> IF i <= n THEN g[i]
                                          ELSE IF i = 1 THEN seqs[1] ELSE g[n] \o seqs[i]]
    <2>2. \A i \in 1..n : h[i] = g[i]
        OBVIOUS
    <2>3. h[n + 1] = IF n + 1 = 1 THEN seqs[1] ELSE g[n] \o seqs[n + 1]
        OBVIOUS
    <2>4. h = [i \in 1..(n + 1) |-> h[i]]
        OBVIOUS
    <2> HIDE DEF h
    <2>5. ASSUME NEW i \in 1..n PROVE h[i] = IF i = 1 THEN seqs[i] ELSE h[i - 1] \o seqs[i]
        <3>1. g[i] = IF i = 1 THEN seqs[i] ELSE g[i - 1] \o seqs[i]
            BY <2>1 DEF Joins
        <3>2. i = 1 \/ i - 1 \in 1..n
            OBVIOUS
        <3> QED BY <2>2, <3>1, <3>2
    <2>6. n + 1 = 1 \/ n \in 1..n
        OBVIOUS
    <2>7. h[n + 1] = IF n + 1 = 1 THEN seqs[n + 1] ELSE h[(n + 1) - 1] \o seqs[n + 1]
        BY <2>2, <2>3, <2>6
    <2>8. \A i \in 1..(n + 1) : h[i] = IF i = 1 THEN seqs[i] ELSE h[i - 1] \o seqs[i]
        BY <2>5, <2>7
    <2>9. Joins(h, seqs, n + 1)
        BY <2>4, <2>8 DEF Joins
    <2> QED BY <2>9
<1> HIDE DEF T
<1>3. Nat \subseteq T
    BY <1>1, <1>2, NaturalInduction
<1> QED BY <1>3 DEF T

\* Where two sequences agree, what is joined of them does.
LEMMA JoinsAgree ==
    ASSUME NEW s, NEW t, NEW m \in Nat, NEW n \in Nat, m <= n,
           \A i \in 1..m : s[i] = t[i],
           NEW g, Joins(g, s, m), NEW h, Joins(h, t, n)
    PROVE  \A i \in 1..m : g[i] = h[i]
<1> DEFINE T == {i \in Nat : i \in 1..m => g[i] = h[i]}
<1>1. 0 \in T
    OBVIOUS
<1>2. ASSUME NEW i \in Nat, i \in T PROVE i + 1 \in T
    <2> SUFFICES ASSUME i + 1 \in 1..m PROVE g[i + 1] = h[i + 1]
        OBVIOUS
    <2>1. i + 1 \in 1..n /\ (i + 1) - 1 = i /\ s[i + 1] = t[i + 1]
        OBVIOUS
    <2>2. g[i + 1] = IF i + 1 = 1 THEN s[i + 1] ELSE g[i] \o s[i + 1]
        BY <2>1 DEF Joins
    <2>3. h[i + 1] = IF i + 1 = 1 THEN t[i + 1] ELSE h[i] \o t[i + 1]
        BY <2>1 DEF Joins
    <2>4. i + 1 = 1 \/ g[i] = h[i]
        BY <1>2
    <2> QED BY <2>1, <2>2, <2>3, <2>4
<1> HIDE DEF T
<1>3. Nat \subseteq T
    BY <1>1, <1>2, NaturalInduction
<1> QED BY <1>3 DEF T

\* One sequence more to flatten is one to append.
LEMMA FlattenAppend ==
    ASSUME NEW S, NEW seqs \in Seq(Seq(S)), NEW e \in Seq(S)
    PROVE  FlattenSeq(Append(seqs, e)) = FlattenSeq(seqs) \o e
<1> DEFINE n == Len(seqs)
           more == Append(seqs, e)
           G(s) == CHOOSE g : Joins(g, s, Len(s))
<1>1. n \in Nat /\ Len(more) = n + 1 /\ more[n + 1] = e /\ \A i \in 1..n : seqs[i] = more[i]
    BY AppendProperties, LenProperties
<1>2. Joins(G(seqs), seqs, n) /\ Joins(G(more), more, n + 1)
    <2>1. (\E g : Joins(g, seqs, Len(seqs))) /\ \E g : Joins(g, more, Len(more))
        <3>1. Len(seqs) \in Nat /\ Len(more) \in Nat
            BY <1>1
        <3> HIDE DEF more
        <3>2. (\A k \in Nat : \E g : Joins(g, seqs, k)) /\ \A k \in Nat : \E g : Joins(g, more, k)
            BY JoinsExists
        <3> QED BY <3>1, <3>2
    <2> HIDE DEF more
    <2>2. Joins(G(seqs), seqs, Len(seqs)) /\ Joins(G(more), more, Len(more))
        BY <2>1
    <2> HIDE DEF G
    <2> QED BY <1>1, <2>2
<1>3. FlattenSeq(more) = G(more)[n + 1]
    <2>1. FlattenSeq(more) = IF Len(more) = 0 THEN more ELSE G(more)[Len(more)]
        <3> HIDE DEF more
        <3> QED BY FlattenUnfolds
    <2>2. Len(more) # 0
        BY <1>1
    <2> HIDE DEF G, more
    <2> QED BY <1>1, <2>1, <2>2
<1>4. CASE n = 0
    <2>1. seqs = <<>> /\ FlattenSeq(seqs) = <<>>
        BY <1>4, EmptySeq, FlattenUnfolds
    <2>2. G(more)[n + 1] = e
        <3> HIDE DEF G
        <3> QED BY <1>1, <1>2, <1>4 DEF Joins
    <2> QED BY <1>3, <2>1, <2>2, ConcatEmptySeq
<1>5. CASE n # 0
    <2>1. FlattenSeq(seqs) = G(seqs)[n] /\ n \in 1..n
        BY <1>1, <1>5, FlattenUnfolds
    <2> HIDE DEF G
    <2>2. G(more)[n + 1] = G(more)[n] \o e
        <3>1. n + 1 \in 1..(n + 1) /\ n + 1 # 1 /\ (n + 1) - 1 = n
            BY <1>1, <1>5
        <3> QED BY <1>1, <1>2, <3>1 DEF Joins
    <2>3. G(seqs)[n] = G(more)[n]
        <3>1. n + 1 \in Nat /\ n <= n + 1
            BY <1>1
        <3> HIDE DEF n, more
        <3> QED BY <1>1, <1>2, <2>1, <3>1, JoinsAgree
    <2> QED BY <1>3, <2>1, <2>2, <2>3
<1> QED BY <1>4, <1>5

LEMMA FlattenEmpty == FlattenSeq(<<>>) = <<>>
BY FlattenUnfolds, EmptySeq

LEMMA FlattenType ==
    ASSUME NEW S PROVE \A seqs \in Seq(Seq(S)) : FlattenSeq(seqs) \in Seq(S)
<1> DEFINE T == {seqs \in Seq(Seq(S)) : FlattenSeq(seqs) \in Seq(S)}
<1>1. <<>> \in T
    BY FlattenEmpty, EmptySeq
<1>2. ASSUME NEW s \in Seq(Seq(S)), NEW e \in Seq(S), s \in T PROVE Append(s, e) \in T
    BY <1>2, FlattenAppend, AppendProperties, ConcatProperties
<1> HIDE DEF T
<1>3. Seq(Seq(S)) \subseteq T
    BY <1>1, <1>2, SequenceInduction
<1> QED BY <1>3 DEF T

\* Where each of the sequences begins in what they are flattened to.
Begins(g, seqs) ==
    /\ g[0] = 0
    /\ \A i \in 1..Len(seqs) : g[i] = g[i - 1] + Len(seqs[i])
LiesThere(g, seqs, flat, i) ==
    /\ g[i - 1] \in Nat
    /\ \A j \in 1..Len(seqs[i]) : g[i - 1] + j \in 1..Len(flat) /\ flat[g[i - 1] + j] = seqs[i][j]

LEMMA FlattenPlaces ==
    ASSUME NEW S
    PROVE  \A seqs \in Seq(Seq(S)) : \A g : Begins(g, seqs) =>
               /\ Len(FlattenSeq(seqs)) = g[Len(seqs)]
               /\ \A i \in 1..Len(seqs) : LiesThere(g, seqs, FlattenSeq(seqs), i)
<1> DEFINE Right(seqs) == \A g : Begins(g, seqs) =>
               /\ Len(FlattenSeq(seqs)) = g[Len(seqs)]
               /\ \A i \in 1..Len(seqs) : LiesThere(g, seqs, FlattenSeq(seqs), i)
           T == {seqs \in Seq(Seq(S)) : Right(seqs)}
<1>1. <<>> \in T
    <2>1. <<>> \in Seq(Seq(S)) /\ Len(<<>>) = 0
        BY EmptySeq
    <2>2. Right(<<>>)
        BY <2>1, FlattenEmpty DEF Begins
    <2> QED BY <2>1, <2>2
<1>2. ASSUME NEW s \in Seq(Seq(S)), NEW e \in Seq(S), s \in T PROVE Append(s, e) \in T
    <2> DEFINE v == Append(s, e)
               n == Len(s)
               old == FlattenSeq(s)
               flat == FlattenSeq(v)
    <2>1. /\ v \in Seq(Seq(S)) /\ n \in Nat /\ Len(v) = n + 1 /\ v[n + 1] = e
          /\ \A i \in 1..n : v[i] = s[i]
        BY AppendProperties, LenProperties
    <2>2. old \in Seq(S) /\ flat = old \o e
        BY FlattenAppend, FlattenType
    <2> HIDE DEF v, old, flat
    <2>3. /\ Len(flat) = Len(old) + Len(e) /\ Len(old) \in Nat /\ Len(e) \in Nat
          /\ \A i \in 1..Len(old) + Len(e) : flat[i] = IF i <= Len(old) THEN old[i] ELSE e[i - Len(old)]
        <3>1. /\ Len(old \o e) = Len(old) + Len(e)
              /\ \A i \in 1..Len(old) + Len(e) :
                     (old \o e)[i] = IF i <= Len(old) THEN old[i] ELSE e[i - Len(old)]
            BY <2>2, ConcatProperties
        <3> QED BY <2>2, <3>1
    <2>4. ASSUME NEW g, Begins(g, v)
          PROVE  Len(flat) = g[Len(v)] /\ \A i \in 1..Len(v) : LiesThere(g, v, flat, i)
        <3>1. Begins(g, s)
            <4>1. \A i \in 1..n : i \in 1..(n + 1)
                BY <2>1
            <4> QED BY <2>1, <2>4, <4>1 DEF Begins
        <3>2. Len(old) = g[n] /\ \A i \in 1..n : LiesThere(g, s, old, i)
            BY <1>2, <3>1 DEF old
        <3>3. g[n + 1] = g[n] + Len(e)
            <4>1. n + 1 \in 1..(n + 1) /\ (n + 1) - 1 = n
                BY <2>1
            <4> QED BY <2>1, <2>4, <4>1 DEF Begins
        <3>4. Len(flat) = g[Len(v)]
            BY <2>1, <2>3, <3>2, <3>3
        <3>5. ASSUME NEW i \in 1..n PROVE LiesThere(g, v, flat, i)
            <4>1. g[i - 1] \in Nat /\ v[i] = s[i]
                BY <2>1, <3>2 DEF LiesThere
            <4>2. ASSUME NEW j \in 1..Len(s[i])
                  PROVE  g[i - 1] + j \in 1..Len(flat) /\ flat[g[i - 1] + j] = s[i][j]
                <5> DEFINE k == g[i - 1] + j
                <5>1. k \in 1..Len(old) /\ old[k] = s[i][j]
                    BY <3>2 DEF LiesThere
                <5> HIDE DEF k
                <5>2. k \in 1..Len(old) + Len(e) /\ k <= Len(old) /\ k \in 1..Len(flat)
                    BY <2>3, <5>1
                <5>3. flat[k] = s[i][j]
                    BY <2>3, <5>1, <5>2
                <5> QED BY <5>2, <5>3 DEF k
            <4> QED BY <4>1, <4>2 DEF LiesThere
        <3>6. LiesThere(g, v, flat, n + 1)
            <4>1. (n + 1) - 1 = n /\ g[n] \in Nat /\ g[n] = Len(old)
                BY <2>1, <2>3, <3>2
            <4>2. ASSUME NEW j \in 1..Len(e)
                  PROVE  g[n] + j \in 1..Len(flat) /\ flat[g[n] + j] = e[j]
                <5> DEFINE k == g[n] + j
                <5>1. k \in 1..Len(old) + Len(e) /\ ~(k <= Len(old)) /\ k - Len(old) = j
                    BY <2>3, <4>1
                <5> HIDE DEF k
                <5>2. flat[k] = e[j]
                    BY <2>3, <5>1
                <5> QED BY <2>3, <5>1, <5>2 DEF k
            <4> QED BY <2>1, <4>1, <4>2 DEF LiesThere
        <3>7. \A i \in 1..Len(v) : i \in 1..n \/ i = n + 1
            BY <2>1
        <3> QED BY <3>4, <3>5, <3>6, <3>7
    <2>5. Right(v)
        BY <2>4 DEF flat
    <2> QED BY <2>1, <2>5 DEF v
<1> HIDE DEF T
<1>3. Seq(Seq(S)) \subseteq T
    BY <1>1, <1>2, SequenceInduction
<1> QED BY <1>3 DEF T

-----------------------------------------------------------------------------
(* Sums over finite sets.                                                    *)

Pick(s) == CHOOSE x \in s : TRUE
\* The equation of the recursive function that SumFunctionOnSet takes.
AddsUp(g, f, S) ==
    g = [s \in SUBSET S |-> IF s = {} THEN 0 ELSE f[Pick(s)] + g[s \ {Pick(s)}]]

LEMMA SumUnfolds ==
    ASSUME NEW f, NEW S
    PROVE  SumFunctionOnSet(f, S) = (CHOOSE g : AddsUp(g, f, S))[S]
BY DEF SumFunctionOnSet, FoldFunctionOnSet, MapThenFoldSet, AddsUp, Pick

LEMMA Picked ==
    ASSUME NEW s, s # {} PROVE Pick(s) \in s
BY DEF Pick

\* Functions that add alike agree where both are defined.
LEMMA AddsOnce ==
    ASSUME NEW f, NEW U, NEW V, IsFiniteSet(U),
           NEW g, AddsUp(g, f, U), NEW h, AddsUp(h, f, V),
           NEW s \in SUBSET U, s \subseteq V
    PROVE  g[s] = h[s]
<1> DEFINE W == {t \in SUBSET U : t \subseteq V /\ g[t] # h[t]}
<1> SUFFICES ASSUME W # {} PROVE FALSE
    OBVIOUS
<1>1. PICK t \in W : \A x \in t : t \ {x} \notin W
    BY SmallestPart
<1>2. CASE t = {}
    BY <1>1, <1>2 DEF AddsUp
<1>3. CASE t # {}
    <2>1. Pick(t) \in t /\ t \ {Pick(t)} \in SUBSET U /\ t \ {Pick(t)} \subseteq V
        BY <1>3, Picked
    <2>2. g[t \ {Pick(t)}] = h[t \ {Pick(t)}]
        BY <1>1, <2>1
    <2>3. g[t] = f[Pick(t)] + g[t \ {Pick(t)}]
        BY <1>3 DEF AddsUp
    <2>4. h[t] = f[Pick(t)] + h[t \ {Pick(t)}]
        BY <1>1, <1>3 DEF AddsUp
    <2> QED BY <1>1, <2>2, <2>3, <2>4
<1> QED BY <1>2, <1>3

LEMMA AddsExists ==
    ASSUME NEW f, NEW S, IsFiniteSet(S)
    PROVE  \E g : AddsUp(g, f, S)
<1> DEFINE W == {T \in SUBSET S : ~ \E g : AddsUp(g, f, T)}
<1> SUFFICES ASSUME W # {} PROVE FALSE
    OBVIOUS
<1>1. PICK T \in W : IsFiniteSet(T) /\ \A x \in T : T \ {x} \notin W
    BY SmallestPart
<1> DEFINE G(x) == CHOOSE g : AddsUp(g, f, T \ {x})
<1>2. ASSUME NEW x \in T PROVE AddsUp(G(x), f, T \ {x})
    <2>1. \E g : AddsUp(g, f, T \ {x})
        BY <1>1
    <2> QED BY <2>1
<1> DEFINE h == [s \in SUBSET T |-> IF s = {} THEN 0
                                    ELSE f[Pick(s)] + G(Pick(s))[s \ {Pick(s)}]]
<1> HIDE DEF G
<1>3. ASSUME NEW s \in SUBSET T, s # {}
      PROVE  h[s \ {Pick(s)}] = G(Pick(s))[s \ {Pick(s)}]
    <2> DEFINE p == Pick(s)
               u == s \ {p}
               q == Pick(u)
    <2>1. p \in T /\ u \in SUBSET T /\ u \in SUBSET (T \ {p}) /\ AddsUp(G(p), f, T \ {p})
        BY <1>2, <1>3, Picked
    <2>2. CASE u = {}
        BY <2>1, <2>2 DEF AddsUp
    <2>3. CASE u # {}
        <3>1. q \in u /\ q \in T /\ AddsUp(G(q), f, T \ {q})
            BY <1>2, <2>1, <2>3, Picked
        <3>2. h[u] = f[q] + G(q)[u \ {q}]
            BY <2>1, <2>3
        <3>3. G(p)[u] = f[q] + G(p)[u \ {q}]
            BY <2>1, <2>3 DEF AddsUp
        <3>4. G(q)[u \ {q}] = G(p)[u \ {q}]
            <4>1. IsFiniteSet(T \ {q}) /\ u \ {q} \in SUBSET (T \ {q}) /\ u \ {q} \subseteq T \ {p}
                BY <1>1, <2>1, FS_RemoveElement
            <4> HIDE DEF u, q, p
            <4> QED BY <2>1, <3>1, <4>1, AddsOnce
        <3> QED BY <3>2, <3>3, <3>4
    <2> QED BY <2>2, <2>3
<1>4. \A s \in SUBSET T : h[s] = IF s = {} THEN 0 ELSE f[Pick(s)] + h[s \ {Pick(s)}]
    BY <1>3
<1>5. h = [s \in SUBSET T |-> h[s]]
    OBVIOUS
<1>6. AddsUp(h, f, T)
    <2> HIDE DEF h
    <2> QED BY <1>4, <1>5 DEF AddsUp
<1> QED BY <1>1, <1>6

\* The sum over no elements is 0, and over more, what one of them, and the sum
\* over the others, add up to.
LEMMA SumStep ==
    ASSUME NEW f, NEW S, IsFiniteSet(S)
    PROVE  /\ S = {} => SumFunctionOnSet(f, S) = 0
           /\ S # {} => /\ Pick(S) \in S
                        /\ SumFunctionOnSet(f, S) =
                               f[Pick(S)] + SumFunctionOnSet(f, S \ {Pick(S)})
<1> DEFINE G(T) == CHOOSE g : AddsUp(g, f, T)
<1>1. AddsUp(G(S), f, S) /\ SumFunctionOnSet(f, S) = G(S)[S]
    BY AddsExists, SumUnfolds
<1>2. CASE S = {}
    BY <1>1, <1>2 DEF AddsUp
<1>3. CASE S # {}
    <2> DEFINE U == S \ {Pick(S)}
    <2>1. IsFiniteSet(U) /\ U \in SUBSET S
        BY FS_RemoveElement
    <2>2. AddsUp(G(U), f, U) /\ SumFunctionOnSet(f, U) = G(U)[U]
        BY <2>1, AddsExists, SumUnfolds
    <2>3. G(U)[U] = G(S)[U]
        <3>1. U \in SUBSET U /\ U \subseteq S
            OBVIOUS
        <3> HIDE DEF G, U
        <3> QED BY <1>1, <2>1, <2>2, <3>1, AddsOnce
    <2>4. G(S)[S] = f[Pick(S)] + G(S)[U]
        <3> HIDE DEF G
        <3> QED BY <1>1, <1>3 DEF AddsUp
    <2> QED BY <1>1, <1>3, <2>2, <2>3, <2>4, Picked
<1> QED BY <1>2, <1>3

LEMMA SumEmpty ==
    ASSUME NEW f PROVE SumFunctionOnSet(f, {}) = 0
BY SumStep, FS_EmptySet

LEMMA SumType ==
    ASSUME NEW f, NEW S, IsFiniteSet(S), \A x \in S : f[x] \in Int
    PROVE  SumFunctionOnSet(f, S) \in Int
<1> DEFINE W == {T \in SUBSET S : SumFunctionOnSet(f, T) \notin Int}
<1> SUFFICES ASSUME W # {} PROVE FALSE
    OBVIOUS
<1>1. PICK T \in W : IsFiniteSet(T) /\ \A x \in T : T \ {x} \notin W
    BY SmallestPart
<1>2. T # {} /\ Pick(T) \in T
    BY <1>1, SumEmpty, Picked
<1>3. SumFunctionOnSet(f, T \ {Pick(T)}) \in Int
    BY <1>1, <1>2
<1> QED BY <1>1, <1>2, <1>3, SumStep

\* Any element may be taken first.
LEMMA SumTakes ==
    ASSUME NEW f, NEW S, IsFiniteSet(S), \A x \in S : f[x] \in Int, NEW x \in S
    PROVE  SumFunctionOnSet(f, S) = f[x] + SumFunctionOnSet(f, S \ {x})
<1> DEFINE Sum(T) == SumFunctionOnSet(f, T)
           W == {T \in SUBSET S : \E y \in T : Sum(T) # f[y] + Sum(T \ {y})}
<1> SUFFICES ASSUME W # {} PROVE FALSE
    OBVIOUS
<1>1. PICK T \in W : IsFiniteSet(T) /\ \A y \in T : T \ {y} \notin W
    BY SmallestPart
<1>2. PICK y \in T : Sum(T) # f[y] + Sum(T \ {y})
    BY <1>1
<1> DEFINE p == Pick(T)
<1>3. p \in T /\ Sum(T) = f[p] + Sum(T \ {p})
    BY <1>1, <1>2, SumStep
<1>4. p # y
    BY <1>2, <1>3
<1> DEFINE rest == (T \ {p}) \ {y}
<1>5. rest = (T \ {y}) \ {p} /\ IsFiniteSet(rest) /\ rest \subseteq S
    BY <1>1, FS_RemoveElement
<1> HIDE DEF p
<1>6. Sum(T \ {p}) = f[y] + Sum(rest)
    BY <1>1, <1>2, <1>3, <1>4
<1>7. Sum(T \ {y}) = f[p] + Sum(rest)
    <2>1. T \ {y} \notin W /\ T \ {y} \in SUBSET S /\ p \in T \ {y}
        BY <1>1, <1>2, <1>3, <1>4
    <2>2. Sum(T \ {y}) = f[p] + Sum((T \ {y}) \ {p})
        BY <2>1
    <2> QED BY <1>5, <2>2
<1>8. Sum(rest) \in Int /\ f[p] \in Int /\ f[y] \in Int
    BY <1>1, <1>2, <1>3, <1>5, SumType
<1> HIDE DEF rest, Sum
<1> QED BY <1>2, <1>3, <1>6, <1>7, <1>8

\* Sums of three functions, one of which is the others added.
LEMMA SumAdds ==
    ASSUME NEW f, NEW g, NEW h, NEW S, IsFiniteSet(S),
           \A x \in S : f[x] \in Int /\ g[x] \in Int /\ h[x] = f[x] + g[x]
    PROVE  SumFunctionOnSet(h, S) = SumFunctionOnSet(f, S) + SumFunctionOnSet(g, S)
<1> DEFINE W == {T \in SUBSET S : SumFunctionOnSet(h, T)
                                     # SumFunctionOnSet(f, T) + SumFunctionOnSet(g, T)}
<1> SUFFICES ASSUME W # {} PROVE FALSE
    OBVIOUS
<1>1. PICK T \in W : IsFiniteSet(T) /\ \A x \in T : T \ {x} \notin W
    BY SmallestPart
<1>2. CASE T = {}
    BY <1>1, <1>2, SumEmpty
<1>3. CASE T # {}
    <2> DEFINE p == Pick(T)
               U == T \ {p}
    <2>1. /\ p \in T /\ IsFiniteSet(U)
          /\ SumFunctionOnSet(f, T) = f[p] + SumFunctionOnSet(f, U)
          /\ SumFunctionOnSet(g, T) = g[p] + SumFunctionOnSet(g, U)
          /\ SumFunctionOnSet(h, T) = h[p] + SumFunctionOnSet(h, U)
        BY <1>1, <1>3, SumStep, FS_RemoveElement
    <2>2. SumFunctionOnSet(h, U) = SumFunctionOnSet(f, U) + SumFunctionOnSet(g, U)
        BY <1>1, <2>1
    <2>3. SumFunctionOnSet(f, U) \in Int /\ SumFunctionOnSet(g, U) \in Int
        BY <2>1, SumType
    <2>4. f[p] \in Int /\ g[p] \in Int /\ h[p] = f[p] + g[p]
        BY <2>1
    <2> HIDE DEF p, U
    <2> QED BY <1>1, <2>1, <2>2, <2>3, <2>4
<1> QED BY <1>2, <1>3

\* A function that is k on T and 0 elsewhere.
LEMMA SumAlike ==
    ASSUME NEW f, NEW S, IsFiniteSet(S), NEW T \in SUBSET S, NEW k \in Int,
           \A x \in S : f[x] = IF x \in T THEN k ELSE 0
    PROVE  SumFunctionOnSet(f, S) = k * Cardinality(T)
<1> DEFINE Alike(U) == SumFunctionOnSet(f, U) = k * Cardinality(U \cap T)
           W == {U \in SUBSET S : ~ Alike(U)}
<1>1. S \cap T = T
    OBVIOUS
<1> SUFFICES ASSUME W # {} PROVE FALSE
    BY <1>1
<1>2. PICK U \in W : IsFiniteSet(U) /\ \A x \in U : U \ {x} \notin W
    BY SmallestPart
<1>3. CASE U = {}
    BY <1>2, <1>3, SumEmpty, FS_EmptySet
<1>4. CASE U # {}
    <2> DEFINE p == Pick(U)
               V == U \ {p}
    <2>1. p \in U /\ SumFunctionOnSet(f, U) = f[p] + SumFunctionOnSet(f, V)
        BY <1>2, <1>4, SumStep
    <2>2. IsFiniteSet(V \cap T) /\ Cardinality(V \cap T) \in Nat /\ IsFiniteSet(V)
        BY <1>2, FS_RemoveElement, FS_Intersection, FS_CardinalityType
    <2>3. SumFunctionOnSet(f, V) = k * Cardinality(V \cap T)
        BY <1>2, <2>1
    <2>4. CASE p \in T
        <3>1. U \cap T = (V \cap T) \cup {p} /\ p \notin V \cap T
            BY <2>1, <2>4
        <3>2. Cardinality(U \cap T) = Cardinality(V \cap T) + 1
            BY <2>2, <3>1, FS_AddElement
        <3>3. f[p] = k
            BY <2>1, <2>4
        <3> DEFINE c == Cardinality(V \cap T)
        <3>4. k * (c + 1) = k + k * c
            <4> HIDE DEF c, V
            <4>1. c \in Nat
                BY <2>2 DEF c
            <4> QED BY <4>1, Z3
        <3> QED BY <1>2, <2>1, <2>3, <3>2, <3>3, <3>4
    <2>5. CASE p \notin T
        <3>1. U \cap T = V \cap T
            BY <2>1, <2>5
        <3>2. f[p] = 0
            BY <2>1, <2>5
        <3>3. SumFunctionOnSet(f, V) \in Int
            BY <2>2, SumType
        <3> QED BY <1>2, <2>1, <2>3, <3>1, <3>2, <3>3
    <2> QED BY <2>4, <2>5
<1> QED BY <1>3, <1>4

\* No element of a sum of natural numbers is more than the sum, and a sum is no
\* more than one that is as much or more for each element.
LEMMA SumMonotone ==
    ASSUME NEW f, NEW g, NEW S, IsFiniteSet(S),
           \A x \in S : f[x] \in Int /\ g[x] \in Int /\ f[x] <= g[x]
    PROVE  SumFunctionOnSet(f, S) <= SumFunctionOnSet(g, S)
<1> DEFINE W == {T \in SUBSET S : ~ SumFunctionOnSet(f, T) <= SumFunctionOnSet(g, T)}
<1> SUFFICES ASSUME W # {} PROVE FALSE
    OBVIOUS
<1>1. PICK T \in W : IsFiniteSet(T) /\ \A x \in T : T \ {x} \notin W
    BY SmallestPart
<1>2. CASE T = {}
    BY <1>1, <1>2, SumEmpty
<1>3. CASE T # {}
    <2> DEFINE p == Pick(T)
               U == T \ {p}
    <2>1. /\ p \in T /\ IsFiniteSet(U)
          /\ SumFunctionOnSet(f, T) = f[p] + SumFunctionOnSet(f, U)
          /\ SumFunctionOnSet(g, T) = g[p] + SumFunctionOnSet(g, U)
        BY <1>1, <1>3, SumStep, FS_RemoveElement
    <2>2. SumFunctionOnSet(f, U) <= SumFunctionOnSet(g, U)
        BY <1>1, <2>1
    <2>3. SumFunctionOnSet(f, U) \in Int /\ SumFunctionOnSet(g, U) \in Int
        BY <2>1, SumType
    <2>4. f[p] \in Int /\ g[p] \in Int /\ f[p] <= g[p]
        BY <2>1
    <2> HIDE DEF p, U
    <2> QED BY <1>1, <2>1, <2>2, <2>3, <2>4
<1> QED BY <1>2, <1>3

LEMMA SumOfNaturals ==
    ASSUME NEW f, NEW S, IsFiniteSet(S), \A x \in S : f[x] \in Nat
    PROVE  /\ SumFunctionOnSet(f, S) \in Nat
           /\ \A x \in S : f[x] <= SumFunctionOnSet(f, S)
<1>1. ASSUME NEW T \in SUBSET S PROVE SumFunctionOnSet(f, T) \in Nat
    <2> DEFINE zero == [x \in T |-> 0]
    <2>1. IsFiniteSet(T)
        BY FS_Subset
    <2>2. SumFunctionOnSet(zero, T) = 0
        <3>1. /\ {} \in SUBSET T /\ 0 \in Int
              /\ \A x \in T : zero[x] = IF x \in {} THEN 0 ELSE 0
            OBVIOUS
        <3>2. SumFunctionOnSet(zero, T) = 0 * Cardinality({})
            <4> HIDE DEF zero
            <4> QED BY <2>1, <3>1, SumAlike
        <3> QED BY <3>2, FS_EmptySet
    <2>3. \A x \in T : zero[x] \in Int /\ f[x] \in Int /\ zero[x] <= f[x]
        OBVIOUS
    <2>4. SumFunctionOnSet(zero, T) <= SumFunctionOnSet(f, T)
        <3> HIDE DEF zero
        <3> QED BY <2>1, <2>3, SumMonotone
    <2>5. SumFunctionOnSet(f, T) \in Int
        BY <2>1, SumType
    <2> QED BY <2>2, <2>4, <2>5
<1>2. ASSUME NEW x \in S PROVE f[x] <= SumFunctionOnSet(f, S)
    <2>1. SumFunctionOnSet(f, S) = f[x] + SumFunctionOnSet(f, S \ {x})
        BY SumTakes
    <2>2. SumFunctionOnSet(f, S \ {x}) \in Nat /\ f[x] \in Nat
        BY <1>1
    <2> QED BY <2>1, <2>2
<1> QED BY <1>1, <1>2
=============================================================================
