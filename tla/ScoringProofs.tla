--------------------------- MODULE ScoringProofs ---------------------------
(***************************************************************************)
(* Theorems about Scoring, for every number of teams, services, rounds and  *)
(* checks and tokens in a round.                                            *)
(***************************************************************************)
EXTENDS Scoring, FiniteSetTheorems, DataInduction, TLAPS

\* Integer division: the shares and the remainder are the stake.
LEMMA Division ==
    ASSUME NEW a \in Nat, NEW n \in Nat \ {0}
    PROVE  /\ a \div n \in Nat /\ a % n \in 0..(n - 1)
           /\ a - (a \div n) * n = a % n
BY Z3

LEMMA Multiply ==
    ASSUME NEW a \in Nat, NEW n \in Nat
    PROVE  a * n \in Nat /\ a * (n + 1) = a * n + a
BY Z3

\* What is staked is no more than the team has, nor than the limit.
LEMMA StakeBounds ==
    ASSUME NEW owned \in Nat
    PROVE  Stake(owned) \in Nat /\ Stake(owned) <= owned /\ Stake(owned) <= Limit
BY LimitAssumption DEF Stake, MinOf

\* Teams that share are so many, and more than none.
LEMMA Sharers ==
    ASSUME NEW T, T \subseteq Participant
    PROVE  /\ IsFiniteSet(T) /\ Cardinality(T) \in Nat
           /\ T # {} => Cardinality(T) \in Nat \ {0}
<1>1. IsFiniteSet(T) /\ Cardinality(T) \in Nat
  BY TeamsAssumption, FS_Subset, FS_CardinalityType
<1>2. T # {} => Cardinality(T) # 0
  BY <1>1, FS_EmptySet
<1> QED BY <1>1, <1>2

-----------------------------------------------------------------------------
Unsplittable ==
    \A s \in Service : recipients[s] # {} => flags[s][House] < Cardinality(recipients[s])

\* Between services the remainders have been shared, once a first one is done.
SharedBetween ==
    pc = "play" \/ (pc = "services" /\ services # Service) => Unsplittable

IInv == TypeOK /\ LossBounded /\ SharedBetween

LEMMA IInvTypes ==
    ASSUME IInv
    PROVE  /\ House \in Holder /\ Participant \subseteq Holder /\ Limit \in Nat \ {0}
           /\ \A s \in Service, h \in Holder :
                  flags[s][h] \in Nat /\ dealt[s][h] \in Nat /\ charged[s][h] \in Nat
           /\ \A s \in Service : recipients[s] \subseteq Participant
BY LimitAssumption DEF IInv, TypeOK, Holder

\* What movements and shares have in common as the ledger sees them.
Shape(s) == Ledger!OnePays(s) /\ Ledger!GainersAlike(s) /\ Ledger!NoneMadeOrLost(s)

FlagSum(f) == SumFunctionOnSet(f, Holder)

LEMMA HoldersFinite == IsFiniteSet(Holder)
BY TeamsAssumption, FS_AddElement DEF Holder

\* The ledger's sum is the library's.
LEMMA SumOfLedger ==
    ASSUME NEW f
    PROVE  Ledger!SumFunction(f) = SumFunctionOnSet(f, DOMAIN f)
<1>1. Ledger!SumFunctionOnSet(f, DOMAIN f) = SumFunctionOnSet(f, DOMAIN f)
  BY DEF SumFunctionOnSet, FoldFunctionOnSet, MapThenFoldSet, Ledger!SumFunctionOnSet,
         Ledger!FoldFunctionOnSet, Ledger!MapThenFoldSet
<1> QED BY <1>1 DEF Ledger!SumFunction

LEMMA SumOfFlags ==
    ASSUME NEW s \in Service, flags \in [Service -> [Holder -> Nat]],
           flags' \in [Service -> [Holder -> Nat]], FlagSum(flags'[s]) = FlagSum(flags[s])
    PROVE  Ledger!NoneMadeOrLost(s)
<1>1. DOMAIN flags[s] = Holder /\ DOMAIN flags'[s] = Holder
  OBVIOUS
<1> QED BY <1>1, SumOfLedger DEF Ledger!NoneMadeOrLost, FlagSum

\* k flags for each of T, k for one, what two functions add up to.
Each(f, T, k) ==
    T \subseteq Holder /\ k \in Nat /\ \A h \in Holder : f[h] = IF h \in T THEN k ELSE 0
One(f, p, k) ==
    p \in Holder /\ k \in Nat /\ \A h \in Holder : f[h] = IF h = p THEN k ELSE 0
Total(f, g, h) ==
    \A x \in Holder : f[x] \in Int /\ g[x] \in Int /\ h[x] = f[x] + g[x]
\* f becomes g: the payer pays the flags that are gained.
Moved(f, g, gain, payer, paid) ==
    /\ f \in [Holder -> Nat] /\ g \in [Holder -> Nat] /\ gain \in [Holder -> Nat]
    /\ payer \in Holder /\ paid \in Nat /\ FlagSum(gain) = paid
    /\ \A h \in Holder : g[h] = f[h] + gain[h] - (IF h = payer THEN paid ELSE 0)

\* Teams T of which each gains k gain k times their number.
LEMMA GainsAlike ==
    ASSUME NEW f, NEW T, NEW k, Each(f, T, k)
    PROVE  FlagSum(f) = k * Cardinality(T)
<1>1. T \in SUBSET Holder /\ k \in Int /\ \A h \in Holder : f[h] = IF h \in T THEN k ELSE 0
  BY DEF Each
<1> QED BY <1>1, HoldersFinite, SumAlike DEF FlagSum

LEMMA GainOfOne ==
    ASSUME NEW f, NEW p, NEW k, One(f, p, k)
    PROVE  FlagSum(f) = k
<1>1. Each(f, {p}, k)
  BY DEF One, Each
<1>2. FlagSum(f) = k * Cardinality({p})
  BY <1>1, GainsAlike
<1>3. Cardinality({p}) = 1
  BY FS_Singleton
<1>4. k * 1 = k
  BY DEF One
<1> QED BY <1>2, <1>3, <1>4

LEMMA FlagsAdd ==
    ASSUME NEW f, NEW g, NEW h, Total(f, g, h)
    PROVE  FlagSum(h) = FlagSum(f) + FlagSum(g) /\ FlagSum(f) \in Int /\ FlagSum(g) \in Int
<1>1. \A x \in Holder : f[x] \in Int /\ g[x] \in Int /\ h[x] = f[x] + g[x]
  BY DEF Total
<1>2. FlagSum(h) = FlagSum(f) + FlagSum(g)
  BY <1>1, HoldersFinite, SumAdds DEF FlagSum
<1> QED BY <1>1, <1>2, HoldersFinite, SumType DEF FlagSum

\* What one holder pays, and no more, is gained.
LEMMA MovedSum ==
    ASSUME NEW f, NEW g, NEW gain, NEW payer, NEW paid, Moved(f, g, gain, payer, paid)
    PROVE  FlagSum(g) = FlagSum(f)
<1> DEFINE loss == [h \in Holder |-> IF h = payer THEN paid ELSE 0]
           before == [h \in Holder |-> f[h] + gain[h]]
<1>1. One(loss, payer, paid)
  BY DEF One, Moved
<1>2. Total(f, gain, before) /\ Total(g, loss, before)
  <2>1. \A h \in Holder : /\ f[h] \in Nat /\ g[h] \in Nat /\ gain[h] \in Nat /\ paid \in Nat
                          /\ g[h] = f[h] + gain[h] - (IF h = payer THEN paid ELSE 0)
    BY DEF Moved
  <2> QED BY <2>1 DEF Total
<1> HIDE DEF loss, before
<1>3. FlagSum(before) = FlagSum(f) + FlagSum(gain) /\ FlagSum(f) \in Int
  BY <1>2, FlagsAdd
<1>4. FlagSum(before) = FlagSum(g) + FlagSum(loss) /\ FlagSum(g) \in Int
  BY <1>2, FlagsAdd
<1>5. FlagSum(loss) = paid /\ FlagSum(gain) = paid /\ paid \in Int
  BY <1>1, GainOfOne DEF Moved
<1> QED BY <1>3, <1>4, <1>5

\* A movement of no more than the payer has, nor than the limit, in which teams
\* that gain gain k each, keeps the types and the bound and is the ledger's.
LEMMA MoveStep ==
    ASSUME IInv, NEW s \in Service, NEW payer \in Holder, NEW paid \in Nat,
           paid <= flags[s][payer], paid <= Limit,
           NEW gain \in [Holder -> Nat], NEW k \in Nat,
           \A h \in Participant : gain[h] \in {0, k},
           payer \in Participant => gain[payer] = 0, FlagSum(gain) = paid,
           Move(s, payer, paid, gain), dealt' = dealt
    PROVE  /\ flags' \in [Service -> [Holder -> Nat]]
           /\ charged' \in [Service -> [Holder -> Nat]]
           /\ LossBounded'
           /\ \A z \in Service : Shape(z)
<1> USE IInvTypes
<1> DEFINE loss(h) == IF h = payer THEN paid ELSE 0
<1>1. \A z \in Service, h \in Holder :
          flags'[z][h] = IF z = s THEN flags[s][h] + gain[h] - loss(h) ELSE flags[z][h]
  BY DEF Move, IInv, TypeOK
<1>2. \A z \in Service, h \in Holder :
          charged'[z][h] = IF z = s /\ h = payer THEN charged[z][h] + 1 ELSE charged[z][h]
  BY DEF Move, IInv, TypeOK
<1>3. ASSUME NEW h \in Holder PROVE flags[s][h] + gain[h] - loss(h) \in Nat
  <2>1. flags[s][h] \in Nat /\ gain[h] \in Nat
    OBVIOUS
  <2>2. CASE h = payer
    BY <2>1, <2>2
  <2>3. CASE h # payer
    BY <2>1, <2>3
  <2> QED BY <2>2, <2>3
<1>4. flags' \in [Service -> [Holder -> Nat]]
  <2>1. [h \in Holder |-> flags[s][h] + gain[h] - loss(h)] \in [Holder -> Nat]
    BY <1>3
  <2> QED BY <2>1 DEF Move, IInv, TypeOK
<1>5. charged' \in [Service -> [Holder -> Nat]]
  <2>1. [h \in Holder |-> charged[s][h] + (IF h = payer THEN 1 ELSE 0)] \in [Holder -> Nat]
    <3>1. ASSUME NEW h \in Holder PROVE charged[s][h] + (IF h = payer THEN 1 ELSE 0) \in Nat
      OBVIOUS
    <3> QED BY <3>1
  <2> QED BY <2>1 DEF Move, IInv, TypeOK
<1>6. LossBounded'
  <2>1. ASSUME NEW z \in Service, NEW p \in Participant
        PROVE  flags'[z][p] + Limit * charged'[z][p] >= dealt[z][p]
    <3>1. flags[z][p] + Limit * charged[z][p] >= dealt[z][p]
      BY DEF IInv, LossBounded
    <3>2. CASE z = s /\ p = payer
      <4>1. charged'[z][p] = charged[z][p] + 1 /\ flags'[z][p] >= flags[z][p] - Limit
        BY <1>1, <1>2, <3>2
      <4>2. Limit * charged'[z][p] = Limit * charged[z][p] + Limit
            /\ Limit * charged[z][p] \in Nat
        BY <4>1, Multiply
      <4>3. flags'[z][p] \in Nat
        BY <1>4
      <4> QED BY <3>1, <4>1, <4>2, <4>3
    <3>3. CASE ~(z = s /\ p = payer)
      <4>1. charged'[z][p] = charged[z][p] /\ flags'[z][p] >= flags[z][p]
        BY <1>1, <1>2, <3>3
      <4>2. Limit * charged[z][p] \in Nat /\ flags'[z][p] \in Nat
        BY <1>4, Multiply
      <4> QED BY <3>1, <4>1, <4>2
    <3> QED BY <3>2, <3>3
  <2> QED BY <2>1 DEF LossBounded
<1>7. ASSUME NEW z \in Service PROVE Shape(z)
  <2>1. \A h \in Holder : flags'[z][h] - flags[z][h] =
                              IF z = s THEN gain[h] - loss(h) ELSE 0
    BY <1>1, <1>7
  <2>2. \A h \in Holder \ {payer} : flags'[z][h] - flags[z][h] >= 0
    BY <2>1
  <2>3. \A h \in Holder \ {House} :
            flags'[z][h] - flags[z][h] > 0 => flags'[z][h] - flags[z][h] = k
    BY <2>1 DEF Holder
  <2>4. FlagSum(flags'[z]) = FlagSum(flags[z])
    <3>1. CASE z = s
      <4>1. flags[s] \in [Holder -> Nat] /\ flags'[s] \in [Holder -> Nat]
        BY <1>4 DEF IInv, TypeOK
      <4>2. \A h \in Holder : flags'[s][h] = flags[s][h] + gain[h] - (IF h = payer THEN paid ELSE 0)
        BY <1>1
      <4>3. Moved(flags[s], flags'[s], gain, payer, paid)
        BY <4>1, <4>2 DEF Moved
      <4>4. FlagSum(flags'[s]) = FlagSum(flags[s])
        BY <4>3, MovedSum
      <4> QED BY <3>1, <4>4
    <3>2. CASE z # s
      BY <3>2 DEF Move, IInv, TypeOK
    <3> QED BY <3>1, <3>2
  <2>5. Ledger!NoneMadeOrLost(z)
    BY <1>4, <2>4, SumOfFlags DEF IInv, TypeOK
  <2> QED BY <2>2, <2>3, <2>5 DEF Shape, Ledger!OnePays, Ledger!GainersAlike, Ledger!Gain
<1> QED BY <1>4, <1>5, <1>6, <1>7

\* Flags that nothing touches are a movement of the ledger, too.
LEMMA StillStep ==
    ASSUME IInv, flags' = flags
    PROVE  \A s \in Service : Shape(s)
<1>1. \A s \in Service, h \in Holder : flags'[s][h] - flags[s][h] = 0
  BY IInvTypes
<1>2. \A s \in Service : Ledger!NoneMadeOrLost(s)
  BY DEF Ledger!NoneMadeOrLost
<1> QED BY <1>1, <1>2, IInvTypes DEF Shape, Ledger!OnePays, Ledger!GainersAlike, Ledger!Gain, Holder

\* One service's redistribution: the house keeps less than there are teams, none
\* of which loses.
LEMMA RedistributedStep ==
    ASSUME IInv, NEW s \in Service, NEW T, T \subseteq Participant
    PROVE  LET new == Redistributed(s, T) IN
           /\ new \in [Holder -> Nat]
           /\ \A p \in Participant : new[p] >= flags[s][p]
           /\ T # {} => new[House] < Cardinality(T)
           /\ \E k \in Nat : \A p \in Participant : new[p] - flags[s][p] \in {0, k}
           /\ FlagSum(new) = FlagSum(flags[s])
<1> DEFINE new == Redistributed(s, T)
<1> DEFINE n == Cardinality(T)
<1> DEFINE owned == flags[s][House]
<1> USE IInvTypes
<1>1. flags[s] \in [Holder -> Nat] /\ owned \in Nat /\ n \in Nat /\ (T # {} => n \in Nat \ {0})
  BY Sharers DEF IInv, TypeOK
<1>2. CASE ~SharedOut(owned, n)
  <2>1. new = flags[s]
    BY <1>2 DEF Redistributed
  <2>2. T # {} => owned < n
    BY <1>1, <1>2 DEF SharedOut, Splittable
  <2>3. \A p \in Participant : new[p] = flags[s][p] /\ flags[s][p] \in Nat
    BY <2>1
  <2> QED BY <1>1, <2>1, <2>2, <2>3
<1>3. CASE SharedOut(owned, n)
  <2>1. n \in Nat \ {0}
    BY <1>1, <1>3 DEF SharedOut
  <2> DEFINE bounty == owned \div n
  <2>2. bounty \in Nat /\ owned - bounty * n \in 0..(n - 1)
    BY <1>1, <2>1, Division
  <2>3. new = [h \in Holder |-> CASE h \in T   -> flags[s][h] + bounty
                                  [] h = House -> owned - bounty * n
                                  [] OTHER     -> flags[s][h]]
    BY <1>3 DEF Redistributed
  <2> HIDE DEF new, bounty, n, owned
  <2>4. \A p \in T : new[p] = flags[s][p] + bounty
    BY <2>3, HouseAssumption
  <2>5. \A p \in Participant \ T : new[p] = flags[s][p]
    BY <2>3, HouseAssumption
  <2>6. new[House] = owned - bounty * n
    BY <2>3, HouseAssumption
  <2>7. \A h \in Holder : new[h] \in Nat
    BY <2>2, <2>4, <2>5, <2>6, <2>1 DEF Holder
  <2>8. new \in [Holder -> Nat]
    BY <2>3, <2>7
  <2>9. \A p \in Participant : new[p] >= flags[s][p] /\ new[p] - flags[s][p] \in {0, bounty}
    BY <2>2, <2>4, <2>5
  <2>10. new[House] < n
    BY <2>1, <2>2, <2>6
  <2>11. FlagSum(new) = FlagSum(flags[s])
    <3> DEFINE gain == [h \in Holder |-> IF h \in T THEN bounty ELSE 0]
    <3>1. \A h \in Holder : gain[h] \in Nat /\ gain[h] = IF h \in T THEN bounty ELSE 0
      BY <2>2
    <3> HIDE DEF gain
    <3>2. FlagSum(gain) = bounty * n
      <4>1. Each(gain, T, bounty)
        BY <2>2, <3>1 DEF Each
      <4> QED BY <4>1, GainsAlike DEF n
    <3>3. bounty * n \in Nat
      BY <2>1, <2>2, Multiply
    <3>4. \A h \in Holder :
              new[h] = flags[s][h] + gain[h] - (IF h = House THEN bounty * n ELSE 0)
      <4>1. ASSUME NEW h \in T PROVE h \in Participant /\ h # House
        BY HouseAssumption
      <4>2. gain[House] = 0
        BY <3>1, HouseAssumption
      <4>3. \A h \in Participant : h # House
        BY HouseAssumption
      <4>4. new[House] = flags[s][House] + gain[House] - bounty * n
        BY <2>6, <3>3, <4>2, <1>1 DEF owned
      <4>5. \A h \in T : new[h] = flags[s][h] + gain[h]
        BY <2>4, <3>1
      <4>6. \A h \in Participant \ T : new[h] = flags[s][h] + gain[h]
        BY <2>5, <3>1
      <4> QED BY <3>1, <4>3, <4>4, <4>5, <4>6 DEF Holder
    <3>5. gain \in [Holder -> Nat]
      BY <2>2 DEF gain
    <3>6. Moved(flags[s], new, gain, House, bounty * n)
      BY <1>1, <2>8, <3>2, <3>3, <3>4, <3>5 DEF Moved
    <3> QED BY <3>6, MovedSum
  <2> QED BY <2>2, <2>8, <2>9, <2>10, <2>11 DEF new, n
<1> QED BY <1>2, <1>3

-----------------------------------------------------------------------------
LEMMA InitInv == Init => IInv
<1> SUFFICES ASSUME Init PROVE IInv
  OBVIOUS
<1>1. /\ flags \in [Service -> [Holder -> Nat]]
      /\ charged \in [Service -> [Holder -> Nat]]
  <2>1. [h \in Holder |-> IF h = House THEN 0 ELSE Tranche] \in [Holder -> Nat]
    BY LimitAssumption
  <2> QED BY <2>1 DEF Init, NobodyCharged
<1>2. TypeOK
  BY <1>1 DEF Init, TypeOK
<1>3. LossBounded
  <2>1. ASSUME NEW s \in Service, NEW p \in Participant
        PROVE  flags[s][p] + Limit * charged[s][p] >= dealt[s][p]
    <3>1. charged[s][p] = 0 /\ dealt[s][p] = flags[s][p] /\ flags[s][p] \in Nat
      BY <1>1 DEF Init, NobodyCharged, Holder
    <3>2. Limit * 0 = 0
      BY LimitAssumption
    <3> QED BY <3>1, <3>2
  <2> QED BY <2>1 DEF LossBounded
<1>4. SharedBetween
  BY DEF Init, SharedBetween, Unsplittable
<1> QED BY <1>2, <1>3, <1>4 DEF IInv

\* What every step keeps and what each does to the flags.
Good == IInv' /\ \A s \in Service : Shape(s)

\* A processed candidate's movement, whichever it is.
LEMMA MovementStep ==
    ASSUME IInv, NEW payer \in Holder, NEW paid \in Nat,
           paid <= flags[cur][payer], paid <= Limit,
           NEW gain \in [Holder -> Nat], NEW k \in Nat,
           \A h \in Participant : gain[h] \in {0, k},
           payer \in Participant => gain[payer] = 0, FlagSum(gain) = paid,
           Move(cur, payer, paid, gain),
           pc = "movements", cands' \subseteq cands,
           UNCHANGED <<pc, round, services, cur, referee, recipients, dealt>>
    PROVE  Good
<1>1. cur \in Service
  BY DEF IInv, TypeOK
<1>2. /\ flags' \in [Service -> [Holder -> Nat]]
      /\ charged' \in [Service -> [Holder -> Nat]]
      /\ LossBounded'
      /\ \A z \in Service : Shape(z)
  BY <1>1, MoveStep
<1>3. TypeOK'
  BY <1>2 DEF IInv, TypeOK
<1>4. SharedBetween'
  BY DEF SharedBetween
<1> QED BY <1>2, <1>3, <1>4 DEF Good, IInv

LEMMA Parking ==
    ASSUME IInv, NEW c \in cands, DistributeParking(c)
    PROVE  Good
<1> DEFINE stake == Stake(flags[cur][c.team])
<1> DEFINE gain == [h \in Holder |-> IF h = House THEN stake ELSE 0]
<1>1. c.team \in Holder /\ c.team # House /\ cur \in Service
  BY DEF DistributeParking, Spared, IInv, TypeOK, Candidate
<1>2. stake \in Nat /\ stake <= flags[cur][c.team] /\ stake <= Limit
  BY <1>1, IInvTypes, StakeBounds
<1>3. Move(cur, c.team, stake, gain)
  BY DEF DistributeParking
<1> HIDE DEF stake
<1>4. gain \in [Holder -> Nat] /\ \A h \in Participant : gain[h] \in {0, 0}
  BY <1>2, IInvTypes, HouseAssumption
<1>5. c.team \in Participant => gain[c.team] = 0
  BY <1>4
<1>7. FlagSum(gain) = stake
  <2>1. One(gain, House, stake)
    BY <1>2, IInvTypes DEF One
  <2> HIDE DEF gain
  <2> QED BY <2>1, GainOfOne
<1>6. /\ pc = "movements" /\ cands' \subseteq cands
      /\ UNCHANGED <<pc, round, services, cur, referee, recipients, dealt>>
  BY DEF DistributeParking
<1> HIDE DEF gain
<1> QED BY <1>1, <1>2, <1>3, <1>4, <1>5, <1>6, <1>7, MovementStep

LEMMA Everywhere ==
    ASSUME IInv, NEW c \in cands, DistributeEverywhere(c)
    PROVE  Good
<1> DEFINE others == Participant \ {c.team}
<1> DEFINE n == MinOf(Stake(flags[cur][c.team]), Cardinality(others))
<1>1. c.team \in Holder /\ cur \in Service
  BY DEF IInv, TypeOK, Candidate
<1>2. n \in Nat /\ n <= flags[cur][c.team] /\ n <= Limit
  <2>1. /\ Stake(flags[cur][c.team]) \in Nat /\ Stake(flags[cur][c.team]) <= flags[cur][c.team]
        /\ Stake(flags[cur][c.team]) <= Limit
    BY <1>1, IInvTypes, StakeBounds
  <2>2. Cardinality(others) \in Nat
    BY Sharers
  <2> QED BY <1>1, <2>1, <2>2, IInvTypes DEF MinOf
<1>3. PICK lucky \in kSubset(n, others) :
          Move(cur, c.team, n, [h \in Holder |-> IF h \in lucky THEN 1 ELSE 0])
  BY DEF DistributeEverywhere
<1>4. lucky \subseteq Participant /\ c.team \notin lucky
  BY <1>3 DEF kSubset
<1> DEFINE gain == [h \in Holder |-> IF h \in lucky THEN 1 ELSE 0]
<1>5. Move(cur, c.team, n, gain)
  BY <1>3
<1> HIDE DEF n
<1>6. gain \in [Holder -> Nat] /\ \A h \in Participant : gain[h] \in {0, 1}
  BY IInvTypes
<1>7. gain[c.team] = 0
  BY <1>1, <1>4
<1>9. FlagSum(gain) = n
  <2>1. lucky \subseteq Holder /\ Cardinality(lucky) = n
    BY <1>3, <1>4, IInvTypes DEF kSubset
  <2>2. Each(gain, lucky, 1)
    BY <2>1 DEF Each
  <2>3. FlagSum(gain) = 1 * n
    <3> HIDE DEF gain
    <3> QED BY <2>1, <2>2, GainsAlike
  <2> QED BY <1>2, <2>3
<1>8. /\ pc = "movements" /\ cands' \subseteq cands
      /\ UNCHANGED <<pc, round, services, cur, referee, recipients, dealt>>
  BY DEF DistributeEverywhere
<1> HIDE DEF gain
<1> QED BY <1>1, <1>2, <1>5, <1>6, <1>7, <1>8, <1>9, MovementStep

LEMMA Settling ==
    ASSUME IInv, NEW c \in cands, NEW redeemers \in (SUBSET (Participant \ {c.team})) \ {{}},
           ProcessToken(c, redeemers)
    PROVE  Good
<1> DEFINE stake == Stake(flags[cur][c.team])
<1> DEFINE n == Cardinality(redeemers)
<1> DEFINE share == stake \div n
<1> DEFINE rest == Remainder(stake, n)
<1>1. c.team \in Holder /\ cur \in Service
  BY DEF IInv, TypeOK, Candidate
<1>2. stake \in Nat /\ stake <= flags[cur][c.team] /\ stake <= Limit
  BY <1>1, IInvTypes, StakeBounds
<1>3. redeemers \subseteq Participant /\ c.team \notin redeemers /\ n \in Nat \ {0}
  <2>1. redeemers \subseteq Participant /\ c.team \notin redeemers /\ redeemers # {}
    OBVIOUS
  <2> QED BY <2>1, Sharers
<1> HIDE DEF stake, n
<1>4. share \in Nat /\ rest \in Nat /\ share * n + rest = stake
  <2>1. /\ stake \div n \in Nat /\ stake % n \in 0..(n - 1)
        /\ stake - (stake \div n) * n = stake % n
    BY <1>2, <1>3, Division
  <2>2. (stake \div n) * n \in Nat
    BY <1>3, <2>1, Multiply
  <2> QED BY <1>2, <1>3, <2>1, <2>2 DEF Remainder
<1> DEFINE gain == [h \in Holder |-> (IF h \in redeemers THEN share ELSE 0)
                                     + (IF h = House THEN rest ELSE 0)]
<1>5. Move(cur, c.team, stake, gain)
  BY DEF ProcessToken, stake, n
<1> HIDE DEF share, rest
<1>6. \A h \in Holder : gain[h] = (IF h \in redeemers THEN share ELSE 0)
                                  + (IF h = House THEN rest ELSE 0)
  OBVIOUS
<1>7. gain \in [Holder -> Nat]
  <2>1. \A h \in Holder : (IF h \in redeemers THEN share ELSE 0)
                          + (IF h = House THEN rest ELSE 0) \in Nat
    BY <1>4
  <2> QED BY <2>1
<1> HIDE DEF gain
<1>8. \A h \in Participant : gain[h] = IF h \in redeemers THEN share ELSE 0
  BY <1>4, <1>6, IInvTypes, HouseAssumption
<1>9. /\ \A h \in Participant : gain[h] \in {0, share}
      /\ c.team \in Participant => gain[c.team] = 0
  BY <1>3, <1>8
<1>11. FlagSum(gain) = stake
  <2> DEFINE shares == [h \in Holder |-> IF h \in redeemers THEN share ELSE 0]
             rests  == [h \in Holder |-> IF h = House THEN rest ELSE 0]
  <2>1. \A h \in Holder : /\ shares[h] = IF h \in redeemers THEN share ELSE 0
                          /\ rests[h] = IF h = House THEN rest ELSE 0
                          /\ gain[h] = shares[h] + rests[h]
                          /\ shares[h] \in Int /\ rests[h] \in Int
    BY <1>4, <1>6
  <2> HIDE DEF shares, rests
  <2>2. Each(shares, redeemers, share) /\ One(rests, House, rest)
        /\ Total(shares, rests, gain)
    BY <1>3, <1>4, <2>1, IInvTypes DEF Each, One, Total
  <2>3. FlagSum(shares) = share * n
    BY <2>2, GainsAlike DEF n
  <2>4. FlagSum(rests) = rest
    BY <2>2, GainOfOne
  <2>5. FlagSum(gain) = FlagSum(shares) + FlagSum(rests)
    BY <2>2, FlagsAdd
  <2> QED BY <1>4, <2>3, <2>4, <2>5
<1>10. /\ pc = "movements" /\ cands' \subseteq cands
       /\ UNCHANGED <<pc, round, services, cur, referee, recipients, dealt>>
  BY DEF ProcessToken
<1> QED BY <1>1, <1>2, <1>4, <1>5, <1>7, <1>9, <1>10, <1>11, MovementStep

LEMMA Redistributing ==
    ASSUME IInv, NEW to \in [Service -> SUBSET Participant], Redistribute(to)
    PROVE  Good
<1> USE IInvTypes
<1>1. \A s \in Service : to[s] \subseteq Participant
  OBVIOUS
<1>2. /\ flags' = [s \in Service |-> Redistributed(s, to[s])]
      /\ recipients' = to /\ pc' = "services"
      /\ UNCHANGED <<round, services, cur, referee, cands, dealt, charged>>
  BY DEF Redistribute
<1>3. ASSUME NEW s \in Service
      PROVE  /\ flags'[s] \in [Holder -> Nat]
             /\ \A p \in Participant : flags'[s][p] >= flags[s][p]
             /\ to[s] # {} => flags'[s][House] < Cardinality(to[s])
             /\ \E k \in Nat : \A p \in Participant : flags'[s][p] - flags[s][p] \in {0, k}
             /\ FlagSum(flags'[s]) = FlagSum(flags[s])
  <2>1. flags'[s] = Redistributed(s, to[s])
    BY <1>2
  <2> QED BY <1>1, <2>1, RedistributedStep
<1>4. flags' \in [Service -> [Holder -> Nat]]
  BY <1>2, <1>3
<1>5. TypeOK'
  BY <1>2, <1>4 DEF IInv, TypeOK
<1>6. LossBounded'
  <2>1. ASSUME NEW s \in Service, NEW p \in Participant
        PROVE  flags'[s][p] + Limit * charged[s][p] >= dealt[s][p]
    <3>1. flags[s][p] + Limit * charged[s][p] >= dealt[s][p]
      BY DEF IInv, LossBounded
    <3>2. Limit * charged[s][p] \in Nat
      BY Multiply
    <3>3. flags'[s][p] \in Nat /\ flags'[s][p] >= flags[s][p]
      BY <1>3, <1>4
    <3> QED BY <3>1, <3>2, <3>3
  <2> QED BY <1>2, <2>1 DEF LossBounded
<1>7. SharedBetween'
  BY <1>2, <1>3 DEF SharedBetween, Unsplittable
<1>8. ASSUME NEW s \in Service PROVE Shape(s)
  <2>1. PICK k \in Nat : \A p \in Participant : flags'[s][p] - flags[s][p] \in {0, k}
    BY <1>3
  <2>2. \A h \in Holder \ {House} : flags'[s][h] - flags[s][h] >= 0
    BY <1>3, <1>4, <2>1 DEF Holder
  <2>3. \A h \in Holder \ {House} :
            flags'[s][h] - flags[s][h] > 0 => flags'[s][h] - flags[s][h] = k
    BY <2>1 DEF Holder
  <2>4. Ledger!NoneMadeOrLost(s)
    BY <1>3, <1>4, SumOfFlags DEF IInv, TypeOK
  <2> QED BY <2>2, <2>3, <2>4 DEF Shape, Ledger!OnePays, Ledger!GainersAlike, Ledger!Gain
<1> QED BY <1>5, <1>6, <1>7, <1>8 DEF Good, IInv

LEMMA StepInv == IInv /\ [Next]_vars => Good
<1> SUFFICES ASSUME IInv, [Next]_vars PROVE Good
  OBVIOUS
<1>1. CASE FinalizeRound
  <2>1. TypeOK'
    BY <1>1 DEF FinalizeRound, NobodyCharged, IInv, TypeOK
  <2>2. LossBounded'
    <3>1. ASSUME NEW s \in Service, NEW p \in Participant
          PROVE  flags'[s][p] + Limit * charged'[s][p] >= dealt'[s][p]
      <4>1. charged'[s][p] = 0 /\ dealt'[s][p] = flags'[s][p] /\ flags'[s][p] \in Nat
        BY <1>1, IInvTypes DEF FinalizeRound, NobodyCharged
      <4>2. Limit * 0 = 0
        BY LimitAssumption
      <4> QED BY <4>1, <4>2
    <3> QED BY <3>1 DEF LossBounded
  <2>3. SharedBetween'
    BY <1>1 DEF FinalizeRound, SharedBetween
  <2>4. flags' = flags
    BY <1>1 DEF FinalizeRound
  <2> QED BY <2>1, <2>2, <2>3, <2>4, StillStep DEF Good, IInv
<1>2. CASE RoundDone
  <2>1. TypeOK' /\ LossBounded' /\ flags' = flags
    BY <1>2 DEF RoundDone, IInv, TypeOK, LossBounded
  <2>2. services # Service
    BY <1>2 DEF RoundDone, IInv, TypeOK
  <2>3. SharedBetween'
    BY <1>2, <2>2 DEF RoundDone, IInv, SharedBetween, Unsplittable
  <2> QED BY <2>1, <2>3, StillStep DEF Good, IInv
<1>3. ASSUME NEW s \in Service, FinalizeService(s) PROVE Good
  <2>1. cands' \subseteq Candidate
    BY <1>3 DEF FinalizeService, kSubset
  <2>2. TypeOK' /\ LossBounded' /\ flags' = flags
    BY <1>3, <2>1 DEF FinalizeService, IInv, TypeOK, LossBounded
  <2>3. SharedBetween'
    BY <1>3 DEF FinalizeService, SharedBetween
  <2> QED BY <2>2, <2>3, StillStep DEF Good, IInv
<1>4. ASSUME NEW c \in cands, ProcessSpared(c) PROVE Good
  <2>1. TypeOK' /\ LossBounded' /\ SharedBetween' /\ flags' = flags
    BY <1>4 DEF ProcessSpared, IInv, TypeOK, LossBounded, SharedBetween
  <2> QED BY <2>1, StillStep DEF Good, IInv
<1>5. CASE UNCHANGED vars
  <2>1. TypeOK' /\ LossBounded' /\ SharedBetween' /\ flags' = flags
    BY <1>5 DEF vars, IInv, TypeOK, LossBounded, SharedBetween, Unsplittable
  <2> QED BY <2>1, StillStep DEF Good, IInv
<1> QED
  BY <1>1, <1>2, <1>3, <1>4, <1>5, Parking, Everywhere, Settling, Redistributing
     DEF Next, Process

LEMMA InvHolds == Spec => []IInv
<1>1. IInv /\ [Next]_vars => IInv'
  BY StepInv DEF Good
<1> QED BY <1>1, InitInv, PTL DEF Spec

\* Nobody ever owes flags: every holder's count is a natural number, whatever
\* is charged in whatever order (Availability and Token#process_movements).
THEOREM NobodyOwesFlags == Spec => []TypeOK
<1>1. IInv => TypeOK
  BY DEF IInv
<1> QED BY <1>1, InvHolds, PTL

\* In a round's end a team loses no more than the limit for each of its failed
\* checks and redeemed tokens (the limits of Availability and Token).
THEOREM LossIsBounded == Spec => []LossBounded
<1>1. IInv => LossBounded
  BY DEF IInv
<1> QED BY <1>1, InvHolds, PTL

\* A round's end leaves the house fewer flags of a service than there are teams
\* to share them (TokenRedistributor, run by the last service's finalizer too).
THEOREM NothingLeftToSplit == Spec => []RemainderUnsplittable
<1>1. IInv => RemainderUnsplittable
  BY DEF IInv, SharedBetween, Unsplittable, RemainderUnsplittable
<1> QED BY <1>1, InvHolds, PTL

\* The scoring implements the ledger: flags are neither made nor lost, and move
\* only as FlagLedger says, in every movement and every sharing of finalize!.
THEOREM ScoringIsLedger == Spec => LedgerSpec
<1>1. Init => Ledger!Init
  <2> SUFFICES ASSUME Init PROVE Ledger!Init
    OBVIOUS
  <2> QED BY InitInv DEF IInv, TypeOK, Ledger!Init
<1>2. IInv /\ [Next]_vars => [Ledger!Next]_flags
  <2> SUFFICES ASSUME IInv, [Next]_vars PROVE Ledger!Next
    OBVIOUS
  <2> QED BY StepInv DEF Good, Shape, IInv, TypeOK, Ledger!Next
<1> QED BY <1>1, <1>2, InvHolds, PTL DEF Spec, LedgerSpec, Ledger!Spec

-----------------------------------------------------------------------------
(* The standings.                                                            *)

\* The equation of the locals of as_standings_json's pass over the first rows.
Pass(l, scores, flagCount, rows) ==
    l = [i \in 0..rows |-> IF i = 0 THEN Unplaced(flagCount) ELSE Placed(l[i - 1], scores[i])]

LEMMA PassExists ==
    ASSUME NEW scores, NEW flagCount
    PROVE  \A rows \in Nat : \E l : Pass(l, scores, flagCount, rows)
<1> DEFINE T == {n \in Nat : \E l : Pass(l, scores, flagCount, n)}
<1>1. 0 \in T
  <2> DEFINE l == [i \in 0..0 |-> Unplaced(flagCount)]
  <2>1. l = [i \in 0..0 |-> IF i = 0 THEN Unplaced(flagCount) ELSE Placed(l[i - 1], scores[i])]
    OBVIOUS
  <2>2. Pass(l, scores, flagCount, 0)
    BY <2>1 DEF Pass
  <2> QED BY <2>2
<1>2. ASSUME NEW n \in Nat, n \in T PROVE n + 1 \in T
  <2>1. PICK l : Pass(l, scores, flagCount, n)
    BY <1>2
  <2> DEFINE m == [i \in 0..(n + 1) |-> IF i = n + 1 THEN Placed(l[n], scores[i]) ELSE l[i]]
  <2>2. \A i \in 0..n : m[i] = l[i] /\ l[i] = IF i = 0 THEN Unplaced(flagCount)
                                              ELSE Placed(l[i - 1], scores[i])
    BY <2>1 DEF Pass
  <2>3. ASSUME NEW i \in 0..(n + 1)
        PROVE  m[i] = IF i = 0 THEN Unplaced(flagCount) ELSE Placed(m[i - 1], scores[i])
    <3>1. CASE i = n + 1
      <4>1. m[n + 1] = Placed(l[n], scores[n + 1])
        OBVIOUS
      <4>2. m[n] = l[n] /\ i - 1 = n /\ i # 0
        BY <2>2, <3>1
      <4> HIDE DEF m
      <4> QED BY <3>1, <4>1, <4>2
    <3>2. CASE i \in 1..n
      <4>1. i - 1 \in 0..n /\ i \in 0..n /\ i # 0
        BY <3>2
      <4>2. m[i] = l[i] /\ m[i - 1] = l[i - 1]
        BY <2>2, <4>1
      <4> QED BY <2>2, <4>1, <4>2
    <3>3. CASE i = 0
      <4>1. 0 \in 0..n
        OBVIOUS
      <4>2. m[0] = Unplaced(flagCount)
        BY <2>2, <4>1
      <4> HIDE DEF m
      <4> QED BY <3>3, <4>2
    <3> QED BY <3>1, <3>2, <3>3
  <2>4. m = [i \in 0..(n + 1) |-> m[i]]
    OBVIOUS
  <2>5. Pass(m, scores, flagCount, n + 1)
    <3> HIDE DEF m
    <3> QED BY <2>3, <2>4 DEF Pass
  <2> QED BY <2>5
<1> HIDE DEF T
<1>3. Nat \subseteq T
  BY <1>1, <1>2, NaturalInduction
<1> QED BY <1>3 DEF T

LEMMA PlacesUnfold ==
    ASSUME NEW scores, NEW flagCount
    PROVE  Places(scores, flagCount) =
               [i \in DOMAIN scores |->
                   (CHOOSE l : Pass(l, scores, flagCount, Len(scores)))[i].place]
BY DEF Places, Pass

\* What the pass knows after row i: that the first of the rows as good as this
\* one has this one's place, and how many rows further it has come.
Knows(l, scores, rows, i) ==
    /\ l[i] \in [place: Nat, prev_score: Nat, place_buf: Nat]
    /\ l[i].prev_score = scores[i]
    /\ l[i].place + l[i].place_buf = i + 1
    /\ l[i].place \in 1..i
    /\ \A j \in 1..rows : scores[j] > scores[i] <=> j < l[i].place

LEMMA PassKnows ==
    ASSUME NEW rows \in Nat, NEW scores \in [1..rows -> Nat], NEW flagCount \in Nat,
           \A i, j \in 1..rows : i < j => scores[i] >= scores[j],
           \A i \in 1..rows : scores[i] <= flagCount,
           NEW l, Pass(l, scores, flagCount, rows)
    PROVE  \A i \in 1..rows : Knows(l, scores, rows, i)
<1> DEFINE T == {n \in Nat : n \in 1..rows => Knows(l, scores, rows, n)}
<1>1. 0 \in T
  OBVIOUS
<1>2. ASSUME NEW n \in Nat, n \in T PROVE n + 1 \in T
  <2> SUFFICES ASSUME n + 1 \in 1..rows PROVE Knows(l, scores, rows, n + 1)
    OBVIOUS
  <2> DEFINE i == n + 1
             new == scores[i]
             old == l[n]
  <2>1. i \in 0..rows /\ n \in 0..rows /\ i - 1 = n /\ i # 0 /\ new \in Nat
    OBVIOUS
  <2>2. l[i] = Placed(old, new)
    BY <2>1 DEF Pass
  <2>3. /\ old \in [place: Nat, prev_score: Nat, place_buf: Nat]
        /\ old.place + old.place_buf = i
        /\ old.place <= n
    <3>1. CASE n = 0
      <4>1. old = Unplaced(flagCount)
        BY <2>1, <3>1 DEF Pass
      <4> QED BY <3>1, <4>1 DEF Unplaced
    <3>2. CASE n # 0
      <4>1. Knows(l, scores, rows, n)
        BY <1>2, <2>1, <3>2
      <4> QED BY <4>1 DEF Knows
    <3> QED BY <3>1, <3>2
  <2>4. CASE new < old.prev_score
    <3>1. l[i] = [place |-> old.place + old.place_buf, prev_score |-> new, place_buf |-> 1]
      BY <2>2, <2>4 DEF Placed, Better
    <3>2. \A j \in 1..rows : scores[j] > new <=> j < i
      <4>1. ASSUME NEW j \in 1..rows, j < i PROVE scores[j] > new
        <5>1. n # 0 /\ n \in 1..rows /\ old.prev_score = scores[n] /\ j <= n
          BY <1>2, <2>1, <4>1 DEF Knows
        <5>2. scores[j] >= scores[n] /\ scores[j] \in Nat /\ scores[n] \in Nat
          BY <5>1
        <5> QED BY <2>1, <2>4, <5>1, <5>2
      <4>2. ASSUME NEW j \in 1..rows, ~(j < i) PROVE ~(scores[j] > new)
        <5>1. j = i \/ i < j
          BY <4>2
        <5>2. scores[j] <= new /\ scores[j] \in Nat
          BY <5>1
        <5> QED BY <2>1, <5>2
      <4> QED BY <4>1, <4>2
    <3>3. l[i].place = i /\ l[i].place_buf = 1 /\ l[i].prev_score = new
          /\ l[i] \in [place: Nat, prev_score: Nat, place_buf: Nat]
      BY <2>1, <2>3, <3>1
    <3> QED BY <3>2, <3>3 DEF Knows
  <2>5. CASE ~(new < old.prev_score)
    <3>1. l[i] = [old EXCEPT !.place_buf = @ + 1]
      BY <2>2, <2>5 DEF Placed, Better
    <3>2. n # 0
      <4>1. n = 0 => old = Unplaced(flagCount)
        BY <2>1 DEF Pass
      <4>2. new <= flagCount /\ new \in Nat
        BY <2>1
      <4>3. Unplaced(flagCount).prev_score = flagCount + 1
        BY DEF Unplaced
      <4> HIDE DEF new, old
      <4> QED BY <2>5, <4>1, <4>2, <4>3
    <3>3. n \in 1..rows /\ Knows(l, scores, rows, n)
      BY <1>2, <2>1, <3>2
    <3>4. scores[n] = new
      <4>1. scores[n] >= new /\ scores[n] \in Nat
        BY <3>3
      <4> QED BY <2>1, <2>5, <3>3, <4>1 DEF Knows
    <3>5. /\ l[i].place = old.place /\ l[i].prev_score = old.prev_score
          /\ l[i].place_buf = old.place_buf + 1
          /\ l[i] \in [place: Nat, prev_score: Nat, place_buf: Nat]
      <4> HIDE DEF old, i
      <4> QED BY <2>3, <3>1
    <3> QED BY <2>1, <2>3, <3>3, <3>4, <3>5 DEF Knows
  <2> QED BY <2>4, <2>5
<1> HIDE DEF T
<1>3. Nat \subseteq T
  BY <1>1, <1>2, NaturalInduction
<1> QED BY <1>3 DEF T

\* A team's flags, and all the flags there are.
LEMMA Scores ==
    ASSUME TypeOK
    PROVE  FlagCount \in Nat /\ \A t \in Participant : Score(t) \in Nat /\ Score(t) <= FlagCount
<1> DEFINE all == [s \in Service |-> SumFunction(flags[s])]
<1>1. ASSUME NEW s \in Service
      PROVE  all[s] \in Nat /\ \A h \in Holder : flags[s][h] \in Nat /\ flags[s][h] <= all[s]
  <2>1. DOMAIN flags[s] = Holder /\ \A h \in Holder : flags[s][h] \in Nat
    BY DEF TypeOK
  <2>2. all[s] = SumFunctionOnSet(flags[s], Holder)
    BY <2>1 DEF SumFunction
  <2> HIDE DEF all
  <2> QED BY <2>1, <2>2, HoldersFinite, SumOfNaturals
<1>2. FlagCount = SumFunctionOnSet(all, Service)
  BY DEF FlagCount, SumFunction
<1> HIDE DEF all
<1>3. FlagCount \in Nat
  BY <1>1, <1>2, ServicesAssumption, SumOfNaturals
<1>4. ASSUME NEW t \in Participant PROVE Score(t) \in Nat /\ Score(t) <= FlagCount
  <2> DEFINE own == [s \in Service |-> flags[s][t]]
  <2>1. \A s \in Service : own[s] \in Nat /\ own[s] <= all[s] /\ all[s] \in Nat
    BY <1>1 DEF Holder
  <2>2. Score(t) = SumFunctionOnSet(own, Service)
    BY DEF Score, SumFunction
  <2> HIDE DEF own
  <2>3. Score(t) \in Nat
    BY <2>1, <2>2, ServicesAssumption, SumOfNaturals
  <2>4. \A s \in Service : own[s] \in Int /\ all[s] \in Int /\ own[s] <= all[s]
    BY <2>1
  <2>5. Score(t) <= FlagCount
    BY <1>2, <2>2, <2>4, ServicesAssumption, SumMonotone
  <2> QED BY <2>3, <2>5
<1> QED BY <1>3, <1>4

LEMMA BoardPlaces ==
    ASSUME TypeOK PROVE PlaceCountsBetterTeams
<1> SUFFICES ASSUME NEW board \in Scoreboard
    PROVE  LET places == Places([i \in DOMAIN board |-> Score(board[i])], FlagCount)
           IN  \A i \in DOMAIN board :
                   places[i] = 1 + Cardinality({t \in Participant : Score(t) > Score(board[i])})
  BY DEF PlaceCountsBetterTeams
<1> DEFINE rows == Cardinality(Participant)
           scores == [i \in DOMAIN board |-> Score(board[i])]
<1>1. /\ rows \in Nat
      /\ board \in [1..rows -> Participant] /\ DOMAIN board = 1..rows
      /\ \A i, j \in 1..rows : board[i] = board[j] => i = j
      /\ \A t \in Participant : \E i \in 1..rows : board[i] = t
      /\ \A i, j \in 1..rows : i < j => Score(board[i]) >= Score(board[j])
  BY TeamsAssumption, FS_CardinalityType
     DEF Scoreboard, Bijection, Injection, Surjection, IsInjective
<1>2. /\ scores \in [1..rows -> Nat] /\ DOMAIN scores = 1..rows /\ Len(scores) = rows
      /\ \A i \in 1..rows : scores[i] = Score(board[i])
  <2>1. \A i \in 1..rows : Score(board[i]) \in Nat
    BY <1>1, Scores
  <2>2. scores \in Seq(Nat) /\ Len(scores) = rows
    BY <1>1, <2>1
  <2> QED BY <1>1, <2>1, <2>2
<1> HIDE DEF scores, rows
<1> DEFINE l == CHOOSE k : Pass(k, scores, FlagCount, rows)
<1>3. Pass(l, scores, FlagCount, rows)
  BY <1>1, PassExists
<1>4. \A i \in 1..rows : Places(scores, FlagCount)[i] = l[i].place
  BY <1>2, PlacesUnfold
<1> HIDE DEF l
<1>5. \A i \in 1..rows : Knows(l, scores, rows, i)
  <2>1. \A i, j \in 1..rows : i < j => scores[i] >= scores[j]
    BY <1>1, <1>2
  <2>2. FlagCount \in Nat /\ \A i \in 1..rows : scores[i] <= FlagCount
    BY <1>1, <1>2, Scores
  <2> QED BY <1>1, <1>2, <1>3, <2>1, <2>2, PassKnows
<1>6. ASSUME NEW i \in 1..rows
      PROVE  l[i].place = 1 + Cardinality({t \in Participant : Score(t) > Score(board[i])})
  <2> DEFINE place == l[i].place
             better == {t \in Participant : Score(t) > Score(board[i])}
             first == 1..(place - 1)
             f == [j \in first |-> board[j]]
  <2>1. place \in 1..i /\ \A j \in 1..rows : Score(board[j]) > Score(board[i]) <=> j < place
    BY <1>2, <1>5 DEF Knows
  <2>2. first \subseteq 1..rows /\ \A j \in 1..rows : j < place <=> j \in first
    BY <1>1, <2>1
  <2> HIDE DEF place, first
  <2>3. f \in [first -> better]
    BY <1>1, <2>1, <2>2
  <2>4. \A j, k \in first : f[j] = f[k] => j = k
    BY <1>1, <2>2
  <2>5. \A t \in better : \E j \in first : f[j] = t
    BY <1>1, <2>1, <2>2
  <2> HIDE DEF f, better
  <2>6. ExistsBijection(first, better)
    BY <2>3, <2>4, <2>5 DEF ExistsBijection, Bijection, Injection, Surjection, IsInjective
  <2>7. IsFiniteSet(first) /\ Cardinality(first) = place - 1
    BY <2>1, FS_Interval DEF first
  <2>8. Cardinality(better) = place - 1
    BY <2>6, <2>7, FS_Bijection
  <2> QED BY <2>1, <2>8 DEF place, better
<1> QED BY <1>1, <1>4, <1>6 DEF scores

\* At any moment the pass of as_standings_json over the scoreboard gives every
\* team the place that one more than the number of better teams is, whatever the
\* number of teams and ties, and in whatever order equal teams are listed.
THEOREM PlacesCountBetterTeams == Spec => []PlaceCountsBetterTeams
<1>1. IInv => PlaceCountsBetterTeams
  BY BoardPlaces DEF IInv
<1> QED BY <1>1, InvHolds, PTL
=============================================================================
