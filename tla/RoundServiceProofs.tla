------------------------- MODULE RoundServiceProofs -------------------------
(***************************************************************************)
(* Theorems about RoundService, for every number of teams, services, web   *)
(* processes, rounds, crashes and toggles, and every token lifetime.       *)
(*                                                                         *)
(* One inductive invariant, IInv, carries them: the types, the open round, *)
(* what the service's program counter says of its transaction (Control),   *)
(* and the shape of every settlement, committed or not (Settling).         *)
(***************************************************************************)
EXTENDS RoundService, TLAPS

Active == {"commence", "waiting", "finalize", "settle", "commit"}
InTx == {"finalize", "settle", "commit"}

\* The program counter against the transaction and the bounds.
Control ==
    /\ rounds <= MaxRounds + final
    /\ final > 0 => pc \in {"boot", "down", "stopped"}
    /\ pc \in InTx => tx.open
    /\ tx.open => pc \in InTx \cup {"commence"}
    /\ ~tx.open => tx = NoTx
    /\ tx.starts => rounds < MaxRounds
    /\ pc # "settle" => cands = {}
    /\ pc = "commence" => tx.settlements = {}
    /\ pc # "finalize" /\ pc # "settle" => services = {}

\* The token a settlement of round r is about belongs to the round expiring in r.
Shaped(x) == x.token.round = ExpiringRound(x.round)
Unique(S) == \A x, y \in S : x.token = y.token /\ x.round = y.round => x = y

Settling ==
    /\ \A x \in settlements : Shaped(x) /\ x.round \in Finalized /\ x.round <= rounds
    /\ Unique(settlements)
    /\ \A x \in tx.settlements :
           /\ Shaped(x) /\ x.round = cur
           /\ x.token \notin cands /\ x.token.instance.service \notin services
    /\ Unique(tx.settlements)
    /\ \A t \in cands : t.round = ExpiringRound(cur) /\ t.instance.service \notin services

IInv == TypeOK /\ OneRoundOpen /\ Control /\ Settling

-----------------------------------------------------------------------------
\* Round.current is the one open round, or 0: no step of the proof has to look
\* into the maximum it chooses.
LEMMA CurrentIsOpen ==
    ASSUME rounds \in Nat, Open \subseteq {rounds}
    PROVE  /\ Open = {} => Current = 0
           /\ Open # {} => Open = {rounds} /\ Current = rounds /\ rounds > 0
           /\ Current \in 0..rounds
<1>1. Open \subseteq 1..rounds
    BY DEF Open
<1>2. CASE Open = {}
    BY <1>2 DEF Current
<1>3. CASE Open # {}
    <2>1. Open = {rounds} /\ rounds > 0
        <3>1. PICK r : r \in Open
            BY <1>3
        <3>2. r = rounds /\ r \in 1..rounds
            BY <1>1, <3>1
        <3>3. Open = {r}
            BY <3>1, <3>2
        <3> QED BY <3>2, <3>3
    <2>2. \E r \in Open : \A q \in Open : q <= r
        BY <2>1
    <2>3. Current = CHOOSE r \in Open : \A q \in Open : q <= r
        BY <1>3 DEF Current
    <2>4. Current \in Open
        BY <2>2, <2>3
    <2> QED BY <2>1, <2>4
<1> QED BY <1>2, <1>3

\* Who is paid and who shares are teams.
LEMMA RedeemersAreTeams ==
    ASSUME TypeOK
    PROVE  /\ \A t : Redeemers(t) \subseteq Team
           /\ \A r, s : RoundRedeemers(r, s) \subseteq Team
BY DEF TypeOK, Redemption, Redeemers, RoundRedeemers


\* While the service works on a round, that round is the open one.
LEMMA ActiveRound ==
    ASSUME IInv, pc \in Active
    PROVE  /\ cur = rounds /\ rounds \in 1..MaxRounds /\ cur \in Round
           /\ final = 0 /\ Open = {cur}
           /\ rounds + 1 \in Round
<1>1. final = 0
    BY DEF IInv, Control, Active, TypeOK, FinalRounds
<1>2. Open = {rounds} /\ cur = rounds
    BY <1>1 DEF IInv, OneRoundOpen, Active
<1>3. rounds \in Nat /\ rounds <= MaxRounds
    BY <1>1, BoundAssumption DEF IInv, TypeOK, Control, FinalRounds
<1>4. rounds \in 1..rounds
    BY <1>2 DEF Open
<1> QED BY <1>1, <1>2, <1>3, <1>4, BoundAssumption DEF Round, FinalRounds

\* A step keeps the types.
LEMMA TypeStep == IInv /\ [Next]_vars => TypeOK'
<1> SUFFICES ASSUME IInv, [Next]_vars
             PROVE  TypeOK'
    OBVIOUS
<1> USE BoundAssumption DEF FinalRounds
<1>r. rounds \in Nat /\ cur \in Nat /\ final \in Nat
    BY DEF IInv, TypeOK
<1>c. final = 0 => Current \in 0..rounds
    BY <1>r, CurrentIsOpen DEF IInv, OneRoundOpen
<1>d. ASSUME (FinalizeBegins /\ cur' = cur /\ pc \in Active) \/ due' = due
      PROVE  due' \subseteq Due
    <2>1. CASE FinalizeBegins /\ pc \in Active
        BY <2>1, ActiveRound DEF FinalizeBegins, IInv, TypeOK, Due
    <2> QED BY <1>d, <2>1 DEF IInv, TypeOK
<1>1. CASE PressEnter
    <2>1. rounds + 1 \in Round
        BY <1>1, <1>r DEF PressEnter, Round
    <2>2. opened' \subseteq Round
        BY <1>1, <2>1 DEF IInv, TypeOK, PressEnter
    <2>3. ended' \subseteq 1..rounds'
        BY <1>1, <1>r DEF IInv, TypeOK, PressEnter
    <2>4. rounds' \in 0..(MaxRounds + FinalRounds) /\ cur' \in 0..rounds'
        BY <1>1, <1>r DEF PressEnter
    <2> QED BY <1>1, <2>2, <2>3, <2>4 DEF IInv, TypeOK, PressEnter, adminVars, obsVars
<1>2. ASSUME NEW i \in Instance, CommenceVisit(i)
      PROVE  TypeOK'
    <2> DEFINE new == IF i.service \in enabled
                      THEN {[instance |-> i, round |-> IF tx.open THEN rounds + 1 ELSE cur]}
                      ELSE {}
    <2>1. new \subseteq Token
        BY <1>2, ActiveRound DEF Active, CommenceVisit, Token
    <2> HIDE DEF new
    <2>2. tx' = [tx EXCEPT !.tokens = @ \cup new] \/ tx' = tx
        BY <1>2 DEF CommenceVisit, new
    <2>3. tokens' \subseteq Token
        BY <1>2, <2>1 DEF IInv, TypeOK, CommenceVisit, new
    <2> QED BY <1>2, <1>r, <2>1, <2>2, <2>3
            DEF IInv, TypeOK, CommenceVisit, adminVars, obsVars
<1>3. CASE CommenceDone
    <2>1. /\ services' \subseteq Service /\ pc' \in {"finalize", "loop"}
          /\ (FinalizeBegins /\ cur' = cur /\ pc \in Active) \/ due' = due
        BY <1>3 DEF IInv, TypeOK, CommenceDone, FinalizeBegins, Active
    <2> QED BY <1>3, <1>r, <1>d, <2>1 DEF IInv, TypeOK, CommenceDone, dbVars, adminVars
<1>4. CASE LoopTop
    BY <1>4, <1>r, <1>c DEF IInv, TypeOK, LoopTop, Control, dbVars, adminVars, obsVars
<1>5. CASE EndRound
    <2>1. /\ services' \subseteq Service /\ pc' \in {"finalize", "commence"} /\ todo' \subseteq Instance
          /\ (FinalizeBegins /\ cur' = cur /\ pc \in Active) \/ due' = due
        BY <1>5 DEF IInv, TypeOK, EndRound, FinalizeBegins, Active
    <2> QED BY <1>5, <1>r, <1>d, <2>1 DEF IInv, TypeOK, EndRound, NoTx, dbVars, adminVars
<1>6. ASSUME NEW s \in Service, FinalizeService(s)
      PROVE  TypeOK'
    BY <1>6, <1>r DEF IInv, TypeOK, FinalizeService, Unfinalized, ExpiringTokens, dbVars, adminVars, obsVars
<1>7. ASSUME NEW t \in cands, SettleToken(t)
      PROVE  TypeOK'
    <2>1. [round |-> cur, token |-> t, paid |-> Redeemers(t)] \in Settlement
        BY <1>7, ActiveRound, RedeemersAreTeams
           DEF IInv, TypeOK, SettleToken, Active, Settlement
    <2> QED BY <1>7, <1>r, <2>1 DEF IInv, TypeOK, SettleToken, dbVars, adminVars, obsVars
<1>8. CASE Redistribute
    <2>1. \A s \in enabled :
              [round |-> cur, service |-> s, recipients |-> RoundRedeemers(cur, s)]
                  \in Redistribution
        BY <1>8, ActiveRound, RedeemersAreTeams
           DEF IInv, TypeOK, Redistribute, Active, Redistribution
    <2> QED BY <1>8, <1>r, <2>1 DEF IInv, TypeOK, Redistribute, dbVars, adminVars, obsVars
<1>9. CASE Publish
    <2>1. cur \in Round
        BY <1>9, ActiveRound DEF Publish, Active
    <2> QED BY <1>9, <1>r, <2>1 DEF IInv, TypeOK, Publish, dbVars, adminVars
<1>10. CASE Commit
    <2>1. cur \in 1..rounds
        BY <1>10, ActiveRound DEF Commit, Active
    <2>2. rounds' \in 0..(MaxRounds + FinalRounds) /\ rounds <= rounds'
        BY <1>10, <1>r DEF IInv, TypeOK, Commit, Control
    <2>3. ended' \subseteq 1..rounds' /\ cur' \in 0..rounds'
        BY <1>10, <1>r, <2>1, <2>2 DEF IInv, TypeOK, Commit
    <2>4. tx' \in [open: BOOLEAN, starts: BOOLEAN, tokens: SUBSET Token,
                   settlements: SUBSET Settlement, redistributions: SUBSET Redistribution]
        BY <1>10 DEF Commit, NoTx
    <2>5. /\ tokens' \subseteq Token /\ settlements' \subseteq Settlement
          /\ redistributions' \subseteq Redistribution
        BY <1>10 DEF IInv, TypeOK, Commit
    <2>6. roundOver' \in BOOLEAN /\ pc' \in {"loop", "stopped"}
        BY <1>10 DEF Commit
    <2> QED BY <1>10, <2>2, <2>3, <2>4, <2>5, <2>6
            DEF IInv, TypeOK, Commit, adminVars, obsVars
<1>11. CASE Crash
    BY <1>11, <1>r DEF IInv, TypeOK, Crash, NoTx, dbVars, adminVars, obsVars
<1>12. CASE Restart
    BY <1>12, <1>r DEF IInv, TypeOK, Restart, dbVars, adminVars, obsVars
<1>13. CASE NewDay
    BY <1>13, <1>r DEF IInv, TypeOK, NewDay, dbVars, obsVars
<1>14. CASE RoundTimeUp
    BY <1>14, <1>r DEF IInv, TypeOK, RoundTimeUp, dbVars, svcVars, adminVars, obsVars
<1>15. CASE DayTimeUp
    BY <1>15, <1>r DEF IInv, TypeOK, DayTimeUp, dbVars, svcVars, obsVars
<1>16. CASE FinalCalculation
    <2>1. rounds' = rounds + 1 /\ rounds + 1 \in Round /\ final' \in 0..FinalRounds
        BY <1>16, <1>r DEF IInv, Control, FinalCalculation, Round
    <2>2. ended' \subseteq 1..rounds' /\ cur' \in 0..rounds'
        BY <1>16, <1>r, <2>1 DEF IInv, TypeOK, FinalCalculation, svcVars
    <2>3. settlements' \subseteq Settlement
        BY <1>16, <2>1, RedeemersAreTeams
           DEF IInv, TypeOK, FinalCalculation, Settlement, ExpiringTokens
    <2>4. redistributions' \subseteq Redistribution
        BY <1>16, <2>1, RedeemersAreTeams DEF IInv, TypeOK, FinalCalculation, Redistribution
    <2>5. announced' \subseteq Round /\ rounds' \in 0..(MaxRounds + FinalRounds)
        BY <1>16, <1>r, <2>1 DEF IInv, TypeOK, FinalCalculation, Round
    <2>6. due' \subseteq Due
        BY <1>16, <2>1 DEF IInv, TypeOK, FinalCalculation, Due
    <2> QED BY <1>16, <2>1, <2>2, <2>3, <2>4, <2>5, <2>6
            DEF IInv, TypeOK, FinalCalculation, svcVars, adminVars
<1>17. ASSUME NEW s \in Service, Toggle(s)
      PROVE  TypeOK'
    BY <1>17, <1>r DEF IInv, TypeOK, Toggle, dbVars, svcVars, obsVars
<1>18. ASSUME NEW p \in Web, NEW team \in Team, NEW t \in tokens \cup tx.tokens,
              Begin(p, team, t)
      PROVE  TypeOK'
    <2>1. Current \in Round \cup {0} /\ rounds \in Round \cup {0}
        BY <1>18, <1>r, <1>c DEF IInv, TypeOK, Begin, Round
    <2>2. t \in Token
        BY DEF IInv, TypeOK
    <2>3. [pc |-> "begun", team |-> team, token |-> t, round |-> Current, seen |-> rounds]
              \in Request
        BY <2>1, <2>2 DEF Request
    <2>4. web' \in [Web -> Request \cup {NoRequest}]
        BY <1>18, <2>3 DEF IInv, TypeOK, Begin
    <2> QED BY <1>18, <1>r, <2>4 DEF IInv, TypeOK, Begin, dbVars, svcVars, adminVars, obsVars
<1>19. ASSUME NEW p \in Web, Check(p)
      PROVE  TypeOK'
    BY <1>19, <1>r DEF IInv, TypeOK, Check, Request, NoRequest, dbVars, svcVars, adminVars, obsVars
<1>20. ASSUME NEW p \in Web, Create(p)
      PROVE  TypeOK'
    BY <1>20, <1>r DEF IInv, TypeOK, Create, Insertable, Request, NoRequest, Redemption,
                       svcVars, adminVars
<1>21. CASE UNCHANGED vars
    BY <1>21, <1>r DEF IInv, TypeOK, vars, dbVars, svcVars, adminVars, obsVars
<1> QED
    BY <1>1, <1>2, <1>3, <1>4, <1>5, <1>6, <1>7, <1>8, <1>9, <1>10, <1>11, <1>12, <1>13,
       <1>14, <1>15, <1>16, <1>17, <1>18, <1>19, <1>20, <1>21 DEF Next, Serve, Redeem

\* A step leaves at most one round open, the last one.
LEMMA OneRoundStep == IInv /\ [Next]_vars => OneRoundOpen'
<1> SUFFICES ASSUME IInv, [Next]_vars
             PROVE  OneRoundOpen'
    OBVIOUS
<1>r. rounds \in Nat /\ final \in Nat
    BY BoundAssumption DEF IInv, TypeOK, FinalRounds
<1>1. CASE PressEnter
    <2>1. Open = {}
        BY <1>1, <1>r, CurrentIsOpen DEF IInv, OneRoundOpen, PressEnter, MustStart
    <2>2. ended' = ended /\ ended \subseteq 1..rounds /\ rounds' = rounds + 1
        BY <1>1 DEF IInv, TypeOK, PressEnter
    <2>3. Open' = {rounds'}
        BY <1>r, <2>1, <2>2 DEF Open
    <2> QED BY <1>1, <2>3 DEF OneRoundOpen, PressEnter
<1>2. CASE LoopTop
    <2>1. Open = {rounds} /\ Current = rounds
        BY <1>2, <1>r, CurrentIsOpen DEF IInv, OneRoundOpen, LoopTop
    <2>2. Open' = Open /\ rounds' = rounds /\ cur' = Current /\ pc' = "waiting"
        BY <1>2 DEF LoopTop, Open, dbVars
    <2> QED BY <2>1, <2>2 DEF OneRoundOpen
<1>3. CASE Commit
    <2>1. Open = {cur} /\ cur = rounds
        BY <1>3, ActiveRound DEF Commit, Active
    <2>2. ended' = ended \cup {cur} /\ rounds' = IF tx.starts THEN rounds + 1 ELSE rounds
        BY <1>3 DEF Commit
    <2>3. ended \subseteq 1..rounds
        BY DEF IInv, TypeOK
    <2>4. CASE tx.starts
        <3>1. Open' = {rounds'}
            BY <1>r, <2>1, <2>2, <2>3, <2>4 DEF Open
        <3> QED BY <1>3, <2>4, <3>1 DEF OneRoundOpen, Commit
    <2>5. CASE ~tx.starts
        <3>1. Open' = {}
            BY <1>r, <2>1, <2>2, <2>3, <2>5 DEF Open
        <3> QED BY <1>3, <2>5, <3>1 DEF OneRoundOpen, Commit
    <2> QED BY <2>4, <2>5
<1>4. CASE FinalCalculation
    BY <1>4, <1>r DEF OneRoundOpen, FinalCalculation
<1>5. ASSUME UNCHANGED <<rounds, ended, cur, final>>, pc' \in Active \cup {"loop"} => pc \in Active \cup {"loop"} /\ (pc = "loop" => pc' = "loop")
      PROVE  OneRoundOpen'
    BY <1>5 DEF IInv, OneRoundOpen, Open, Active
<1>6. ASSUME NEW i \in Instance, CommenceVisit(i)
      PROVE  OneRoundOpen'
    BY <1>5, <1>6 DEF CommenceVisit
<1>7. CASE CommenceDone
    BY <1>5, <1>7 DEF CommenceDone, Active, dbVars
<1>8. CASE EndRound
    BY <1>5, <1>8 DEF EndRound, Active, dbVars
<1>9. CASE (\E s \in Service : FinalizeService(s)) \/ (\E t \in cands : SettleToken(t))
    BY <1>5, <1>9 DEF FinalizeService, SettleToken, Active, dbVars
<1>10. CASE Redistribute \/ Publish
    BY <1>5, <1>10 DEF Redistribute, Publish, Active, dbVars
<1>11. CASE Crash \/ Restart \/ NewDay
    BY <1>11 DEF IInv, OneRoundOpen, Open, Crash, Restart, NewDay, dbVars
<1>12. CASE RoundTimeUp \/ DayTimeUp \/ \E s \in Service : Toggle(s)
    BY <1>5, <1>12 DEF RoundTimeUp, DayTimeUp, Toggle, dbVars, svcVars
<1>13. CASE Redeem
    BY <1>5, <1>13 DEF Redeem, Begin, Check, Create, dbVars, svcVars
<1>14. CASE UNCHANGED vars
    BY <1>5, <1>14 DEF vars, dbVars, svcVars
<1> QED
    BY <1>1, <1>2, <1>3, <1>4, <1>6, <1>7, <1>8, <1>9, <1>10, <1>11, <1>12, <1>13, <1>14
       DEF Next, Serve

\* A step keeps the program counter and the transaction together.
LEMMA ControlStep == IInv /\ [Next]_vars => Control'
<1> SUFFICES ASSUME IInv, [Next]_vars
             PROVE  Control'
    OBVIOUS
<1>r. rounds \in Nat /\ final \in Nat /\ MaxRounds \in Nat
    BY BoundAssumption DEF IInv, TypeOK, FinalRounds
<1>t. tx \in [open: BOOLEAN, starts: BOOLEAN, tokens: SUBSET Token,
              settlements: SUBSET Settlement, redistributions: SUBSET Redistribution]
    BY DEF IInv, TypeOK
<1>1. CASE PressEnter
    BY <1>1, <1>r, <1>t DEF IInv, Control, PressEnter, InTx, NoTx
<1>2. ASSUME NEW i \in Instance, CommenceVisit(i)
      PROVE  Control'
    BY <1>2, <1>r, <1>t DEF IInv, Control, CommenceVisit, InTx
<1>3. CASE CommenceDone
    BY <1>3, <1>r DEF IInv, Control, CommenceDone, FinalizeBegins, InTx, dbVars
<1>4. CASE LoopTop
    BY <1>4, <1>r, <1>t DEF IInv, Control, LoopTop, MayResume, InTx, NoTx, dbVars
<1>5. CASE EndRound
    BY <1>5, <1>r DEF IInv, Control, EndRound, FinalizeBegins, InTx, NoTx, dbVars
<1>6. ASSUME NEW s \in Service, FinalizeService(s)
      PROVE  Control'
    BY <1>6, <1>r DEF IInv, Control, FinalizeService, Unfinalized, InTx, dbVars
<1>7. ASSUME NEW t \in cands, SettleToken(t)
      PROVE  Control'
    BY <1>7, <1>r, <1>t DEF IInv, Control, SettleToken, InTx, dbVars
<1>8. CASE Redistribute
    BY <1>8, <1>r, <1>t DEF IInv, Control, Redistribute, AllSettled, InTx, dbVars
<1>9. CASE Publish
    BY <1>9, <1>r DEF IInv, Control, Publish, Unfinalized, InTx, dbVars
<1>10. CASE Commit
    BY <1>10, <1>r, <1>t DEF IInv, Control, Commit, InTx, NoTx
<1>11. CASE Crash \/ Restart \/ NewDay
    BY <1>11, <1>r, <1>t DEF IInv, Control, Crash, Restart, NewDay, InTx, NoTx, dbVars
<1>12. CASE FinalCalculation
    BY <1>12, <1>r, <1>t DEF IInv, Control, FinalCalculation, InTx, NoTx, svcVars
<1>13. CASE RoundTimeUp \/ DayTimeUp \/ \E s \in Service : Toggle(s)
    BY <1>13 DEF IInv, Control, RoundTimeUp, DayTimeUp, Toggle, dbVars, svcVars
<1>14. CASE Redeem
    BY <1>14 DEF IInv, Control, Redeem, Begin, Check, Create, dbVars, svcVars
<1>15. CASE UNCHANGED vars
    BY <1>15 DEF IInv, Control, vars, dbVars, svcVars
<1> QED
    BY <1>1, <1>2, <1>3, <1>4, <1>5, <1>6, <1>7, <1>8, <1>9, <1>10, <1>11, <1>12, <1>13,
       <1>14, <1>15 DEF Next, Serve

\* A step that leaves the settlements and what they are compared with alone.
LEMMA SettlingFrame ==
    ASSUME Settling,
           UNCHANGED <<rounds, ended, final, settlements, cands, cur>>,
           tx'.settlements = tx.settlements, services' \subseteq services
    PROVE  Settling'
BY DEF Settling, Finalized, Shaped, ExpiringRound, Unique

\* With nothing settled in the transaction, only the committed ones matter.
LEMMA SettlingOutside ==
    ASSUME Settling, settlements' = settlements, Finalized \subseteq Finalized',
           rounds \in Nat, rounds' \in Nat, rounds <= rounds',
           settlements \subseteq Settlement,
           tx'.settlements = {}, cands' = {}
    PROVE  Settling'
<1>1. \A x \in settlements : x.round \in Int
    BY DEF Settlement, Round
<1> QED BY <1>1 DEF Settling, Shaped, ExpiringRound, Unique

\* A step settles a token once per round, and only in the round it expires in.
LEMMA SettlingStep == IInv /\ [Next]_vars => Settling'
<1> SUFFICES ASSUME IInv, [Next]_vars
             PROVE  Settling'
    OBVIOUS
<1> USE DEF IInv
<1>r. /\ rounds \in Nat /\ final \in Nat /\ settlements \subseteq Settlement
      /\ cands \subseteq Token
    BY BoundAssumption DEF TypeOK, FinalRounds
<1>t. tx \in [open: BOOLEAN, starts: BOOLEAN, tokens: SUBSET Token,
              settlements: SUBSET Settlement, redistributions: SUBSET Redistribution]
    BY DEF TypeOK
<1>f. final = 0 => Finalized = ended
    BY <1>r DEF Finalized
<1>n. NoTx.settlements = {}
    BY DEF NoTx
<1>1. CASE PressEnter
    <2>1. tx'.settlements = {} /\ cands' = {}
        BY <1>1, <1>n DEF Control, PressEnter, InTx
    <2>2. rounds' = rounds + 1 /\ settlements' = settlements /\ Finalized' = Finalized
        BY <1>1, <1>r, <1>f DEF PressEnter, Finalized
    <2> QED BY <1>r, <2>1, <2>2, SettlingOutside
<1>2. CASE LoopTop
    <2>1. tx'.settlements = {} /\ cands' = {}
        BY <1>2, <1>n DEF Control, LoopTop, MayResume, InTx
    <2>2. rounds' = rounds /\ settlements' = settlements /\ Finalized' = Finalized
        BY <1>2 DEF LoopTop, Finalized, dbVars
    <2> QED BY <1>r, <2>1, <2>2, SettlingOutside
<1>3. CASE CommenceDone \/ EndRound \/ Crash
    <2>1. tx'.settlements = {} /\ cands' = {}
        BY <1>3, <1>n, <1>t DEF Control, CommenceDone, EndRound, FinalizeBegins, Crash, NoTx
    <2>2. rounds' = rounds /\ settlements' = settlements /\ Finalized' = Finalized
        BY <1>3 DEF CommenceDone, EndRound, Crash, Finalized, dbVars
    <2> QED BY <1>r, <2>1, <2>2, SettlingOutside
<1>4. ASSUME NEW i \in Instance, CommenceVisit(i)
      PROVE  Settling'
    <2>1. tx'.settlements = tx.settlements
        BY <1>4, <1>t DEF CommenceVisit
    <2> QED BY <1>4, <2>1, SettlingFrame DEF CommenceVisit
<1>5. ASSUME NEW s \in Service, FinalizeService(s)
      PROVE  Settling'
    <2>1. /\ services' = services \ {s} /\ s \in services /\ cands' = ExpiringTokens(cur, s)
          /\ UNCHANGED <<rounds, ended, final, settlements, tx, cur>>
        BY <1>5 DEF FinalizeService, Unfinalized, dbVars
    <2>2. \A t \in cands' : t.round = ExpiringRound(cur) /\ t.instance.service = s
        BY <2>1 DEF ExpiringTokens
    <2>3. \A x \in tx.settlements : x.token \notin cands'
        BY <2>1, <2>2 DEF Settling
    <2> QED BY <2>1, <2>2, <2>3 DEF Settling, Finalized, Shaped, ExpiringRound, Unique
<1>6. ASSUME NEW t \in cands, SettleToken(t)
      PROVE  Settling'
    <2> DEFINE new == [round |-> cur, token |-> t, paid |-> Redeemers(t)]
    <2>1. /\ tx'.settlements = tx.settlements \cup {new} /\ cands' = cands \ {t}
          /\ UNCHANGED <<rounds, ended, final, settlements, services, cur>>
        BY <1>6, <1>t DEF SettleToken, dbVars
    <2>2. new.round = cur /\ new.token = t /\ Shaped(new)
        BY DEF Settling, Shaped
    <2>3. \A x \in tx.settlements : x.token # t
        BY DEF Settling
    <2> HIDE DEF new
    <2>4. Unique(tx'.settlements)
        BY <2>1, <2>2, <2>3 DEF Settling, Unique
    <2>5. \A x \in tx'.settlements :
              /\ Shaped(x) /\ x.round = cur
              /\ x.token \notin cands' /\ x.token.instance.service \notin services
        BY <2>1, <2>2, <2>3 DEF Settling
    <2> QED BY <2>1, <2>4, <2>5 DEF Settling, Finalized, Shaped, ExpiringRound, Unique
<1>7. CASE Redistribute
    <2>1. tx'.settlements = tx.settlements
        BY <1>7, <1>t DEF Redistribute
    <2> QED BY <1>7, <2>1, SettlingFrame DEF Redistribute, dbVars
<1>8. CASE Publish
    BY <1>8, SettlingFrame DEF Publish, dbVars
<1>9. CASE Commit
    <2>1. cur = rounds /\ final = 0 /\ cur \notin ended
        BY <1>9, ActiveRound DEF Commit, Active, Open
    <2>2. /\ settlements' = settlements \cup tx.settlements
          /\ ended' = ended \cup {cur} /\ rounds' \in Nat /\ rounds <= rounds'
          /\ tx' = NoTx /\ cands' = cands /\ final' = final
        BY <1>9, <1>r DEF Commit
    <2>3. cands' = {} /\ tx'.settlements = {}
        BY <1>9, <1>n, <2>2 DEF Control, Commit
    <2>4. Finalized' = ended \cup {cur} /\ Finalized = ended
        BY <1>r, <1>f, <2>1, <2>2 DEF Finalized
    <2>5. \A x \in settlements : x.round # cur /\ x.round <= rounds /\ x.round \in Int
        BY <1>r, <2>1, <2>4 DEF Settling, Settlement, Round
    <2>6. \A x \in settlements' : Shaped(x) /\ x.round \in Finalized' /\ x.round <= rounds'
        BY <1>r, <2>1, <2>2, <2>4, <2>5 DEF Settling
    <2>7. Unique(settlements')
        BY <2>2, <2>5 DEF Settling, Unique
    <2> QED BY <2>3, <2>6, <2>7 DEF Settling, Shaped, ExpiringRound, Unique
<1>10. CASE FinalCalculation
    <2> DEFINE new == {[round |-> rounds + 1, token |-> t, paid |-> Redeemers(t)]
                         : t \in UNION {ExpiringTokens(rounds + 1, s) : s \in enabled}}
    <2>1. /\ settlements' = settlements \cup new /\ rounds' = rounds + 1 /\ final' = final + 1
          /\ UNCHANGED <<ended, tx, cands>> /\ pc # "settle" /\ pc \notin InTx \cup {"commence"}
        BY <1>10 DEF FinalCalculation, InTx, svcVars
    <2>2. cands' = {} /\ tx'.settlements = {}
        BY <1>n, <2>1 DEF Control
    <2>3. Finalized' = Finalized \cup {rounds + 1}
        BY <1>r, <2>1 DEF Finalized
    <2>4. \A x \in new : x.round = rounds + 1 /\ Shaped(x)
        BY DEF ExpiringTokens, Shaped
    <2>5. Unique(new)
        BY DEF Unique
    <2> HIDE DEF new
    <2>6. \A x \in settlements : x.round # rounds + 1 /\ x.round <= rounds /\ x.round \in Int
        BY <1>r DEF Settling, Settlement, Round
    <2>7. \A x \in settlements' : Shaped(x) /\ x.round \in Finalized' /\ x.round <= rounds'
        BY <1>r, <2>1, <2>3, <2>4, <2>6 DEF Settling
    <2>8. Unique(settlements')
        BY <2>1, <2>4, <2>5, <2>6 DEF Settling, Unique
    <2> QED BY <2>2, <2>7, <2>8 DEF Settling, Shaped, ExpiringRound, Unique
<1>11. CASE Restart \/ NewDay
    BY <1>11, SettlingFrame DEF Restart, NewDay, dbVars
<1>12. CASE RoundTimeUp \/ DayTimeUp \/ \E s \in Service : Toggle(s)
    BY <1>12, SettlingFrame DEF RoundTimeUp, DayTimeUp, Toggle, dbVars, svcVars
<1>13. CASE Redeem
    BY <1>13, SettlingFrame DEF Redeem, Begin, Check, Create, dbVars, svcVars
<1>14. CASE UNCHANGED vars
    BY <1>14, SettlingFrame DEF vars, dbVars, svcVars
<1> QED
    BY <1>1, <1>2, <1>3, <1>4, <1>5, <1>6, <1>7, <1>8, <1>9, <1>10, <1>11, <1>12, <1>13,
       <1>14 DEF Next, Serve

-----------------------------------------------------------------------------
\* The invariant holds from the start and for ever.
LEMMA InductiveInvariant == Spec => []IInv
<1>1. Init => IInv
    <2> SUFFICES ASSUME Init PROVE IInv
        OBVIOUS
    <2>1. web \in [Web -> Request \cup {NoRequest}]
        BY DEF Init
    <2>t. tx \in [open: BOOLEAN, starts: BOOLEAN, tokens: SUBSET Token,
                   settlements: SUBSET Settlement, redistributions: SUBSET Redistribution]
        BY DEF Init, NoTx
    <2>r. rounds \in 0..(MaxRounds + FinalRounds) /\ cur \in 0..rounds /\ final \in 0..FinalRounds
        BY BoundAssumption DEF Init, FinalRounds
    <2>2. TypeOK
        BY <2>1, <2>t, <2>r DEF Init, TypeOK
    <2>3. OneRoundOpen
        BY DEF Init, OneRoundOpen, Open
    <2>4. Control
        BY BoundAssumption DEF Init, Control, NoTx, InTx
    <2>5. Settling
        BY DEF Init, Settling, NoTx, Unique
    <2> QED BY <2>2, <2>3, <2>4, <2>5 DEF IInv
<1>2. IInv /\ [Next]_vars => IInv'
    BY TypeStep, OneRoundStep, ControlStep, SettlingStep DEF IInv
<1> QED BY <1>1, <1>2, PTL DEF Spec

\* Every state of bin/service and of the web processes is well typed.
THEOREM TypeCorrect == Spec => []TypeOK
BY InductiveInvariant, PTL DEF IInv

\* However the service crashes and restarts, at most one round is ever open, and
\* it is the one the service works on.
THEOREM OneRound == Spec => []OneRoundOpen
BY InductiveInvariant, PTL DEF IInv

\* After the opening round a token expires in exactly one later round.
LEMMA ShapedRound ==
    ASSUME NEW x \in Settlement, Shaped(x), x.token.round > 1
    PROVE  x.round = x.token.round + Expiration + 1
BY ExpirationAssumption, BoundAssumption
   DEF Shaped, ExpiringRound, Settlement, Token, Round, FinalRounds

\* After the opening round, a token is settled only when nobody may redeem it any
\* more (Round#expiring_tokens against Token#eligible?).
THEOREM SettlementFollowsExpiry == Spec => []SettledAfterExpiry
<1>1. IInv => SettledAfterExpiry
    <2> SUFFICES ASSUME IInv, NEW x \in settlements, x.token.round > 1
                 PROVE  ~Eligible(x.token)
        BY DEF SettledAfterExpiry
    <2>1. x \in Settlement /\ Shaped(x) /\ x.round <= rounds
        BY DEF IInv, TypeOK, Settling
    <2>2. x.round = x.token.round + Expiration + 1
        BY <2>1, ShapedRound
    <2>3. x.token.round \in Nat /\ rounds \in Nat
        BY <2>1, BoundAssumption
           DEF IInv, TypeOK, Settlement, Token, Round, FinalRounds
    <2> QED BY <2>1, <2>2, <2>3, ExpirationAssumption DEF Eligible, Since
<1> QED BY <1>1, InductiveInvariant, PTL

\* After the opening round, no token is settled twice: neither in two rounds nor,
\* after a crash, twice in one (bin/service's transaction around finalize!).
THEOREM SettlementIsOnce == Spec => []SettledOnce
<1>1. IInv => SettledOnce
    <2> SUFFICES ASSUME IInv, NEW x \in settlements, NEW y \in settlements,
                        x.token = y.token, x.token.round > 1
                 PROVE  x = y
        BY DEF SettledOnce
    <2>1. x \in Settlement /\ Shaped(x) /\ y \in Settlement /\ Shaped(y)
        BY DEF IInv, TypeOK, Settling
    <2>2. x.round = y.round
        BY <2>1, ShapedRound
    <2> QED BY <2>2 DEF IInv, Settling, Unique
<1> QED BY <1>1, InductiveInvariant, PTL
-----------------------------------------------------------------------------
(***************************************************************************)
(* The redemptions: what a request read when it began against the rounds    *)
(* that have passed since, through every race of web processes with the     *)
(* service's closing transaction; and behind them that transaction, what a  *)
(* round's end owes.                                                        *)
(***************************************************************************)

\* A request against the rounds that have passed since it began: once checked,
\* and unless a round has ended since, its token is in its life.
Requests ==
    \A p \in Web : web[p].pc # "idle" =>
        /\ web[p].seen <= rounds
        /\ web[p].round # 0 => web[p].round = web[p].seen
        /\ web[p].pc = "checked" /\ web[p].seen = rounds =>
               rounds \in web[p].token.round .. (web[p].token.round + Expiration)

\* Tokens are of rounds that have begun, or of the one the transaction begins.
TokenRounds ==
    /\ \A t \in tokens : t.round <= rounds
    /\ \A t \in tx.tokens : t.round = rounds + 1
    /\ tx.tokens # {} => tx.starts
    /\ pc = "commence" /\ tx.open => tx.starts

\* Settlements, committed or not, pay the prompt redemptions of expired tokens.
PaidIn(S) ==
    \A rd \in redemptions \ stale, x \in S :
        x.token = rd.token /\ x.round > rd.token.round + Expiration => rd.team \in x.paid

\* Redistributions, committed or not, share with the redemptions of their round
\* that the closing transaction found.
SharedIn(S) ==
    \A rd \in onTime, x \in S :
        x.round = rd.round /\ x.service = rd.token.instance.service => rd.team \in x.recipients

RedistributionRounds ==
    /\ \A x \in redistributions : x.round \in Finalized
    /\ \A x \in tx.redistributions : x.round = cur

LifeInv ==
    /\ Requests /\ TokenRounds /\ BookedWithinLife
    /\ PaidIn(settlements) /\ PaidIn(tx.settlements)
    /\ SharedIn(redistributions) /\ SharedIn(tx.redistributions) /\ RedistributionRounds

LEMMA Numbers ==
    ASSUME IInv
    PROVE  /\ rounds \in Nat /\ final \in Nat /\ cur \in Nat /\ Expiration \in Nat
           /\ \A t \in Token : t.round \in Nat
           /\ \A rd \in redemptions : rd \in Redemption /\ rd.token.round \in Nat /\ rd.round \in Nat
           /\ \A p \in Web : web[p].pc # "idle" =>
                  /\ web[p] \in Request /\ web[p].seen \in Nat /\ web[p].round \in Nat
                  /\ web[p].token \in Token /\ web[p].token.round \in Nat
           /\ tx \in [open: BOOLEAN, starts: BOOLEAN, tokens: SUBSET Token,
                      settlements: SUBSET Settlement, redistributions: SUBSET Redistribution]
           /\ redemptions \subseteq Redemption /\ stale \subseteq redemptions
           /\ onTime \subseteq redemptions
<1>1. /\ rounds \in Nat /\ final \in Nat /\ cur \in Nat /\ Expiration \in Nat
      /\ redemptions \subseteq Redemption /\ stale \subseteq redemptions
      /\ onTime \subseteq redemptions
      /\ tx \in [open: BOOLEAN, starts: BOOLEAN, tokens: SUBSET Token,
                 settlements: SUBSET Settlement, redistributions: SUBSET Redistribution]
  BY BoundAssumption, ExpirationAssumption DEF IInv, TypeOK, FinalRounds
<1>2. \A t \in Token : t.round \in Nat
  BY BoundAssumption DEF Token, Round, FinalRounds
<1>3. \A rd \in Redemption : rd.token \in Token /\ rd.round \in Nat
  BY BoundAssumption DEF Redemption, Round, FinalRounds
<1>4. \A p \in Web : web[p] \in Request \cup {NoRequest}
  BY DEF IInv, TypeOK
<1>5. \A q \in Request \cup {NoRequest} : q.pc # "idle" =>
          q \in Request /\ q.seen \in Nat /\ q.round \in Nat /\ q.token \in Token
  BY BoundAssumption DEF Request, NoRequest, Round, FinalRounds
<1> QED BY <1>1, <1>2, <1>3, <1>4, <1>5

-----------------------------------------------------------------------------
\* The passing of rounds only makes a request's view older.
LEMMA RequestsGrow ==
    ASSUME IInv, Requests, rounds' \in Nat, rounds <= rounds', web' = web
    PROVE  Requests'
BY Numbers DEF Requests

LEMMA RequestsStep == IInv /\ LifeInv /\ [Next]_vars => Requests'
<1> SUFFICES ASSUME IInv, LifeInv, [Next]_vars PROVE Requests'
  OBVIOUS
<1> USE DEF LifeInv
<1>1. ASSUME NEW p \in Web, NEW team \in Team, NEW t \in tokens \cup tx.tokens,
             Begin(p, team, t)
      PROVE  Requests'
  <2>1. /\ web' = [web EXCEPT ![p] = [pc |-> "begun", team |-> team, token |-> t,
                                      round |-> Current, seen |-> rounds]]
        /\ rounds' = rounds /\ final = 0
    BY <1>1 DEF Begin, dbVars
  <2>2. Current # 0 => Current = rounds
    BY <2>1, Numbers, CurrentIsOpen DEF IInv, OneRoundOpen
  <2>3. \A q \in Web : q # p => web'[q] = web[q]
    BY <2>1 DEF IInv, TypeOK
  <2>4. /\ web'[p].pc = "begun" /\ web'[p].seen = rounds /\ web'[p].round = Current
    BY <2>1 DEF IInv, TypeOK
  <2> QED BY <2>1, <2>2, <2>3, <2>4, Numbers DEF Requests
<1>2. ASSUME NEW p \in Web, Check(p) PROVE Requests'
  <2>1. web[p].pc = "begun" /\ rounds' = rounds
    BY <1>2 DEF Check, dbVars
  <2>2. \A q \in Web : q # p => web'[q] = web[q]
    BY <1>2 DEF Check, IInv, TypeOK
  <2>3. web[p] \in Request /\ web[p].token.round \in Nat
    BY <2>1, Numbers
  <2>4. CASE Redeemable(web[p].team, web[p].token)
    <3>1. web'[p] = [web[p] EXCEPT !.pc = "checked"]
      BY <1>2, <2>4 DEF Check, IInv, TypeOK
    <3>2. /\ web'[p].seen = web[p].seen /\ web'[p].round = web[p].round
          /\ web'[p].token = web[p].token /\ web'[p].pc = "checked"
      BY <2>3, <3>1 DEF Request
    <3>3. web[p].token.round <= rounds /\ rounds - web[p].token.round <= Expiration
      BY <2>4 DEF Redeemable, Eligible, Since, TokenRounds
    <3> QED BY <2>1, <2>2, <2>3, <3>2, <3>3, Numbers DEF Requests
  <2>5. CASE ~Redeemable(web[p].team, web[p].token)
    <3>1. web'[p].pc = "idle"
      BY <1>2, <2>5 DEF Check, NoRequest, IInv, TypeOK
    <3> QED BY <2>1, <2>2, <3>1 DEF Requests
  <2> QED BY <2>4, <2>5
<1>3. ASSUME NEW p \in Web, Create(p) PROVE Requests'
  <2>1. rounds' = rounds /\ \A q \in Web : q # p => web'[q] = web[q]
    BY <1>3 DEF Create, IInv, TypeOK
  <2>2. web'[p].pc = "idle"
    BY <1>3 DEF Create, NoRequest, IInv, TypeOK
  <2> QED BY <2>1, <2>2 DEF Requests
<1>4. ~Redeem => (Next => web' = web /\ rounds' \in Nat /\ rounds <= rounds')
  BY Numbers DEF Next, Serve, PressEnter, CommenceVisit, CommenceDone, LoopTop, EndRound,
     FinalizeService, SettleToken, Redistribute, Publish, Commit, Crash, Restart, NewDay,
     RoundTimeUp, DayTimeUp, Toggle, FinalCalculation, dbVars
<1>5. UNCHANGED vars => web' = web /\ rounds' \in Nat /\ rounds <= rounds'
  BY Numbers DEF vars, dbVars
<1> QED BY <1>1, <1>2, <1>3, <1>4, <1>5, RequestsGrow DEF Redeem

LEMMA TokenRoundsStep == IInv /\ LifeInv /\ [Next]_vars => TokenRounds'
<1> SUFFICES ASSUME IInv, LifeInv, [Next]_vars PROVE TokenRounds'
  OBVIOUS
<1> USE Numbers
<1>i. TokenRounds /\ tokens \subseteq Token
  BY DEF LifeInv, IInv, TypeOK
<1>1. CASE PressEnter
  <2>1. tx.tokens = {}
    BY <1>1 DEF PressEnter, IInv, Control, InTx, NoTx
  <2>2. ~tx.open
    BY <1>1 DEF PressEnter, IInv, Control, InTx
  <2> QED BY <1>1, <1>i, <2>1, <2>2 DEF PressEnter, TokenRounds
<1>2. ASSUME NEW i \in Instance, CommenceVisit(i) PROVE TokenRounds'
  <2> DEFINE new == IF i.service \in enabled
                    THEN {[instance |-> i, round |-> IF tx.open THEN rounds + 1 ELSE cur]}
                    ELSE {}
  <2>1. cur = rounds
    BY <1>2, ActiveRound DEF CommenceVisit, Active
  <2>2. \A t \in new : t.round = IF tx.open THEN rounds + 1 ELSE rounds
    BY <2>1
  <2>3. pc = "commence" /\ rounds' = rounds /\ pc' = pc
    BY <1>2 DEF CommenceVisit
  <2>4. CASE tx.open
    <3>1. /\ tx' = [tx EXCEPT !.tokens = @ \cup new] /\ tokens' = tokens
      BY <1>2, <2>4 DEF CommenceVisit
    <3>2. tx'.tokens = tx.tokens \cup new /\ tx'.starts = tx.starts /\ tx'.open = tx.open
      BY <3>1
    <3> HIDE DEF new
    <3> QED BY <1>i, <2>2, <2>3, <2>4, <3>1, <3>2 DEF TokenRounds
  <2>5. CASE ~tx.open
    <3>1. tx' = tx /\ tokens' = tokens \cup new
      BY <1>2, <2>5 DEF CommenceVisit
    <3> HIDE DEF new
    <3> QED BY <1>i, <2>2, <2>3, <2>5, <3>1 DEF TokenRounds
  <2> QED BY <2>4, <2>5
<1>3. CASE EndRound
  <2>1. tx'.tokens = {} /\ tx'.starts = ~gameOver
    BY <1>3 DEF EndRound, NoTx
  <2>2. pc' = "commence" => ~gameOver
    BY <1>3 DEF EndRound
  <2>3. gameOver \in BOOLEAN
    BY DEF IInv, TypeOK
  <2> QED BY <1>3, <1>i, <2>1, <2>2, <2>3 DEF EndRound, TokenRounds, dbVars
<1>4. CASE Commit
  <2>1. tx'.tokens = {} /\ ~tx'.open
    BY <1>4 DEF Commit, NoTx
  <2>2. rounds' = (IF tx.starts THEN rounds + 1 ELSE rounds) /\ tokens' = tokens \cup tx.tokens
    BY <1>4 DEF Commit
  <2>3. \A t \in tokens : t.round \in Nat
    BY <1>i
  <2> QED BY <1>i, <2>1, <2>2, <2>3 DEF TokenRounds
<1>5. CASE Crash
  <2>1. tx'.tokens = {} /\ ~tx'.open
    BY <1>5 DEF Crash, NoTx
  <2> QED BY <1>5, <1>i, <2>1 DEF Crash, TokenRounds, dbVars
<1>6. CASE FinalCalculation
  <2>1. tx.tokens = {} /\ ~tx.open
    BY <1>6 DEF FinalCalculation, IInv, Control, InTx, NoTx
  <2>2. \A t \in tokens : t.round \in Nat
    BY <1>i
  <2> QED BY <1>6, <1>i, <2>1, <2>2 DEF FinalCalculation, TokenRounds, svcVars
<1>7. CASE CommenceDone \/ LoopTop \/ Publish \/ Restart \/ NewDay
  BY <1>7, <1>i DEF CommenceDone, LoopTop, Publish, Restart, NewDay, TokenRounds, dbVars
<1>8. ASSUME NEW s \in Service, FinalizeService(s) PROVE TokenRounds'
  BY <1>8, <1>i DEF FinalizeService, TokenRounds, dbVars
<1>9. ASSUME NEW t \in cands, SettleToken(t) PROVE TokenRounds'
  <2>1. tx'.tokens = tx.tokens /\ tx'.starts = tx.starts /\ tx'.open = tx.open
    BY <1>9 DEF SettleToken
  <2> QED BY <1>9, <1>i, <2>1 DEF SettleToken, TokenRounds, dbVars
<1>10. CASE Redistribute
  <2>1. tx'.tokens = tx.tokens /\ tx'.starts = tx.starts /\ tx'.open = tx.open
    BY <1>10 DEF Redistribute
  <2> QED BY <1>10, <1>i, <2>1 DEF Redistribute, TokenRounds, dbVars
<1>11. CASE RoundTimeUp \/ DayTimeUp \/ \E s \in Service : Toggle(s)
  BY <1>11, <1>i DEF RoundTimeUp, DayTimeUp, Toggle, TokenRounds, dbVars, svcVars
<1>12. CASE Redeem
  BY <1>12, <1>i DEF Redeem, Begin, Check, Create, TokenRounds, dbVars, svcVars
<1>13. CASE UNCHANGED vars
  BY <1>13, <1>i DEF vars, TokenRounds, dbVars, svcVars
<1> QED
  BY <1>1, <1>2, <1>3, <1>4, <1>5, <1>6, <1>7, <1>8, <1>9, <1>10, <1>11, <1>12, <1>13
     DEF Next, Serve

-----------------------------------------------------------------------------
\* A row that is inserted before any round has ended since its request began is
\* booked to the current round, in which its token is in its life.
LEMMA PromptRow ==
    ASSUME IInv, LifeInv, NEW p \in Web, Create(p)
    PROVE  /\ UNCHANGED <<rounds, ended, final, cur, tx, settlements, redistributions, onTime>>
           /\ redemptions \subseteq redemptions'
           /\ \A rd \in redemptions' \ stale' :
                  \/ rd \in redemptions \ stale
                  \/ rd.round = rounds /\ rd.token.round \in Nat
                     /\ rounds \in rd.token.round .. (rd.token.round + Expiration)
<1> DEFINE q == web[p]
<1> DEFINE row == [team |-> q.team, token |-> q.token, round |-> q.round]
<1>1. q.pc = "checked" /\ UNCHANGED <<rounds, ended, final, cur, tx, settlements, redistributions,
                                      onTime>>
  BY DEF Create, svcVars
<1>2. CASE Insertable(q)
  <2>1. /\ redemptions' = redemptions \cup {row}
        /\ stale' = IF q.seen # rounds THEN stale \cup {row} ELSE stale
    BY <1>2 DEF Create
  <2>2. q.seen = rounds => /\ row.round = rounds /\ row.token.round \in Nat
                           /\ rounds \in row.token.round .. (row.token.round + Expiration)
    BY <1>1, <1>2, Numbers DEF LifeInv, Requests, Insertable
  <2> HIDE DEF row, q
  <2> QED BY <1>1, <2>1, <2>2
<1>3. CASE ~Insertable(q)
  BY <1>1, <1>3 DEF Create
<1> QED BY <1>2, <1>3

LEMMA BookedStep == IInv /\ LifeInv /\ [Next]_vars => BookedWithinLife'
<1> SUFFICES ASSUME IInv, LifeInv, [Next]_vars PROVE BookedWithinLife'
  OBVIOUS
<1>1. ASSUME NEW p \in Web, Create(p) PROVE BookedWithinLife'
  BY <1>1, PromptRow DEF LifeInv, BookedWithinLife
<1>2. ~(\E p \in Web : Create(p)) => (Next => UNCHANGED <<redemptions, stale>>)
  BY DEF Next, Serve, PressEnter, CommenceVisit, CommenceDone, LoopTop, EndRound,
     FinalizeService, SettleToken, Redistribute, Publish, Commit, Crash, Restart, NewDay,
     RoundTimeUp, DayTimeUp, Toggle, FinalCalculation, Redeem, Begin, Check, dbVars, obsVars
<1>3. UNCHANGED vars => UNCHANGED <<redemptions, stale>>
  BY DEF vars, dbVars, obsVars
<1>4. UNCHANGED <<redemptions, stale>> => BookedWithinLife'
  BY DEF LifeInv, BookedWithinLife
<1> QED BY <1>1, <1>2, <1>3, <1>4

-----------------------------------------------------------------------------
\* Steps that add neither redemptions nor settlements.
LEMMA PaidFrame ==
    ASSUME LifeInv, UNCHANGED <<redemptions, stale, settlements>>,
           tx'.settlements \subseteq tx.settlements
    PROVE  PaidIn(settlements)' /\ PaidIn(tx.settlements)'
BY DEF LifeInv, PaidIn

LEMMA PaidStep ==
    IInv /\ LifeInv /\ [Next]_vars => PaidIn(settlements)' /\ PaidIn(tx.settlements)'
<1> SUFFICES ASSUME IInv, LifeInv, [Next]_vars
             PROVE  PaidIn(settlements)' /\ PaidIn(tx.settlements)'
  OBVIOUS
<1> USE Numbers
<1>1. ASSUME NEW p \in Web, Create(p)
      PROVE  PaidIn(settlements)' /\ PaidIn(tx.settlements)'
  <2>1. \A x \in settlements \cup tx.settlements : x.round \in Nat /\ x.round <= rounds
    <3>1. cur <= rounds /\ settlements \subseteq Settlement
      BY DEF IInv, TypeOK
    <3>2. \A x \in Settlement : x.round \in Nat
      BY BoundAssumption DEF Settlement, Round, FinalRounds
    <3> QED BY <3>1, <3>2 DEF IInv, Settling
  <2>2. ASSUME NEW rd \in redemptions' \ stale', NEW x \in settlements \cup tx.settlements,
               x.token = rd.token, x.round > rd.token.round + Expiration
        PROVE  rd.team \in x.paid
    <3>1. CASE rd \in redemptions \ stale
      BY <2>2, <3>1 DEF LifeInv, PaidIn
    <3>2. CASE rd.token.round \in Nat
               /\ rounds \in rd.token.round .. (rd.token.round + Expiration)
      BY <2>1, <2>2, <3>2
    <3> QED BY <1>1, <3>1, <3>2, PromptRow
  <2>3. settlements' = settlements /\ tx' = tx
    BY <1>1, PromptRow
  <2> QED BY <2>2, <2>3 DEF PaidIn
<1>2. ASSUME NEW t \in cands, SettleToken(t)
      PROVE  PaidIn(settlements)' /\ PaidIn(tx.settlements)'
  <2> DEFINE new == [round |-> cur, token |-> t, paid |-> Redeemers(t)]
  <2>1. /\ tx'.settlements = tx.settlements \cup {new}
        /\ UNCHANGED <<redemptions, stale, settlements>>
    BY <1>2 DEF SettleToken, dbVars, obsVars
  <2>2. \A rd \in redemptions : new.token = rd.token => rd.team \in new.paid
    BY DEF Redeemers
  <2> HIDE DEF new
  <2> QED BY <2>1, <2>2 DEF LifeInv, PaidIn
<1>3. CASE Commit
  <2>1. /\ settlements' = settlements \cup tx.settlements /\ tx'.settlements = {}
        /\ UNCHANGED <<redemptions, stale>>
    BY <1>3 DEF Commit, NoTx, obsVars
  <2> QED BY <2>1 DEF LifeInv, PaidIn
<1>4. CASE FinalCalculation
  <2> DEFINE new == {[round |-> rounds + 1, token |-> t, paid |-> Redeemers(t)]
                       : t \in UNION {ExpiringTokens(rounds + 1, s) : s \in enabled}}
  <2>1. /\ settlements' = settlements \cup new
        /\ UNCHANGED <<redemptions, stale, tx>>
    BY <1>4 DEF FinalCalculation, svcVars
  <2>2. \A x \in new, rd \in redemptions : x.token = rd.token => rd.team \in x.paid
    BY DEF Redeemers
  <2> HIDE DEF new
  <2> QED BY <2>1, <2>2 DEF LifeInv, PaidIn
<1>5. CASE EndRound \/ Crash
  <2>1. UNCHANGED <<redemptions, stale, settlements>>
    BY <1>5 DEF EndRound, Crash, dbVars, obsVars
  <2>2. EndRound => tx'.settlements = {}
    BY DEF EndRound, NoTx
  <2>3. Crash => tx'.settlements = {}
    BY DEF Crash, NoTx
  <2> QED BY <1>5, <2>1, <2>2, <2>3, PaidFrame
<1>6. ASSUME NEW i \in Instance, CommenceVisit(i)
      PROVE  PaidIn(settlements)' /\ PaidIn(tx.settlements)'
  <2>1. tx'.settlements = tx.settlements
    BY <1>6 DEF CommenceVisit
  <2> QED BY <1>6, <2>1, PaidFrame DEF CommenceVisit, obsVars
<1>7. CASE Redistribute
  <2>1. tx'.settlements = tx.settlements
    BY <1>7 DEF Redistribute
  <2> QED BY <1>7, <2>1, PaidFrame DEF Redistribute, dbVars, obsVars
<1>8. CASE PressEnter \/ CommenceDone \/ LoopTop \/ Publish \/ Restart \/ NewDay
  BY <1>8, PaidFrame DEF PressEnter, CommenceDone, LoopTop, Publish, Restart, NewDay, dbVars,
     obsVars
<1>9. ASSUME NEW s \in Service, FinalizeService(s) \/ Toggle(s)
      PROVE  PaidIn(settlements)' /\ PaidIn(tx.settlements)'
  BY <1>9, PaidFrame DEF FinalizeService, Toggle, dbVars, svcVars, obsVars
<1>10. CASE RoundTimeUp \/ DayTimeUp \/ UNCHANGED vars
  BY <1>10, PaidFrame DEF RoundTimeUp, DayTimeUp, vars, dbVars, svcVars, obsVars
<1>11. ASSUME NEW p \in Web, Check(p) \/ \E team \in Team, t \in tokens \cup tx.tokens :
                                              Begin(p, team, t)
       PROVE  PaidIn(settlements)' /\ PaidIn(tx.settlements)'
  BY <1>11, PaidFrame DEF Check, Begin, dbVars, svcVars, obsVars
<1> QED
  BY <1>1, <1>2, <1>3, <1>4, <1>5, <1>6, <1>7, <1>8, <1>9, <1>10, <1>11
     DEF Next, Serve, Redeem

-----------------------------------------------------------------------------
Sharing ==
    SharedIn(redistributions) /\ SharedIn(tx.redistributions) /\ RedistributionRounds

\* Steps that keep what redistributions there are, or drop the uncommitted ones.
LEMMA SharingFrame ==
    ASSUME LifeInv, UNCHANGED <<onTime, redistributions, ended, final>>,
           Finalized' = Finalized,
           tx'.redistributions \subseteq tx.redistributions,
           cur' = cur \/ tx'.redistributions = {}
    PROVE  Sharing'
BY DEF LifeInv, Sharing, SharedIn, RedistributionRounds

LEMMA SharingStep == IInv /\ LifeInv /\ [Next]_vars => Sharing'
<1> SUFFICES ASSUME IInv, LifeInv, [Next]_vars PROVE Sharing'
  OBVIOUS
<1> USE Numbers
<1>1. CASE EndRound
  <2>1. /\ tx'.redistributions = {}
        /\ onTime' = onTime \cup {rd \in redemptions : rd.round = cur}
        /\ UNCHANGED <<redistributions, rounds, ended, final>>
    BY <1>1 DEF EndRound, NoTx, dbVars
  <2>2. Finalized' = Finalized
    BY <2>1 DEF Finalized
  <2>3. cur \notin Finalized
    <3>1. final = 0 /\ cur \notin ended
      BY <1>1, ActiveRound DEF EndRound, Active, Open
    <3> QED BY <3>1 DEF Finalized
  <2>4. \A x \in redistributions : x.round # cur /\ x.round \in Finalized
    BY <2>3 DEF LifeInv, RedistributionRounds
  <2> QED BY <2>1, <2>2, <2>4 DEF LifeInv, Sharing, SharedIn, RedistributionRounds
<1>2. CASE Redistribute
  <2> DEFINE new == {[round |-> cur, service |-> s, recipients |-> RoundRedeemers(cur, s)]
                       : s \in enabled}
  <2>1. /\ tx'.redistributions = tx.redistributions \cup new
        /\ UNCHANGED <<onTime, redistributions, rounds, ended, final, cur>>
    BY <1>2 DEF Redistribute, dbVars, obsVars
  <2>2. \A x \in new : x.round = cur /\ x.recipients = RoundRedeemers(cur, x.service)
    OBVIOUS
  <2>3. ASSUME NEW rd \in onTime, NEW x \in new, x.round = rd.round,
               x.service = rd.token.instance.service
        PROVE  rd.team \in x.recipients
    BY <2>2, <2>3 DEF RoundRedeemers
  <2>4. Finalized' = Finalized
    BY <2>1 DEF Finalized
  <2> HIDE DEF new
  <2> QED BY <2>1, <2>2, <2>3, <2>4 DEF LifeInv, Sharing, SharedIn, RedistributionRounds
<1>3. CASE Commit
  <2>1. /\ redistributions' = redistributions \cup tx.redistributions
        /\ tx'.redistributions = {} /\ ended' = ended \cup {cur}
        /\ UNCHANGED <<onTime, final>>
    BY <1>3 DEF Commit, NoTx, obsVars
  <2>2. final = 0
    BY <1>3, ActiveRound DEF Commit, Active
  <2>3. Finalized' = Finalized \cup {cur}
    <3>1. rounds' \in Nat
      BY <1>3 DEF Commit
    <3>2. Finalized = ended /\ Finalized' = ended'
      BY <2>1, <2>2, <3>1 DEF Finalized
    <3> QED BY <2>1, <3>2
  <2> QED BY <2>1, <2>3 DEF LifeInv, Sharing, SharedIn, RedistributionRounds
<1>4. CASE FinalCalculation
  <2> DEFINE new == {[round |-> rounds + 1, service |-> s,
                      recipients |-> RoundRedeemers(rounds + 1, s)] : s \in enabled}
  <2>1. /\ redistributions' = redistributions \cup new
        /\ rounds' = rounds + 1 /\ final' = final + 1
        /\ UNCHANGED <<onTime, ended, tx, cur>>
    BY <1>4 DEF FinalCalculation, svcVars
  <2>2. \A x \in new : /\ x.round = rounds + 1
                       /\ x.recipients = RoundRedeemers(rounds + 1, x.service)
    OBVIOUS
  <2>3. ASSUME NEW rd \in onTime, NEW x \in new, x.round = rd.round,
               x.service = rd.token.instance.service
        PROVE  rd.team \in x.recipients
    BY <2>2, <2>3 DEF RoundRedeemers
  <2>4. Finalized' = Finalized \cup {rounds + 1}
    BY <2>1 DEF Finalized
  <2> HIDE DEF new
  <2> QED BY <2>1, <2>2, <2>3, <2>4 DEF LifeInv, Sharing, SharedIn, RedistributionRounds
<1>5. CASE PressEnter \/ LoopTop
  <2>1. tx.redistributions = {}
    BY <1>5 DEF PressEnter, LoopTop, MayResume, IInv, Control, InTx, NoTx
  <2>2. UNCHANGED <<onTime, redistributions, ended, final, tx>> /\ final = 0 /\ rounds' \in Nat
    BY <1>5 DEF PressEnter, LoopTop, dbVars, obsVars
  <2>3. Finalized' = Finalized
    BY <2>2 DEF Finalized
  <2> QED BY <2>1, <2>2, <2>3, SharingFrame
<1>6. CASE Crash
  <2>1. tx'.redistributions = {} /\ UNCHANGED <<onTime, redistributions, rounds, ended, final>>
    BY <1>6 DEF Crash, NoTx, dbVars, obsVars
  <2> QED BY <2>1, SharingFrame DEF Finalized
<1>7. ASSUME UNCHANGED <<onTime, redistributions, rounds, ended, final, cur>>,
             tx'.redistributions = tx.redistributions
      PROVE  Sharing'
  BY <1>7, SharingFrame DEF Finalized
<1>8. ASSUME NEW i \in Instance, CommenceVisit(i) PROVE Sharing'
  <2>1. tx'.redistributions = tx.redistributions
    BY <1>8 DEF CommenceVisit
  <2> QED BY <1>7, <1>8, <2>1 DEF CommenceVisit, obsVars
<1>9. ASSUME NEW t \in cands, SettleToken(t) PROVE Sharing'
  <2>1. tx'.redistributions = tx.redistributions
    BY <1>9 DEF SettleToken
  <2> QED BY <1>7, <1>9, <2>1 DEF SettleToken, dbVars, obsVars
<1>10. CASE CommenceDone \/ Publish \/ Restart \/ NewDay
  BY <1>7, <1>10 DEF CommenceDone, Publish, Restart, NewDay, dbVars, obsVars
<1>11. ASSUME NEW s \in Service, FinalizeService(s) \/ Toggle(s) PROVE Sharing'
  BY <1>7, <1>11 DEF FinalizeService, Toggle, dbVars, svcVars, obsVars
<1>12. CASE RoundTimeUp \/ DayTimeUp \/ UNCHANGED vars
  BY <1>7, <1>12 DEF RoundTimeUp, DayTimeUp, vars, dbVars, svcVars, obsVars
<1>13. CASE Redeem
  BY <1>7, <1>13 DEF Redeem, Begin, Check, Create, dbVars, svcVars, obsVars
<1> QED
  BY <1>1, <1>2, <1>3, <1>4, <1>5, <1>6, <1>8, <1>9, <1>10, <1>11, <1>12, <1>13
     DEF Next, Serve

-----------------------------------------------------------------------------
LEMMA LifeHolds == Spec => []LifeInv
<1>1. Init => LifeInv
  <2> SUFFICES ASSUME Init PROVE LifeInv
    OBVIOUS
  <2>1. Requests
    BY DEF Init, Requests, NoRequest
  <2>2. TokenRounds
    BY DEF Init, TokenRounds, NoTx
  <2>3. /\ BookedWithinLife /\ PaidIn(settlements) /\ PaidIn(tx.settlements)
        /\ SharedIn(redistributions) /\ SharedIn(tx.redistributions) /\ RedistributionRounds
    BY DEF Init, BookedWithinLife, PaidIn, SharedIn, RedistributionRounds, NoTx
  <2> QED BY <2>1, <2>2, <2>3 DEF LifeInv
<1>2. IInv /\ LifeInv /\ [Next]_vars => LifeInv'
  BY RequestsStep, TokenRoundsStep, BookedStep, PaidStep, SharingStep DEF LifeInv, Sharing
<1> QED BY <1>1, <1>2, InductiveInvariant, PTL DEF Spec

\* A request that ran within one round is booked to a round of its token's life
\* (Redemption.redeem_for and Token#eligible?).
THEOREM PromptlyBooked == Spec => []BookedWithinLife
<1>1. LifeInv => BookedWithinLife
  BY DEF LifeInv
<1> QED BY <1>1, LifeHolds, PTL

\* The settlement of an expired token pays every team whose request ran within one
\* round: what settles later than the life of a token finds its prompt redemptions
\* (Round#expiring_tokens and Token#process_movements).
THEOREM PromptIsPaid == Spec => []PromptRedemptionPaid
<1>1. LifeInv => PromptRedemptionPaid
  BY DEF LifeInv, PaidIn, PromptRedemptionPaid
<1> QED BY <1>1, LifeHolds, PTL

\* A redemption the closing transaction of its round found shares in every pass of
\* that round's redistribution (TokenRedistributor).
THEOREM OnTimeShares == Spec => []OnTimeRedemptionShares
<1>1. LifeInv => OnTimeRedemptionShares
  BY DEF LifeInv, SharedIn, OnTimeRedemptionShares
<1> QED BY <1>1, LifeHolds, PTL

-----------------------------------------------------------------------------
(***************************************************************************)
(* The end of a round is one, through every crash, and a round that the     *)
(* loop begins has all its tokens.                                          *)
(***************************************************************************)
SettledIn(S, r, t) == \E x \in S : x.round = r /\ x.token = t
SharedOutIn(S, r, s) == \E x \in S : x.round = r /\ x.service = s

\* What the transaction has done for the services finalize! is done with, and
\* what is announced once it is about to commit.
Progress ==
    /\ pc = "commit" => cur \in announced
    /\ toggles = 0 => enabled = Service
    /\ toggles = 0 /\ pc \in InTx =>
           \A s \in Service \ services : \A t \in ExpiringTokens(cur, s) :
               t \in cands \/ SettledIn(tx.settlements, cur, t)
    /\ toggles = 0 /\ pc \in {"finalize", "commit"} /\ services # Service =>
           \A s \in Service : SharedOutIn(tx.redistributions, cur, s)
    /\ pc = "commit" => services = {}

\* A finalized round has all that its end owes.
Whole ==
    /\ Finalized \subseteq announced
    /\ toggles = 0 => \A r \in Finalized, s \in Service :
           /\ SharedOutIn(redistributions, r, s)
           /\ \A t \in ExpiringTokens(r, s) : SettledIn(settlements, r, t)

\* The round being begun in the transaction has the tokens of the visited instances.
Handing ==
    toggles = 0 /\ tx.starts =>
        /\ pc = "commence" => \A i \in Instance \ todo :
               [instance |-> i, round |-> rounds + 1] \in tx.tokens
        /\ pc \in InTx => \A i \in Instance :
               [instance |-> i, round |-> rounds + 1] \in tx.tokens

EndInv == Progress /\ Whole /\ Handing /\ LoopRoundsCommence

LEMMA Toggled ==
    ASSUME IInv
    PROVE  toggles \in Nat /\ toggles + 1 # 0
BY DEF IInv, TypeOK

\* The tokens that expire in a finalized round are those that were there.
LEMMA ExpiringKept ==
    ASSUME NEW r \in Int, NEW s, NEW new, tokens' = tokens \cup new,
           \A t \in new : t.round \in Nat /\ t.round >= r /\ t.round > 0
    PROVE  ExpiringTokens(r, s)' = ExpiringTokens(r, s)
<1>1. ExpiringRound(r) < r \/ ExpiringRound(r) = 0
  BY ExpirationAssumption DEF ExpiringRound
<1>2. ExpiringRound(r) \in Nat
  BY ExpirationAssumption DEF ExpiringRound
<1>3. \A t \in new : t.round # ExpiringRound(r)
  BY <1>1, <1>2
<1>4. \A t : t \in ExpiringTokens(r, s)' <=> t \in ExpiringTokens(r, s)
  BY <1>3 DEF ExpiringTokens
<1> QED BY <1>4 DEF ExpiringTokens

LEMMA FinalizedRounds ==
    ASSUME IInv
    PROVE  \A r \in Finalized : r \in Int /\ r <= rounds
BY Numbers DEF IInv, TypeOK, Finalized

-----------------------------------------------------------------------------
LEMMA ProgressStep == IInv /\ LifeInv /\ EndInv /\ [Next]_vars => Progress'
<1> SUFFICES ASSUME IInv, LifeInv, EndInv, [Next]_vars PROVE Progress'
  OBVIOUS
<1> USE Numbers
<1>i. Progress /\ toggles \in Nat
  BY DEF EndInv, IInv, TypeOK
\* Outside the transaction's finalization nothing is owed yet.
<1>0. ASSUME UNCHANGED <<toggles, enabled>>, pc' \notin InTx
      PROVE  Progress'
  BY <1>0, <1>i DEF Progress, InTx
\* finalize! begins with all the services.
<1>b. ASSUME UNCHANGED <<toggles, enabled>>, pc' = "finalize", services' = enabled
      PROVE  Progress'
  BY <1>b, <1>i DEF Progress, InTx
<1>1. CASE CommenceDone
  <2>1. (pc' = "finalize" /\ services' = enabled) \/ pc' = "loop"
    BY <1>1 DEF CommenceDone, FinalizeBegins
  <2> QED BY <1>1, <1>0, <1>b, <2>1 DEF CommenceDone, adminVars, InTx
<1>2. CASE EndRound
  <2>1. (pc' = "finalize" /\ services' = enabled) \/ pc' = "commence"
    BY <1>2 DEF EndRound, FinalizeBegins
  <2> QED BY <1>2, <1>0, <1>b, <2>1 DEF EndRound, adminVars, InTx
<1>3. ASSUME NEW s \in Service, FinalizeService(s) PROVE Progress'
  <2>1. /\ pc = "finalize" /\ pc' = "settle" /\ services' = services \ {s}
        /\ cands' = ExpiringTokens(cur, s) /\ cands = {}
        /\ UNCHANGED <<tokens, cur, tx, toggles, enabled>>
    BY <1>3 DEF FinalizeService, Unfinalized, dbVars, adminVars, IInv, Control
  <2>2. \A z : ExpiringTokens(cur, z)' = ExpiringTokens(cur, z)
    BY <2>1 DEF ExpiringTokens
  <2>3. ASSUME toggles = 0, NEW z \in Service \ services', NEW t \in ExpiringTokens(cur, z)
        PROVE  t \in cands' \/ SettledIn(tx.settlements, cur, t)
    <3>1. CASE z = s
      BY <2>1, <2>3, <3>1
    <3>2. CASE z # s
      BY <1>i, <2>1, <2>3, <3>2 DEF Progress, InTx
    <3> QED BY <3>1, <3>2
  <2> QED BY <1>i, <2>1, <2>2, <2>3 DEF Progress
<1>4. ASSUME NEW t \in cands, SettleToken(t) PROVE Progress'
  <2> DEFINE new == [round |-> cur, token |-> t, paid |-> Redeemers(t)]
  <2>1. /\ pc = "settle" /\ pc' = pc /\ cands' = cands \ {t}
        /\ tx'.settlements = tx.settlements \cup {new}
        /\ UNCHANGED <<tokens, cur, services, toggles, enabled>>
    BY <1>4 DEF SettleToken, dbVars, adminVars
  <2>2. new.round = cur /\ new.token = t
    OBVIOUS
  <2> HIDE DEF new
  <2>3. \A z : ExpiringTokens(cur, z)' = ExpiringTokens(cur, z)
    BY <2>1 DEF ExpiringTokens
  <2>4. ASSUME toggles = 0, NEW z \in Service \ services, NEW u \in ExpiringTokens(cur, z)
        PROVE  u \in cands' \/ SettledIn(tx'.settlements, cur, u)
    <3>1. u \in cands \/ SettledIn(tx.settlements, cur, u)
      BY <1>i, <2>1, <2>4 DEF Progress, InTx
    <3> QED BY <2>1, <2>2, <3>1 DEF SettledIn
  <2>5. ASSUME toggles' = 0, NEW z \in Service \ services', NEW u \in ExpiringTokens(cur, z)'
        PROVE  u \in cands' \/ SettledIn(tx.settlements, cur, u)'
    BY <2>1, <2>3, <2>4, <2>5 DEF SettledIn
  <2> QED BY <1>i, <2>1, <2>5 DEF Progress
<1>5. CASE Redistribute
  <2> DEFINE new == {[round |-> cur, service |-> s, recipients |-> RoundRedeemers(cur, s)]
                       : s \in enabled}
  <2>1. /\ pc = "settle" /\ pc' = "finalize" /\ cands = {} /\ tx'.settlements = tx.settlements
        /\ tx'.redistributions = tx.redistributions \cup new
        /\ UNCHANGED <<tokens, cur, cands, services, toggles, enabled>>
    BY <1>5 DEF Redistribute, AllSettled, dbVars, adminVars
  <2>2. \A z : ExpiringTokens(cur, z)' = ExpiringTokens(cur, z)
    BY <2>1 DEF ExpiringTokens
  <2>3. toggles = 0 => \A s \in Service : SharedOutIn(new, cur, s)
    <3>1. ASSUME toggles = 0, NEW s \in Service PROVE SharedOutIn(new, cur, s)
      <4>1. s \in enabled
        BY <1>i, <3>1 DEF Progress
      <4>2. [round |-> cur, service |-> s, recipients |-> RoundRedeemers(cur, s)] \in new
        BY <4>1
      <4> QED BY <4>2 DEF SharedOutIn
    <3> QED BY <3>1
  <2> HIDE DEF new
  <2>4. ASSUME toggles' = 0, NEW z \in Service \ services', NEW u \in ExpiringTokens(cur, z)'
        PROVE  u \in cands' \/ SettledIn(tx.settlements, cur, u)'
    BY <1>i, <2>1, <2>2, <2>4 DEF Progress, InTx, SettledIn
  <2>5. toggles' = 0 => \A s \in Service : SharedOutIn(tx.redistributions, cur, s)'
    BY <2>1, <2>3 DEF SharedOutIn
  <2> QED BY <1>i, <2>1, <2>4, <2>5 DEF Progress
<1>6. CASE Publish
  <2>1. /\ pc = "finalize" /\ pc' = "commit" /\ services = {} /\ announced' = announced \cup {cur}
        /\ UNCHANGED <<tokens, cur, cands, services, tx, toggles, enabled>>
    BY <1>6 DEF Publish, Unfinalized, dbVars, adminVars
  <2>2. \A z : ExpiringTokens(cur, z)' = ExpiringTokens(cur, z)
    BY <2>1 DEF ExpiringTokens
  <2> QED BY <1>i, <2>1, <2>2 DEF Progress, InTx
<1>7. CASE PressEnter \/ LoopTop \/ Commit \/ Crash \/ Restart \/ NewDay
  BY <1>7, <1>0 DEF PressEnter, LoopTop, Commit, Crash, Restart, NewDay, adminVars, InTx
<1>8. ASSUME NEW i \in Instance, CommenceVisit(i) PROVE Progress'
  BY <1>8, <1>0 DEF CommenceVisit, adminVars, InTx
<1>9. CASE FinalCalculation
  <2>1. pc' \notin InTx /\ UNCHANGED <<toggles, enabled>>
    BY <1>9 DEF FinalCalculation, svcVars, adminVars, InTx
  <2> QED BY <1>0, <2>1
<1>10. ASSUME NEW s \in Service, Toggle(s) PROVE Progress'
  <2>1. toggles' # 0 /\ UNCHANGED <<pc, cur, announced, services>>
    BY <1>10, <1>i DEF Toggle, svcVars, obsVars
  <2> QED BY <1>i, <2>1 DEF Progress
<1>11. CASE RoundTimeUp \/ DayTimeUp
  <2>1. UNCHANGED <<tokens, pc, cur, cands, services, tx, toggles, enabled, announced>>
    BY <1>11 DEF RoundTimeUp, DayTimeUp, dbVars, svcVars, adminVars, obsVars
  <2> QED BY <1>i, <2>1 DEF Progress, ExpiringTokens
<1>12. CASE Redeem
  <2>1. UNCHANGED <<tokens, pc, cur, cands, services, tx, toggles, enabled, announced>>
    BY <1>12 DEF Redeem, Begin, Check, Create, dbVars, svcVars, adminVars, obsVars
  <2> QED BY <1>i, <2>1 DEF Progress, ExpiringTokens
<1>13. CASE UNCHANGED vars
  <2>1. UNCHANGED <<tokens, pc, cur, cands, services, tx, toggles, enabled, announced>>
    BY <1>13 DEF vars, dbVars, svcVars, adminVars, obsVars
  <2> QED BY <1>i, <2>1 DEF Progress, ExpiringTokens
<1> QED
  BY <1>1, <1>2, <1>3, <1>4, <1>5, <1>6, <1>7, <1>8, <1>9, <1>10, <1>11, <1>12, <1>13
     DEF Next, Serve

-----------------------------------------------------------------------------
\* Steps after which everything that was owed is as it was.
LEMMA WholeFrame ==
    ASSUME Whole, UNCHANGED <<settlements, redistributions, toggles>>,
           Finalized' = Finalized, announced \subseteq announced',
           \A r \in Finalized, s \in Service : ExpiringTokens(r, s)' = ExpiringTokens(r, s)
    PROVE  Whole'
BY DEF Whole

LEMMA WholeStep == IInv /\ LifeInv /\ EndInv /\ [Next]_vars => Whole'
<1> SUFFICES ASSUME IInv, LifeInv, EndInv, [Next]_vars PROVE Whole'
  OBVIOUS
<1> USE Numbers, FinalizedRounds
<1>i. Whole /\ Progress /\ toggles \in Nat
  BY DEF EndInv, IInv, TypeOK
<1>0. ASSUME UNCHANGED <<tokens, settlements, redistributions, toggles, rounds, ended, final>>,
             announced \subseteq announced'
      PROVE  Whole'
  BY <1>0, <1>i, WholeFrame DEF ExpiringTokens, Finalized
<1>1. CASE Commit
  <2>1. /\ cur = rounds /\ final = 0 /\ cur \in Nat \ {0} /\ cur \notin ended
    BY <1>1, ActiveRound DEF Commit, Active, Open
  <2>2. /\ tokens' = tokens \cup tx.tokens /\ settlements' = settlements \cup tx.settlements
        /\ redistributions' = redistributions \cup tx.redistributions
        /\ ended' = ended \cup {cur} /\ rounds' \in Nat
        /\ UNCHANGED <<toggles, announced, final>>
    BY <1>1 DEF Commit, adminVars, obsVars
  <2>3. Finalized = ended /\ Finalized' = Finalized \cup {cur}
    BY <2>1, <2>2 DEF Finalized
  <2>4. \A t \in tx.tokens : t.round = rounds + 1
    BY DEF LifeInv, TokenRounds
  <2>5. \A r \in Finalized', s \in Service : ExpiringTokens(r, s)' = ExpiringTokens(r, s)
    <3>1. ASSUME NEW r \in Finalized', NEW s \in Service
          PROVE  ExpiringTokens(r, s)' = ExpiringTokens(r, s)
      <4>1. r \in Int /\ r <= rounds
        BY <2>1, <2>3
      <4>2. \A t \in tx.tokens : t.round \in Nat /\ t.round >= r /\ t.round > 0
        BY <2>1, <2>4, <4>1
      <4> QED BY <2>2, <4>1, <4>2, ExpiringKept
    <3> QED BY <3>1
  <2>6. /\ pc = "commit" /\ cands = {} /\ services = {} /\ cur \in announced
    BY <1>1, <1>i DEF Commit, IInv, Control, Progress
  <2>7. toggles = 0 => \A s \in Service :
            /\ SharedOutIn(tx.redistributions, cur, s)
            /\ \A t \in ExpiringTokens(cur, s) : SettledIn(tx.settlements, cur, t)
    BY <1>i, <2>6 DEF Progress, InTx
  <2>8. ASSUME toggles' = 0, NEW r \in Finalized', NEW s \in Service
        PROVE  /\ SharedOutIn(redistributions', r, s)
               /\ \A t \in ExpiringTokens(r, s)' : SettledIn(settlements', r, t)
    <3>1. CASE r \in Finalized
      <4>1. /\ SharedOutIn(redistributions, r, s)
            /\ \A t \in ExpiringTokens(r, s) : SettledIn(settlements, r, t)
        BY <1>i, <2>2, <2>8, <3>1 DEF Whole
      <4> QED BY <2>2, <2>5, <2>8, <4>1 DEF SharedOutIn, SettledIn
    <3>2. CASE r = cur
      <4>1. /\ SharedOutIn(tx.redistributions, r, s)
            /\ \A t \in ExpiringTokens(r, s) : SettledIn(tx.settlements, r, t)
        BY <2>2, <2>7, <2>8, <3>2
      <4> QED BY <2>2, <2>5, <2>8, <4>1 DEF SharedOutIn, SettledIn
    <3> QED BY <2>3, <3>1, <3>2
  <2>9. Finalized' \subseteq announced'
    BY <1>i, <2>2, <2>3, <2>6 DEF Whole
  <2> QED BY <2>8, <2>9 DEF Whole, SharedOutIn, SettledIn
<1>2. CASE FinalCalculation
  <2> DEFINE paid == {[round |-> rounds + 1, token |-> t, paid |-> Redeemers(t)]
                        : t \in UNION {ExpiringTokens(rounds + 1, s) : s \in enabled}}
  <2> DEFINE shared == {[round |-> rounds + 1, service |-> s,
                         recipients |-> RoundRedeemers(rounds + 1, s)] : s \in enabled}
  <2>1. /\ rounds' = rounds + 1 /\ final' = final + 1 /\ announced' = announced \cup {rounds + 1}
        /\ settlements' = settlements \cup paid /\ redistributions' = redistributions \cup shared
        /\ UNCHANGED <<ended, tokens, toggles>>
    BY <1>2 DEF FinalCalculation, adminVars
  <2>2. Finalized' = Finalized \cup {rounds + 1}
    BY <2>1 DEF Finalized
  <2>3. \A r, s : ExpiringTokens(r, s)' = ExpiringTokens(r, s)
    BY <2>1 DEF ExpiringTokens
  <2>4. ASSUME toggles = 0, NEW s \in Service
        PROVE  /\ SharedOutIn(shared, rounds + 1, s)
               /\ \A t \in ExpiringTokens(rounds + 1, s) : SettledIn(paid, rounds + 1, t)
    <3>1. s \in enabled
      BY <1>i, <2>4 DEF Progress
    <3>2. [round |-> rounds + 1, service |-> s,
           recipients |-> RoundRedeemers(rounds + 1, s)] \in shared
      BY <3>1
    <3>3. \A t \in ExpiringTokens(rounds + 1, s) :
              [round |-> rounds + 1, token |-> t, paid |-> Redeemers(t)] \in paid
      BY <3>1
    <3> HIDE DEF paid, shared
    <3> QED BY <3>2, <3>3 DEF SharedOutIn, SettledIn
  <2> HIDE DEF paid, shared
  <2>5. ASSUME toggles' = 0, NEW r \in Finalized', NEW s \in Service
        PROVE  /\ SharedOutIn(redistributions', r, s)
               /\ \A t \in ExpiringTokens(r, s)' : SettledIn(settlements', r, t)
    <3>1. CASE r \in Finalized
      <4>1. /\ SharedOutIn(redistributions, r, s)
            /\ \A t \in ExpiringTokens(r, s) : SettledIn(settlements, r, t)
        BY <1>i, <2>1, <2>5, <3>1 DEF Whole
      <4> QED BY <2>1, <2>3, <4>1 DEF SharedOutIn, SettledIn
    <3>2. CASE r = rounds + 1
      BY <2>1, <2>3, <2>4, <2>5, <3>2 DEF SharedOutIn, SettledIn
    <3> QED BY <2>2, <3>1, <3>2
  <2>6. Finalized' \subseteq announced'
    BY <1>i, <2>1, <2>2 DEF Whole
  <2> QED BY <2>5, <2>6 DEF Whole, SharedOutIn, SettledIn
<1>3. ASSUME NEW i \in Instance, CommenceVisit(i) PROVE Whole'
  <2>1. /\ cur = rounds /\ final = 0 /\ cur \in Nat \ {0} /\ cur \notin ended
    BY <1>3, ActiveRound DEF CommenceVisit, Active, Open
  <2>2. UNCHANGED <<settlements, redistributions, toggles, rounds, ended, final, announced>>
    BY <1>3 DEF CommenceVisit, adminVars, obsVars
  <2>3. CASE tx.open
    <3>1. tokens' = tokens
      BY <1>3, <2>3 DEF CommenceVisit
    <3> QED BY <1>0, <2>2, <3>1
  <2>4. CASE ~tx.open
    <3> DEFINE new == IF i.service \in enabled THEN {[instance |-> i, round |-> cur]} ELSE {}
    <3>1. tokens' = tokens \cup new
      BY <1>3, <2>4 DEF CommenceVisit
    <3>2. \A t \in new : t.round = cur
      OBVIOUS
    <3> HIDE DEF new
    <3>3. \A r \in Finalized, s \in Service : ExpiringTokens(r, s)' = ExpiringTokens(r, s)
      <4>1. ASSUME NEW r \in Finalized, NEW s \in Service
            PROVE  ExpiringTokens(r, s)' = ExpiringTokens(r, s)
        <5>1. r \in Int /\ r <= rounds
          OBVIOUS
        <5>2. \A t \in new : t.round \in Nat /\ t.round >= r /\ t.round > 0
          BY <2>1, <3>2, <5>1
        <5> QED BY <3>1, <5>1, <5>2, ExpiringKept
      <4> QED BY <4>1
    <3>4. Finalized' = Finalized
      BY <2>2 DEF Finalized
    <3> QED BY <1>i, <2>2, <3>3, <3>4, WholeFrame
  <2> QED BY <2>3, <2>4
<1>4. CASE PressEnter
  <2>1. /\ rounds' = rounds + 1 /\ final = 0
        /\ UNCHANGED <<tokens, settlements, redistributions, toggles, ended, final, announced>>
    BY <1>4 DEF PressEnter, adminVars
  <2>2. Finalized' = Finalized
    BY <2>1 DEF Finalized
  <2> QED BY <1>i, <2>1, <2>2, WholeFrame DEF ExpiringTokens
<1>5. ASSUME NEW s \in Service, Toggle(s) PROVE Whole'
  <2>1. toggles' # 0 /\ announced' = announced /\ UNCHANGED <<rounds, ended, final>>
    BY <1>5, <1>i DEF Toggle, dbVars, obsVars
  <2> QED BY <1>i, <2>1 DEF Whole, Finalized
<1>6. CASE CommenceDone \/ LoopTop \/ Publish \/ Restart \/ NewDay \/ EndRound \/ Crash
           \/ Redistribute
  <2>1. UNCHANGED <<tokens, settlements, redistributions, toggles, rounds, ended, final>>
    BY <1>6 DEF CommenceDone, LoopTop, Publish, Restart, NewDay, EndRound, Crash, Redistribute,
       dbVars, adminVars
  <2>2. announced \subseteq announced'
    BY <1>6 DEF CommenceDone, LoopTop, Publish, Restart, NewDay, EndRound, Crash, Redistribute,
       obsVars
  <2> QED BY <1>0, <2>1, <2>2
<1>7. ASSUME NEW s \in Service, FinalizeService(s) PROVE Whole'
  BY <1>0, <1>7 DEF FinalizeService, dbVars, adminVars, obsVars
<1>8. ASSUME NEW t \in cands, SettleToken(t) PROVE Whole'
  BY <1>0, <1>8 DEF SettleToken, dbVars, adminVars, obsVars
<1>9. CASE RoundTimeUp \/ DayTimeUp \/ UNCHANGED vars
  BY <1>0, <1>9 DEF RoundTimeUp, DayTimeUp, vars, dbVars, adminVars, obsVars
<1>10. CASE Redeem
  BY <1>0, <1>10 DEF Redeem, Begin, Check, Create, dbVars, adminVars, obsVars
<1> QED
  BY <1>1, <1>2, <1>3, <1>4, <1>5, <1>6, <1>7, <1>8, <1>9, <1>10 DEF Next, Serve

-----------------------------------------------------------------------------
LEMMA HandingStep == IInv /\ LifeInv /\ EndInv /\ [Next]_vars => Handing' /\ LoopRoundsCommence'
<1> SUFFICES ASSUME IInv, LifeInv, EndInv, [Next]_vars
             PROVE  Handing' /\ LoopRoundsCommence'
  OBVIOUS
<1> USE Numbers
<1>i. Handing /\ LoopRoundsCommence /\ Progress /\ toggles \in Nat
  BY DEF EndInv, IInv, TypeOK
<1> USE DEF InTx
<1>0. ASSUME UNCHANGED <<tokens, toggles, rounds, final, opened>>
      PROVE  LoopRoundsCommence'
  BY <1>0, <1>i DEF LoopRoundsCommence, Uncommenced
<1>1. CASE PressEnter
  <2>1. /\ rounds' = rounds + 1 /\ final = 0 /\ opened' = opened \cup {rounds + 1}
        /\ UNCHANGED <<tokens, toggles, final, tx>> /\ ~tx.starts
    BY <1>1 DEF PressEnter, adminVars, IInv, Control, NoTx
  <2>2. Uncommenced' \subseteq Uncommenced \cup {rounds + 1}
    BY <2>1 DEF Uncommenced
  <2> QED BY <1>i, <2>1, <2>2 DEF Handing, LoopRoundsCommence
<1>2. ASSUME NEW i \in Instance, CommenceVisit(i) PROVE Handing' /\ LoopRoundsCommence'
  <2> DEFINE new == IF i.service \in enabled
                    THEN {[instance |-> i, round |-> IF tx.open THEN rounds + 1 ELSE cur]}
                    ELSE {}
  <2>1. pc = "commence" /\ pc' = pc /\ todo' = todo \ {i}
        /\ UNCHANGED <<toggles, rounds, final, opened>>
    BY <1>2 DEF CommenceVisit, adminVars, obsVars
  <2>2. CASE tx.open
    <3>1. tokens' = tokens /\ tx'.tokens = tx.tokens \cup new /\ tx'.starts = tx.starts
      BY <1>2, <2>2 DEF CommenceVisit
    <3>2. toggles = 0 => [instance |-> i, round |-> rounds + 1] \in new
      BY <1>i, <2>2, InstanceAssumption DEF Progress
    <3> HIDE DEF new
    <3> QED BY <1>0, <1>i, <2>1, <3>1, <3>2 DEF Handing
  <2>3. CASE ~tx.open
    <3>1. tx' = tx /\ ~tx.starts /\ tokens \subseteq tokens'
      BY <1>2, <2>3 DEF CommenceVisit, IInv, Control, NoTx
    <3>2. Uncommenced' \subseteq Uncommenced
      BY <2>1, <3>1 DEF Uncommenced
    <3> QED BY <1>i, <2>1, <3>1, <3>2 DEF Handing, LoopRoundsCommence
  <2> QED BY <2>2, <2>3
<1>3. CASE CommenceDone
  <2>1. /\ pc = "commence" /\ todo = {} /\ pc' \in {"finalize", "loop"}
        /\ UNCHANGED <<tokens, toggles, rounds, final, opened, tx, todo>>
    BY <1>3 DEF CommenceDone, AllDeposited, dbVars, adminVars, obsVars
  <2> QED BY <1>0, <1>i, <2>1 DEF Handing
<1>4. CASE EndRound
  <2>1. /\ tx'.starts = ~gameOver /\ (gameOver => pc' = "finalize")
        /\ (~gameOver => pc' = "commence" /\ todo' = Instance)
        /\ UNCHANGED <<tokens, toggles, rounds, final, opened>>
    BY <1>4 DEF EndRound, NoTx, dbVars, adminVars
  <2>2. gameOver \in BOOLEAN
    BY DEF IInv, TypeOK
  <2> QED BY <1>0, <2>1, <2>2 DEF Handing
<1>5. CASE Commit
  <2>1. /\ final = 0 /\ pc = "commit" /\ tokens' = tokens \cup tx.tokens
        /\ rounds' = (IF tx.starts THEN rounds + 1 ELSE rounds)
        /\ UNCHANGED <<toggles, final, opened>> /\ ~tx'.starts
    BY <1>5, ActiveRound DEF Commit, Active, adminVars, obsVars, NoTx
  <2>2. ASSUME toggles = 0 PROVE Uncommenced' \subseteq Uncommenced
    <3>1. CASE tx.starts
      <4>1. \A i \in Instance : [instance |-> i, round |-> rounds + 1] \in tx.tokens
        BY <1>i, <2>1, <2>2, <3>1 DEF Handing
      <4>2. rounds' = rounds + 1 /\ tokens \subseteq tokens'
        BY <2>1, <3>1
      <4>3. rounds + 1 \notin Uncommenced'
        BY <2>1, <4>1 DEF Uncommenced
      <4>4. Uncommenced' \subseteq Uncommenced \cup {rounds + 1}
        <5>1. 1..(rounds' - final') = 1..rounds \cup {rounds + 1}
          BY <2>1, <4>2
        <5>2. 1..(rounds - final) = 1..rounds
          BY <2>1
        <5> QED BY <4>2, <5>1, <5>2 DEF Uncommenced
      <4> QED BY <4>3, <4>4
    <3>2. CASE ~tx.starts
      BY <2>1, <3>2 DEF Uncommenced
    <3> QED BY <3>1, <3>2
  <2> QED BY <1>i, <2>1, <2>2 DEF Handing, LoopRoundsCommence
<1>6. CASE Crash
  <2>1. ~tx'.starts /\ UNCHANGED <<tokens, toggles, rounds, final, opened>>
    BY <1>6 DEF Crash, NoTx, dbVars, adminVars, obsVars
  <2> QED BY <1>0, <2>1 DEF Handing
<1>7. CASE FinalCalculation
  <2>1. /\ rounds' - final' = rounds - final /\ pc \notin InTx \cup {"commence"}
        /\ UNCHANGED <<tokens, toggles, opened, pc>>
    BY <1>7 DEF FinalCalculation, svcVars, adminVars
  <2> QED BY <1>i, <2>1 DEF Handing, LoopRoundsCommence, Uncommenced
<1>8. ASSUME NEW s \in Service, Toggle(s) PROVE Handing' /\ LoopRoundsCommence'
  <2>1. toggles' # 0
    BY <1>8, <1>i DEF Toggle
  <2> QED BY <2>1 DEF Handing, LoopRoundsCommence
<1>9. ASSUME UNCHANGED <<tokens, toggles, rounds, final, opened, todo>>,
             tx'.tokens = tx.tokens, tx'.starts = tx.starts,
             pc' = pc \/ pc' \notin InTx \cup {"commence"} \/ (pc \in InTx /\ pc' \in InTx)
      PROVE  Handing' /\ LoopRoundsCommence'
  BY <1>0, <1>9, <1>i DEF Handing
<1>10. CASE LoopTop \/ Publish \/ Restart \/ NewDay
  BY <1>9, <1>10 DEF LoopTop, Publish, Restart, NewDay, dbVars, adminVars, obsVars
<1>11. ASSUME NEW s \in Service, FinalizeService(s) PROVE Handing' /\ LoopRoundsCommence'
  BY <1>9, <1>11 DEF FinalizeService, dbVars, adminVars, obsVars
<1>12. ASSUME NEW t \in cands, SettleToken(t) PROVE Handing' /\ LoopRoundsCommence'
  <2>1. tx'.tokens = tx.tokens /\ tx'.starts = tx.starts
    BY <1>12 DEF SettleToken
  <2> QED BY <1>9, <1>12, <2>1 DEF SettleToken, dbVars, adminVars, obsVars
<1>13. CASE Redistribute
  <2>1. tx'.tokens = tx.tokens /\ tx'.starts = tx.starts
    BY <1>13 DEF Redistribute
  <2> QED BY <1>9, <1>13, <2>1 DEF Redistribute, dbVars, adminVars, obsVars
<1>14. CASE RoundTimeUp \/ DayTimeUp \/ UNCHANGED vars
  BY <1>9, <1>14 DEF RoundTimeUp, DayTimeUp, vars, dbVars, svcVars, adminVars, obsVars
<1>15. CASE Redeem
  BY <1>9, <1>15 DEF Redeem, Begin, Check, Create, dbVars, svcVars, adminVars, obsVars
<1> QED
  BY <1>1, <1>2, <1>3, <1>4, <1>5, <1>6, <1>7, <1>8, <1>10, <1>11, <1>12, <1>13, <1>14, <1>15
     DEF Next, Serve

-----------------------------------------------------------------------------
LEMMA EndHolds == Spec => []EndInv
<1>1. Init => EndInv
  <2> SUFFICES ASSUME Init PROVE EndInv
    OBVIOUS
  <2>1. Finalized = {} /\ Uncommenced = {}
    BY DEF Init, Finalized, Uncommenced
  <2>2. Progress /\ Handing
    BY DEF Init, Progress, Handing, InTx
  <2>3. Whole /\ LoopRoundsCommence
    BY <2>1 DEF Whole, LoopRoundsCommence
  <2> QED BY <2>2, <2>3 DEF EndInv
<1>2. IInv /\ LifeInv /\ EndInv /\ [Next]_vars => EndInv'
  BY ProgressStep, WholeStep, HandingStep DEF EndInv
<1> QED BY <1>1, <1>2, InductiveInvariant, LifeHolds, PTL DEF Spec

\* A round's end, its announcement and its whole distribution are one, through any
\* crash and restart (bin/service's transaction around finalize!).
THEOREM EndsAreWhole == Spec => []RoundsEndWhole
<1>1. IInv /\ LifeInv /\ EndInv => RoundsEndWhole
  BY DEF IInv, Settling, LifeInv, RedistributionRounds, EndInv, Whole, RoundsEndWhole,
         SharedOutIn, SettledIn
<1> QED BY <1>1, InductiveInvariant, LifeHolds, EndHolds, PTL

\* Only the round an operator started can lack tokens: one the loop began is
\* committed with all of them (Round#commence! inside the transaction).
THEOREM LoopRoundsHaveTokens == Spec => []LoopRoundsCommence
<1>1. EndInv => LoopRoundsCommence
  BY DEF EndInv
<1> QED BY <1>1, EndHolds, PTL

-----------------------------------------------------------------------------
(***************************************************************************)
(* What the services that are enabled when finalize! begins are owed, with *)
(* administrators who disable and enable them while it runs.               *)
(***************************************************************************)
\* The transaction is done with the services it no longer has before it.
DueInTx ==
    pc \in InTx =>
        \A d \in due : d.round = cur /\ d.service \notin services =>
            \A t \in ExpiringTokens(cur, d.service) :
                t \in cands \/ SettledIn(tx.settlements, cur, t)

\* A finalized round is done with all of them.
DueSettled ==
    \A d \in due : d.round \in Finalized =>
        \A t \in ExpiringTokens(d.round, d.service) : SettledIn(settlements, d.round, t)

DueInv ==
    /\ \A d \in due : d.round \in Nat /\ d.round <= rounds
    /\ DueInTx /\ DueSettled

\* finalize! begins, perhaps again: nothing is settled, all of them are ahead.
LEMMA BeginsWithAll ==
    ASSUME FinalizeBegins, UNCHANGED cur
    PROVE  /\ \A d \in due' : d.round = cur' => d.service \in services'
           /\ \A d \in due' : d \in due \/ d.round = cur
BY DEF FinalizeBegins

LEMMA DueTxStep == IInv /\ EndInv /\ DueInv /\ [Next]_vars => DueInTx'
<1> SUFFICES ASSUME IInv, EndInv, DueInv, [Next]_vars PROVE DueInTx'
  OBVIOUS
<1>i. DueInTx
  BY DEF DueInv
<1>0. ASSUME pc' \notin InTx PROVE DueInTx'
  BY <1>0 DEF DueInTx
<1>b. ASSUME \A d \in due' : d.round = cur' => d.service \in services' PROVE DueInTx'
  BY <1>b DEF DueInTx
<1>s. ASSUME UNCHANGED <<tokens, pc, cur, cands, services, tx, due>> PROVE DueInTx'
  BY <1>i, <1>s DEF DueInTx, ExpiringTokens
<1>1. CASE CommenceDone
  <2>1. FinalizeBegins \/ pc' = "loop"
    BY <1>1 DEF CommenceDone
  <2> QED BY <1>1, <1>0, <1>b, <2>1, BeginsWithAll DEF CommenceDone, InTx
<1>2. CASE EndRound
  <2>1. FinalizeBegins \/ pc' = "commence"
    BY <1>2 DEF EndRound
  <2> QED BY <1>2, <1>0, <1>b, <2>1, BeginsWithAll DEF EndRound, InTx
<1>3. ASSUME NEW s \in Service, FinalizeService(s) PROVE DueInTx'
  <2>1. /\ pc = "finalize" /\ pc' = "settle" /\ services' = services \ {s}
        /\ cands' = ExpiringTokens(cur, s) /\ cands = {}
        /\ UNCHANGED <<tokens, cur, tx, due>>
    BY <1>3 DEF FinalizeService, Unfinalized, dbVars, obsVars, IInv, Control
  <2>2. \A z : ExpiringTokens(cur, z)' = ExpiringTokens(cur, z)
    BY <2>1 DEF ExpiringTokens
  <2>3. ASSUME NEW d \in due, d.round = cur, d.service \notin services',
               NEW t \in ExpiringTokens(cur, d.service)
        PROVE  t \in cands' \/ SettledIn(tx.settlements, cur, t)
    <3>1. CASE d.service = s
      BY <2>1, <2>3, <3>1
    <3>2. CASE d.service # s
      BY <1>i, <2>1, <2>3, <3>2 DEF DueInTx, InTx
    <3> QED BY <3>1, <3>2
  <2> QED BY <2>1, <2>2, <2>3 DEF DueInTx
<1>4. ASSUME NEW t \in cands, SettleToken(t) PROVE DueInTx'
  <2> DEFINE new == [round |-> cur, token |-> t, paid |-> Redeemers(t)]
  <2>1. /\ pc = "settle" /\ pc' = pc /\ cands' = cands \ {t}
        /\ tx'.settlements = tx.settlements \cup {new}
        /\ UNCHANGED <<tokens, cur, services, due>>
    BY <1>4 DEF SettleToken, dbVars, obsVars
  <2>2. new.round = cur /\ new.token = t
    OBVIOUS
  <2> HIDE DEF new
  <2>3. \A z : ExpiringTokens(cur, z)' = ExpiringTokens(cur, z)
    BY <2>1 DEF ExpiringTokens
  <2>4. ASSUME NEW d \in due, d.round = cur, d.service \notin services,
               NEW u \in ExpiringTokens(cur, d.service)
        PROVE  u \in cands' \/ SettledIn(tx'.settlements, cur, u)
    <3>1. u \in cands \/ SettledIn(tx.settlements, cur, u)
      BY <1>i, <2>1, <2>4 DEF DueInTx, InTx
    <3> QED BY <2>1, <2>2, <3>1 DEF SettledIn
  <2>5. ASSUME NEW d \in due', d.round = cur', d.service \notin services',
               NEW u \in ExpiringTokens(cur, d.service)'
        PROVE  u \in cands' \/ SettledIn(tx.settlements, cur, u)'
    BY <2>1, <2>3, <2>4, <2>5 DEF SettledIn
  <2> QED BY <2>5 DEF DueInTx
<1>5. CASE Redistribute \/ Publish
  <2>0. cands = {}
    BY <1>5 DEF Redistribute, Publish, AllSettled, IInv, Control
  <2>1. /\ pc \in {"settle", "finalize"} /\ tx'.settlements = tx.settlements
        /\ UNCHANGED <<tokens, cur, services, due, cands>>
    <3>1. CASE Redistribute
      BY <3>1 DEF Redistribute, dbVars, obsVars
    <3>2. CASE Publish
      BY <3>2 DEF Publish, dbVars
    <3> QED BY <1>5, <3>1, <3>2
  <2>2. \A z : ExpiringTokens(cur, z)' = ExpiringTokens(cur, z)
    BY <2>1 DEF ExpiringTokens
  <2>3. ASSUME NEW d \in due', d.round = cur', d.service \notin services',
               NEW u \in ExpiringTokens(cur, d.service)'
        PROVE  u \in cands' \/ SettledIn(tx.settlements, cur, u)'
    BY <1>i, <2>0, <2>1, <2>2, <2>3 DEF DueInTx, InTx, SettledIn
  <2> QED BY <2>3 DEF DueInTx
<1>6. CASE PressEnter \/ LoopTop \/ Commit \/ Crash \/ Restart \/ NewDay
  BY <1>6, <1>0 DEF PressEnter, LoopTop, Commit, Crash, Restart, NewDay, InTx
<1>7. ASSUME NEW i \in Instance, CommenceVisit(i) PROVE DueInTx'
  BY <1>7, <1>0 DEF CommenceVisit, InTx
<1>8. CASE FinalCalculation
  BY <1>8, <1>0 DEF FinalCalculation, svcVars, InTx
<1>9. ASSUME NEW s \in Service, Toggle(s) PROVE DueInTx'
  BY <1>9, <1>s DEF Toggle, dbVars, svcVars, obsVars
<1>10. CASE RoundTimeUp \/ DayTimeUp \/ UNCHANGED vars
  BY <1>10, <1>s DEF RoundTimeUp, DayTimeUp, vars, dbVars, svcVars, obsVars
<1>11. CASE Redeem
  BY <1>11, <1>s DEF Redeem, Begin, Check, Create, dbVars, svcVars, obsVars
<1> QED
  BY <1>1, <1>2, <1>3, <1>4, <1>5, <1>6, <1>7, <1>8, <1>9, <1>10, <1>11 DEF Next, Serve

-----------------------------------------------------------------------------
\* Rounds that are open owe nothing yet, and the tokens that expire in the others
\* are those that were there.
LEMMA DueFrame ==
    ASSUME DueSettled, UNCHANGED settlements, Finalized' = Finalized,
           \A d \in due' : d \in due \/ d.round \notin Finalized,
           \A s : \A r \in Finalized : ExpiringTokens(r, s)' = ExpiringTokens(r, s)
    PROVE  DueSettled'
BY DEF DueSettled, SettledIn

LEMMA DueStep == IInv /\ LifeInv /\ EndInv /\ DueInv /\ [Next]_vars => DueInv'
<1> SUFFICES ASSUME IInv, LifeInv, EndInv, DueInv, [Next]_vars PROVE DueInv'
  OBVIOUS
<1> USE Numbers, FinalizedRounds
<1>i. DueSettled /\ Progress /\ \A d \in due : d.round \in Nat /\ d.round <= rounds
  BY DEF DueInv, EndInv
<1>t. DueInTx'
  BY DueTxStep
<1>0. ASSUME UNCHANGED <<tokens, settlements, rounds, ended, final, due>>
      PROVE  DueInv'
  <2>1. DueSettled'
    BY <1>0, <1>i, DueFrame DEF ExpiringTokens, Finalized
  <2> QED BY <1>0, <1>i, <1>t, <2>1 DEF DueInv
<1>b. ASSUME UNCHANGED <<tokens, settlements, rounds, ended, final, cur>>, FinalizeBegins,
             pc \in Active
      PROVE  DueInv'
  <2>1. cur = rounds /\ cur \in Nat /\ cur \notin Finalized
    BY <1>b, ActiveRound DEF Open, Finalized
  <2>2. \A d \in due' : d \in due \/ d.round = cur
    BY <1>b, BeginsWithAll
  <2>3. DueSettled'
    BY <1>b, <1>i, <2>1, <2>2, DueFrame DEF ExpiringTokens, Finalized
  <2>4. \A d \in due' : d.round \in Nat /\ d.round <= rounds'
    BY <1>b, <1>i, <2>1, <2>2
  <2> QED BY <1>t, <2>3, <2>4 DEF DueInv
<1>1. CASE CommenceDone
  <2>1. FinalizeBegins \/ UNCHANGED due
    BY <1>1 DEF CommenceDone
  <2> QED BY <1>0, <1>1, <1>b, <2>1 DEF CommenceDone, dbVars, Active
<1>2. CASE EndRound
  <2>1. FinalizeBegins \/ UNCHANGED due
    BY <1>2 DEF EndRound
  <2> QED BY <1>0, <1>2, <1>b, <2>1 DEF EndRound, dbVars, Active
<1>3. CASE Commit
  <2>1. /\ cur = rounds /\ final = 0 /\ cur \in Nat \ {0} /\ cur \notin ended
    BY <1>3, ActiveRound DEF Commit, Active, Open
  <2>2. /\ tokens' = tokens \cup tx.tokens /\ settlements' = settlements \cup tx.settlements
        /\ ended' = ended \cup {cur} /\ rounds' \in Nat /\ rounds <= rounds'
        /\ UNCHANGED <<due, final>>
    BY <1>3 DEF Commit, obsVars
  <2>3. Finalized = ended /\ Finalized' = Finalized \cup {cur}
    BY <2>1, <2>2 DEF Finalized
  <2>4. \A t \in tx.tokens : t.round = rounds + 1
    BY DEF LifeInv, TokenRounds
  <2>5. ASSUME NEW r \in Finalized', NEW s
        PROVE  ExpiringTokens(r, s)' = ExpiringTokens(r, s)
    <3>1. r \in Int /\ r <= rounds
      BY <2>1, <2>3
    <3>2. \A t \in tx.tokens : t.round \in Nat /\ t.round >= r /\ t.round > 0
      BY <2>1, <2>4, <3>1
    <3> QED BY <2>2, <3>1, <3>2, ExpiringKept
  <2>6. pc = "commit" /\ cands = {} /\ services = {}
    BY <1>3, <1>i DEF Commit, IInv, Control, Progress
  <2>7. ASSUME NEW d \in due', d.round \in Finalized', NEW t \in ExpiringTokens(d.round, d.service)'
        PROVE  SettledIn(settlements', d.round, t)
    <3>1. d \in due /\ t \in ExpiringTokens(d.round, d.service)
      BY <2>2, <2>5, <2>7
    <3>2. CASE d.round \in Finalized
      BY <1>i, <2>2, <3>1, <3>2 DEF DueSettled, SettledIn
    <3>3. CASE d.round = cur
      <4>1. SettledIn(tx.settlements, d.round, t)
        BY <2>6, <3>1, <3>3 DEF DueInv, DueInTx, InTx
      <4> QED BY <2>2, <4>1 DEF SettledIn
    <3> QED BY <2>3, <2>7, <3>2, <3>3
  <2>8. DueSettled'
    BY <2>7 DEF DueSettled, SettledIn
  <2>9. \A d \in due' : d.round \in Nat /\ d.round <= rounds'
    BY <1>i, <2>2
  <2> QED BY <1>t, <2>8, <2>9 DEF DueInv
<1>4. CASE FinalCalculation
  <2> DEFINE paid == {[round |-> rounds + 1, token |-> t, paid |-> Redeemers(t)]
                        : t \in UNION {ExpiringTokens(rounds + 1, s) : s \in enabled}}
             begun == {[round |-> rounds + 1, service |-> s] : s \in enabled}
  <2>1. /\ rounds' = rounds + 1 /\ final' = final + 1
        /\ settlements' = settlements \cup paid /\ due' = due \cup begun
        /\ UNCHANGED <<ended, tokens>>
    BY <1>4 DEF FinalCalculation
  <2>2. Finalized' = Finalized \cup {rounds + 1}
    BY <2>1 DEF Finalized
  <2>3. \A r, s : ExpiringTokens(r, s)' = ExpiringTokens(r, s)
    BY <2>1 DEF ExpiringTokens
  <2>4. ASSUME NEW d \in begun, NEW t \in ExpiringTokens(d.round, d.service)
        PROVE  SettledIn(paid, d.round, t)
    <3>1. d.round = rounds + 1 /\ d.service \in enabled
      BY <2>4
    <3>2. [round |-> rounds + 1, token |-> t, paid |-> Redeemers(t)] \in paid
      BY <2>4, <3>1
    <3> HIDE DEF paid
    <3> QED BY <3>1, <3>2 DEF SettledIn
  <2>5. \A d \in begun : d.round = rounds + 1
    OBVIOUS
  <2> HIDE DEF paid, begun
  <2>6. ASSUME NEW d \in due', d.round \in Finalized', NEW t \in ExpiringTokens(d.round, d.service)'
        PROVE  SettledIn(settlements', d.round, t)
    <3>1. t \in ExpiringTokens(d.round, d.service)
      BY <2>3, <2>6
    <3>2. CASE d \in due
      <4>1. d.round \in Finalized
        BY <1>i, <2>2, <2>6, <3>2
      <4> QED BY <1>i, <2>1, <3>1, <3>2, <4>1 DEF DueSettled, SettledIn
    <3>3. CASE d \in begun
      BY <2>1, <2>4, <3>1, <3>3 DEF SettledIn
    <3> QED BY <2>1, <3>2, <3>3
  <2>7. DueSettled'
    BY <2>6 DEF DueSettled, SettledIn
  <2>8. \A d \in due' : d.round \in Nat /\ d.round <= rounds'
    BY <1>i, <2>1, <2>5
  <2> QED BY <1>t, <2>7, <2>8 DEF DueInv
<1>5. ASSUME NEW i \in Instance, CommenceVisit(i) PROVE DueInv'
  <2>1. /\ cur = rounds /\ cur \in Nat \ {0}
        /\ UNCHANGED <<settlements, rounds, ended, final, due>>
    BY <1>5, ActiveRound DEF CommenceVisit, Active, obsVars
  <2>2. \A s : \A r \in Finalized : ExpiringTokens(r, s)' = ExpiringTokens(r, s)
    <3> DEFINE new == IF tx.open \/ i.service \notin enabled THEN {}
                      ELSE {[instance |-> i, round |-> cur]}
    <3>1. tokens' = tokens \cup new
      BY <1>5 DEF CommenceVisit
    <3>2. \A t \in new : t.round = cur
      OBVIOUS
    <3> HIDE DEF new
    <3>3. ASSUME NEW r \in Finalized, NEW s
          PROVE  ExpiringTokens(r, s)' = ExpiringTokens(r, s)
      <4>1. r \in Int /\ r <= rounds
        OBVIOUS
      <4>2. \A t \in new : t.round \in Nat /\ t.round >= r /\ t.round > 0
        BY <2>1, <3>2, <4>1
      <4> QED BY <3>1, <4>1, <4>2, ExpiringKept
    <3> QED BY <3>3
  <2>3. DueSettled'
    BY <1>i, <2>1, <2>2, DueFrame DEF Finalized
  <2> QED BY <1>i, <1>t, <2>1, <2>3 DEF DueInv
<1>6. CASE PressEnter
  <2>1. /\ rounds' = rounds + 1 /\ final = 0
        /\ UNCHANGED <<tokens, settlements, ended, final, due>>
    BY <1>6 DEF PressEnter
  <2>2. Finalized' = Finalized
    BY <2>1 DEF Finalized
  <2>3. DueSettled'
    BY <1>i, <2>1, <2>2, DueFrame DEF ExpiringTokens
  <2> QED BY <1>i, <1>t, <2>1, <2>3 DEF DueInv
<1>7. CASE LoopTop \/ Publish \/ Restart \/ NewDay \/ Crash \/ Redistribute
  BY <1>0, <1>7 DEF LoopTop, Publish, Restart, NewDay, Crash, Redistribute, dbVars, obsVars
<1>8. ASSUME NEW s \in Service, FinalizeService(s) \/ Toggle(s) PROVE DueInv'
  BY <1>0, <1>8 DEF FinalizeService, Toggle, dbVars, obsVars
<1>9. ASSUME NEW t \in cands, SettleToken(t) PROVE DueInv'
  BY <1>0, <1>9 DEF SettleToken, dbVars, obsVars
<1>10. CASE RoundTimeUp \/ DayTimeUp \/ UNCHANGED vars
  BY <1>0, <1>10 DEF RoundTimeUp, DayTimeUp, vars, dbVars, obsVars
<1>11. CASE Redeem
  BY <1>0, <1>11 DEF Redeem, Begin, Check, Create, dbVars, obsVars
<1> QED
  BY <1>1, <1>2, <1>3, <1>4, <1>5, <1>6, <1>7, <1>8, <1>9, <1>10, <1>11 DEF Next, Serve

\* Whatever is disabled or enabled while a round ends, and however often its end is
\* tried, it has settled the expiring tokens of every service that was enabled when
\* the finalize! that was committed began (Round#finalize!).
THEOREM DueIsSettled == Spec => []EnabledServicesSettled
<1>1. Init => DueInv
  BY DEF Init, DueInv, DueInTx, DueSettled, InTx
<1>2. IInv /\ LifeInv /\ EndInv /\ DueInv /\ [Next]_vars => DueInv'
  BY DueStep
<1>3. DueInv => EnabledServicesSettled
  BY DEF DueInv, DueSettled, EnabledServicesSettled, SettledIn
<1> QED BY <1>1, <1>2, <1>3, InductiveInvariant, LifeHolds, EndHolds, PTL DEF Spec
=============================================================================
