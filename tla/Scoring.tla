------------------------------ MODULE Scoring ------------------------------
(***************************************************************************)
(* What a round's end does to the flags: for every enabled service, in an  *)
(* order drawn from the round's seed, the failed availability checks and   *)
(* the expiring tokens move flags, and the redistributor shares out what   *)
(* could not be split.                                                     *)
(*                                                                         *)
(* Flags of one service are interchangeable, so the rows of flags are      *)
(* counts.  The round's redemptions grow while it is being finalized: the  *)
(* web commits them meanwhile (RoundService has the when and the why).     *)
(* The enabled services are the same from the start of a round's end to    *)
(* its commit: a toggle in between, which the redistributor would see in   *)
(* its next pass, is left to RoundService.                                 *)
(***************************************************************************)
EXTENDS Integers, FiniteSets, FiniteSetsExt, Functions, Standings

CONSTANTS
    Participant,    \* the teams that play
    House,          \* Team.legitbs
    Service,        \* the enabled services
    Limit,          \* Team::PARTICIPANT_COUNT, and the 15 of Availability
    Tranche,        \* the flags a team is dealt in each service
    MaxRounds,      \* bound: rounds finalized
    MaxCandidates   \* bound: checks and tokens of one service in one round

Holder == Participant \cup {House}

ASSUME HouseAssumption == House \notin Participant
ASSUME TeamsAssumption == IsFiniteSet(Participant)
ASSUME ServicesAssumption == IsFiniteSet(Service)
ASSUME LimitAssumption == Limit \in Nat \ {0} /\ Tranche \in Nat
ASSUME ScoringBoundAssumption == MaxRounds \in Nat /\ MaxCandidates \in Nat

VARIABLES
    flags,        \* flags[s][h]: flags of service s that h owns
    pc,           \* where finalize! is
    round,        \* rounds finalized so far
    services,     \* services finalize! has still to process
    cur,          \* the service of the RoundFinalizer at work
    referee,      \* whether legitbs's own check of that service was healthy
    cands,        \* its candidates still to be processed
    recipients,   \* recipients[s]: who redeemed tokens of s in this round
    dealt,        \* observation: flags when the round's end began
    charged       \* observation: movements of this round charged to a holder

vars == <<flags, pc, round, services, cur, referee, cands, recipients, dealt, charged>>

\* A failed availability check or a redeemed token that expires.
Candidate == [kind: {"check", "token"}, team: Holder]

NobodyCharged == [s \in Service |-> [h \in Holder |-> 0]]

\* Flag.initial_distribution, which refuses a total it cannot deal evenly.
Init ==
    /\ flags = [s \in Service |-> [h \in Holder |-> IF h = House THEN 0 ELSE Tranche]]
    /\ pc = "play" /\ round = 0
    /\ services = {} /\ cur \in Service /\ referee = FALSE /\ cands = {}
    /\ recipients = [s \in Service |-> {}]
    /\ dealt = flags /\ charged = NobodyCharged

-----------------------------------------------------------------------------
MinOf(a, b) == IF a <= b THEN a ELSE b

\* Mutants: without `limit', and whether or not the team has the flags.
StakeUnlimited(owned) == owned
StakeFull(owned) == Limit
\* instance.flags.limit(15)
Stake(owned) == MinOf(Limit, owned)

RemainderForgotten(stake, n) == 0
Remainder(stake, n) == stake % n

Splittable(owned, n) == owned >= n
\* Mutant: `<=' in "return if flags.count < recipients.count".
SharedOutLate(owned, n) == n > 0 /\ owned > n
SharedOut(owned, n) == n > 0 /\ Splittable(owned, n)

\* One movement within s: the payer loses `paid', every holder gains gain[h].
Move(s, payer, paid, gain) ==
    /\ flags' = [flags EXCEPT ![s] =
                    [h \in Holder |-> @[h] + gain[h] - (IF h = payer THEN paid ELSE 0)]]
    /\ charged' = [charged EXCEPT ![s] =
                      [h \in Holder |-> @[h] + (IF h = payer THEN 1 ELSE 0)]]

\* Round#finalize! begins.
FinalizeRound ==
    /\ pc = "play" /\ round < MaxRounds
    /\ pc' = "services" /\ services' = Service
    /\ recipients' = [s \in Service |-> {}]
    /\ dealt' = flags /\ charged' = NobodyCharged
    /\ UNCHANGED <<flags, round, cur, referee, cands>>

\* RoundFinalizer#candidates for the next service.
FinalizeService(s) ==
    /\ pc = "services" /\ s \in services
    /\ services' = services \ {s} /\ cur' = s
    /\ referee' \in BOOLEAN
    /\ cands' \in UNION {kSubset(n, Candidate) : n \in 0..MaxCandidates}
    /\ pc' = "movements"
    /\ UNCHANGED <<flags, round, recipients, dealt, charged>>

\* Availability#process_movements of a failed check spares the house, and
\* everybody when the house's own copy is down.
Spared(team) == team = House \/ ~referee
Poor(team) == flags[cur][team] < Limit

ProcessSpared(c) ==
    /\ pc = "movements" /\ c \in cands /\ c.kind = "check" /\ Spared(c.team)
    /\ cands' = cands \ {c}
    /\ UNCHANGED <<flags, pc, round, services, cur, referee, recipients, dealt, charged>>

\* distribute_parking: the house takes what a poor team has.
DistributeParking(c) ==
    /\ pc = "movements" /\ c \in cands /\ c.kind = "check" /\ ~Spared(c.team)
    /\ Poor(c.team)
    /\ cands' = cands \ {c}
    /\ LET stake == Stake(flags[cur][c.team])
       IN  Move(cur, c.team, stake, [h \in Holder |-> IF h = House THEN stake ELSE 0])
    /\ UNCHANGED <<pc, round, services, cur, referee, recipients, dealt>>

\* distribute_everywhere: one flag to each of the other teams, in no set order,
\* until either runs out.
DistributeEverywhere(c) ==
    /\ pc = "movements" /\ c \in cands /\ c.kind = "check" /\ ~Spared(c.team)
    /\ ~Poor(c.team)
    /\ cands' = cands \ {c}
    /\ LET others == Participant \ {c.team}
           n == MinOf(Stake(flags[cur][c.team]), Cardinality(others))
       IN  \E lucky \in kSubset(n, others) :
               Move(cur, c.team, n, [h \in Holder |-> IF h \in lucky THEN 1 ELSE 0])
    /\ UNCHANGED <<pc, round, services, cur, referee, recipients, dealt>>

\* Token#process_movements: an equal share to each team that redeemed it, the
\* remainder to the house.
ProcessToken(c, redeemers) ==
    /\ pc = "movements" /\ c \in cands /\ c.kind = "token"
    /\ cands' = cands \ {c}
    /\ LET stake == Stake(flags[cur][c.team])
           n == Cardinality(redeemers)
           share(h) == IF h \in redeemers THEN stake \div n ELSE 0
           rest(h) == IF h = House THEN Remainder(stake, n) ELSE 0
       IN  Move(cur, c.team, stake, [h \in Holder |-> share(h) + rest(h)])
    /\ UNCHANGED <<pc, round, services, cur, referee, recipients, dealt>>

\* The flags of s after TokenRedistributor#process_movements_for_service.
Redistributed(s, to) ==
    LET n == Cardinality(to)
        owned == flags[s][House]
        bounty == owned \div n
    IN  IF SharedOut(owned, n)
        THEN [h \in Holder |-> CASE h \in to   -> flags[s][h] + bounty
                                 [] h = House -> owned - bounty * n
                                 [] OTHER     -> flags[s][h]]
        ELSE flags[s]

\* TokenRedistributor, last of the candidates of every service, goes over all
\* the services, with the redemptions committed by now.
Redistribute(to) ==
    /\ pc = "movements" /\ cands = {}
    /\ \A s \in Service : recipients[s] \subseteq to[s]
    /\ recipients' = to
    /\ flags' = [s \in Service |-> Redistributed(s, to[s])]
    /\ pc' = "services"
    /\ UNCHANGED <<round, services, cur, referee, cands, dealt, charged>>

\* The round's transaction commits.
RoundDone ==
    /\ pc = "services" /\ services = {}
    /\ pc' = "play" /\ round' = round + 1
    /\ UNCHANGED <<flags, services, cur, referee, cands, recipients, dealt, charged>>

Process(c) ==
    \/ ProcessSpared(c) \/ DistributeParking(c) \/ DistributeEverywhere(c)
    \/ \E redeemers \in (SUBSET (Participant \ {c.team})) \ {{}} : ProcessToken(c, redeemers)

Next ==
    \/ FinalizeRound \/ RoundDone
    \/ \E s \in Service : FinalizeService(s)
    \/ \E c \in cands : Process(c)
    \/ \E to \in [Service -> SUBSET Participant] : Redistribute(to)

Spec == Init /\ [][Next]_vars

-----------------------------------------------------------------------------
\* Nobody ever owes flags, whatever is charged in whatever order, and the rest
\* of the state has its type.
TypeOK ==
    /\ flags \in [Service -> [Holder -> Nat]] /\ dealt \in [Service -> [Holder -> Nat]]
    /\ charged \in [Service -> [Holder -> Nat]]
    /\ pc \in {"play", "services", "movements"} /\ round \in Nat
    /\ services \subseteq Service /\ cur \in Service /\ referee \in BOOLEAN
    /\ cands \subseteq Candidate
    /\ recipients \in [Service -> SUBSET Participant]

\* In one round's end a team loses at most Limit flags of a service for each
\* check it failed and each of its tokens that was redeemed: a team with
\* neither keeps all it had, whatever happens to the others.
LossBounded ==
    \A s \in Service, p \in Participant :
        flags[s][p] + Limit * charged[s][p] >= dealt[s][p]

\* When a round has ended, the house has fewer flags of a service left than
\* there were teams to share them: no flags wait while there is someone to split
\* them, in whichever order the services and their candidates went.
RemainderUnsplittable ==
    pc = "play" => \A s \in Service :
        recipients[s] # {} => flags[s][House] < Cardinality(recipients[s])

\* Every movement is one of the ledger's: nothing is made or lost, one holder
\* pays, the teams that gain gain alike.
Ledger == INSTANCE FlagLedger
LedgerSpec == Ledger!Spec

-----------------------------------------------------------------------------
\* The scoreboard: how many flags a team owns, best first.  Which of two equal
\* teams comes first is up to their names.
Score(t) == SumFunction([s \in Service |-> flags[s][t]])
FlagCount == SumFunction([s \in Service |-> SumFunction(flags[s])])
Scoreboard ==
    {board \in Bijection(1..Cardinality(Participant), Participant) :
        \A i, j \in DOMAIN board : i < j => Score(board[i]) >= Score(board[j])}

\* At any moment of the game a team's place is one more than the number of teams
\* with more flags, ties included, whatever order equal teams are listed in.
PlaceCountsBetterTeams ==
    \A board \in Scoreboard :
        LET places == Places([i \in DOMAIN board |-> Score(board[i])], FlagCount)
        IN  \A i \in DOMAIN board :
                places[i] = 1 + Cardinality({t \in Participant : Score(t) > Score(board[i])})
=============================================================================
