---------------------------- MODULE RoundService ----------------------------
(***************************************************************************)
(* The life of the rounds: bin/service, which ends one round and starts    *)
(* the next inside one database transaction, and the web processes that    *)
(* redeem tokens while it does so (Redemption.redeem_for).                 *)
(*                                                                         *)
(* The two meet only in PostgreSQL, at READ COMMITTED: what the service    *)
(* writes inside its transaction (`tx') is invisible to the web until      *)
(* Commit, and what the web commits is visible to the very next statement  *)
(* of the service.                                                         *)
(*                                                                         *)
(* Rows carry what the properties tell apart.  Round ids have gaps in the  *)
(* database (a rolled back round burns a sequence value) but the code only *)
(* compares them, so committed rounds are numbered 1..rounds.              *)
(***************************************************************************)
EXTENDS Integers, FiniteSets

CONSTANTS
    Team,           \* the teams that own instances and redeem tokens
    Service,        \* the services of the game
    Instance,       \* the instances: one team's copy of one service
    Web,            \* the web server's processes
    Expiration,     \* Token::EXPIRATION
    MaxRounds,      \* bound: rounds the service may start
    MaxCrashes,     \* bound: times the service may die
    MaxToggles,     \* bound: times an admin may enable or disable a service
    MaxRedemptions  \* bound: redemptions the web may record

ASSUME InstanceAssumption == Instance \subseteq [team: Team, service: Service]
ASSUME ExpirationAssumption == Expiration \in Nat
ASSUME BoundAssumption ==
    /\ MaxRounds \in Nat \ {0}
    /\ MaxCrashes \in Nat
    /\ MaxToggles \in Nat
    /\ MaxRedemptions \in Nat

VARIABLES
    rounds,           \* how many rounds are committed
    ended,            \* rounds whose ended_at is set
    tokens,           \* rows of tokens
    redemptions,      \* rows of redemptions
    settlements,      \* token movements in rounds.distribution
    redistributions,  \* redistribution records in rounds.distribution
    enabled,          \* services whose enabled column is true
    roundOver,        \* Timer.round.ended?
    gameOver,         \* Timer.today.ended?
    pc,               \* where bin/service is
    cur,              \* its current_round
    todo,             \* instances commence! has still to visit
    services,         \* services finalize! has still to process
    cands,            \* tokens the service being finalized has still to settle
    tx,               \* what the round-end transaction has written
    web,              \* the request each web process is serving
    final,            \* rounds added by the final calculation
    announced,        \* observation: rounds whose round_finish was published
    stale,            \* observation: redemptions whose request outlived a round
    onTime,           \* observation: redemptions that preceded their round's end
    opened,           \* observation: rounds the operator started
    due,              \* observation: services enabled when a round's finalize! began
    crashes, toggles  \* counters of the bounds

dbVars == <<rounds, ended, tokens, redemptions, settlements, redistributions>>
svcVars == <<pc, cur, todo, services, cands, tx>>
adminVars == <<enabled, toggles, gameOver>>
obsVars == <<announced, stale, onTime, opened, due>>
vars == <<dbVars, svcVars, adminVars, obsVars, roundOver, web, final, crashes>>

-----------------------------------------------------------------------------
\* The rows.  The final calculation adds FinalRounds rounds to a finished game.
TwoRounds == 2
FinalRounds == 3
Round == 1..(MaxRounds + FinalRounds)
Token == [instance: Instance, round: Round]
\* round is the Round.current the request read: 0 when there was none.
Redemption == [team: Team, token: Token, round: Round]
Settlement == [round: Round, token: Token, paid: SUBSET Team]
Redistribution == [round: Round, service: Service, recipients: SUBSET Team]

Due == [round: Round, service: Service]

NoTx == [open |-> FALSE, starts |-> FALSE,
         tokens |-> {}, settlements |-> {}, redistributions |-> {}]

Request == [pc: {"begun", "checked"}, team: Team, token: Token,
            round: Round \cup {0}, seen: Round \cup {0}]
NoRequest == [pc |-> "idle"]

-----------------------------------------------------------------------------
\* Round.current: the latest round without ended_at, 0 when there is none.
Open == (1..rounds) \ ended
Current == IF Open = {} THEN 0 ELSE CHOOSE r \in Open : \A q \in Open : q <= r

\* Round.since and Token#eligible?, as a reader outside the transaction sees it.
Since(r) == rounds - r
EligibleOneMore(t) == Since(t.round) <= Expiration + 1
Eligible(t) == Since(t.round) <= Expiration

\* Mutants: a window one round short, and the rounds taken in ascending order.
ExpiringRoundShort(r) ==
    IF r > Expiration THEN r - Expiration ELSE IF r > 1 THEN 1 ELSE 0
ExpiringRoundAscending(r) ==
    IF r > Expiration + 1 THEN Expiration + 1 ELSE r - 1

\* Round#expiring_tokens: of the Expiration + 1 rounds before r, the oldest.
ExpiringRound(r) ==
    IF r > Expiration + 1 THEN r - (Expiration + 1) ELSE IF r > 1 THEN 1 ELSE 0
ExpiringTokens(r, s) ==
    {t \in tokens : t.round = ExpiringRound(r) /\ t.instance.service = s}

Redeemers(t) == {rd.team : rd \in {x \in redemptions : x.token = t}}
\* Mutant: the round of the token instead of the round of the redemption.
RoundRedeemersOfTokens(r, s) ==
    {rd.team : rd \in {x \in redemptions : x.token.round = r /\ x.token.instance.service = s}}
RoundRedeemers(r, s) ==
    {rd.team : rd \in {x \in redemptions : x.round = r /\ x.token.instance.service = s}}

Init ==
    /\ rounds = 0
    /\ ended = {} /\ tokens = {} /\ redemptions = {}
    /\ settlements = {} /\ redistributions = {}
    /\ enabled = Service
    /\ roundOver = TRUE /\ gameOver = FALSE
    /\ pc = "boot" /\ cur = 0
    /\ todo = {} /\ services = {} /\ cands = {} /\ tx = NoTx
    /\ web = [p \in Web |-> NoRequest]
    /\ final = 0
    /\ announced = {} /\ stale = {} /\ onTime = {} /\ opened = {} /\ due = {}
    /\ crashes = 0 /\ toggles = 0

-----------------------------------------------------------------------------
(***************************************************************************)
(* bin/service                                                             *)
(***************************************************************************)

\* The guards of the steps below, each after the mutant that gets it wrong.
MustStartAlways == TRUE
MustStart == Current = 0

AllDepositedEarly == TRUE
AllDeposited == todo = {}

MayResumeOnlyRunning == pc = "loop"
MayResume == pc \in {"boot", "loop"}

RoundDueOnce == roundOver /\ cur \notin announced
RoundDue == roundOver

\* Mutant: the services are read again before each of them.
UnfinalizedReread == services \cap enabled
Unfinalized == services

AllSettledEarly == TRUE
AllSettled == cands = {}

\* finalize! begins: the services it will go over are read.
FinalizeBegins ==
    /\ services' = enabled
    /\ due' = {d \in due : d.round # cur} \cup {[round |-> cur, service |-> s] : s \in enabled}

\* No current round: the operator presses enter, Round.create is committed on
\* its own and commence! sets the round timer.
PressEnter ==
    /\ pc = "boot" /\ MustStart /\ final = 0
    /\ rounds < MaxRounds
    /\ rounds' = rounds + 1
    /\ roundOver' = FALSE
    /\ todo' = Instance
    /\ cur' = rounds + 1
    /\ pc' = "commence"
    /\ opened' = opened \cup {rounds + 1}
    /\ UNCHANGED <<ended, tokens, redemptions, settlements, redistributions, services, cands,
                   tx, adminVars, announced, stale, onTime, due, web, final, crashes>>

\* Round#commence!: Token.create! for the next instance of an enabled service,
\* inside the transaction or, for the round the operator started, outside it.
CommenceVisit(i) ==
    /\ pc = "commence" /\ i \in todo
    /\ todo' = todo \ {i}
    /\ LET new == IF i.service \in enabled
                  THEN {[instance |-> i, round |-> IF tx.open THEN rounds + 1 ELSE cur]}
                  ELSE {}
       IN  IF tx.open
           THEN /\ tx' = [tx EXCEPT !.tokens = @ \cup new]
                /\ UNCHANGED tokens
           ELSE /\ tokens' = tokens \cup new
                /\ UNCHANGED tx
    /\ UNCHANGED <<rounds, ended, redemptions, settlements, redistributions, pc, cur,
                   services, cands, adminVars, obsVars, roundOver, web, final, crashes>>

\* The deposits are done: finalize! in the transaction, or into the loop.
CommenceDone ==
    /\ pc = "commence" /\ AllDeposited
    /\ IF tx.open
       THEN pc' = "finalize" /\ FinalizeBegins
       ELSE pc' = "loop" /\ UNCHANGED <<services, due>>
    /\ UNCHANGED <<dbVars, cur, todo, cands, tx, adminVars, announced, stale, onTime, opened,
                   roundOver, web, final, crashes>>

\* Top of the loop: current_round is read, and the round has to run its time.
LoopTop ==
    /\ MayResume /\ Current # 0 /\ final = 0
    /\ cur' = Current
    /\ pc' = "waiting"
    /\ UNCHANGED <<dbVars, todo, services, cands, tx, adminVars, obsVars, roundOver, web,
                   final, crashes>>

\* The transaction opens: ended_at is set, and either the day is over or the
\* next round is created and commences.
EndRound ==
    /\ pc = "waiting" /\ RoundDue
    /\ gameOver \/ rounds < MaxRounds
    /\ tx' = [NoTx EXCEPT !.open = TRUE, !.starts = ~gameOver]
    /\ onTime' = onTime \cup {rd \in redemptions : rd.round = cur}
    /\ IF gameOver
       THEN pc' = "finalize" /\ FinalizeBegins /\ UNCHANGED todo
       ELSE pc' = "commence" /\ todo' = Instance /\ UNCHANGED <<services, due>>
    /\ UNCHANGED <<dbVars, cur, cands, adminVars, announced, stale, opened, roundOver,
                   web, final, crashes>>

\* RoundFinalizer#candidates for the next service.
FinalizeService(s) ==
    /\ pc = "finalize" /\ s \in Unfinalized
    /\ services' = services \ {s}
    /\ cands' = ExpiringTokens(cur, s)
    /\ pc' = "settle"
    /\ UNCHANGED <<dbVars, cur, todo, tx, adminVars, obsVars, roundOver, web, final, crashes>>

\* Token#process_movements: the redemptions are read now.
SettleToken(t) ==
    /\ pc = "settle"
    /\ cands' = cands \ {t}
    /\ tx' = [tx EXCEPT !.settlements =
                 @ \cup {[round |-> cur, token |-> t, paid |-> Redeemers(t)]}]
    /\ UNCHANGED <<dbVars, pc, cur, todo, services, adminVars, obsVars, roundOver, web,
                   final, crashes>>

\* TokenRedistributor, last of every service's candidates, goes over all the
\* enabled services.
Redistribute ==
    /\ pc = "settle" /\ AllSettled
    /\ tx' = [tx EXCEPT !.redistributions =
                 @ \cup {[round |-> cur, service |-> s, recipients |-> RoundRedeemers(cur, s)]
                          : s \in enabled}]
    /\ pc' = "finalize"
    /\ UNCHANGED <<dbVars, cur, todo, services, cands, adminVars, obsVars, roundOver, web,
                   final, crashes>>

\* The last statement of finalize!: round_finish goes out before the commit.
Publish ==
    /\ pc = "finalize" /\ Unfinalized = {}
    /\ announced' = announced \cup {cur}
    /\ pc' = "commit"
    /\ UNCHANGED <<dbVars, cur, todo, services, cands, tx, adminVars, stale, onTime, opened,
                   due, roundOver, web, final, crashes>>

Commit ==
    /\ pc = "commit"
    /\ ended' = ended \cup {cur}
    /\ rounds' = IF tx.starts THEN rounds + 1 ELSE rounds
    /\ tokens' = tokens \cup tx.tokens
    /\ settlements' = settlements \cup tx.settlements
    /\ redistributions' = redistributions \cup tx.redistributions
    /\ roundOver' = (roundOver /\ ~tx.starts)
    /\ pc' = IF tx.starts THEN "loop" ELSE "stopped"
    /\ tx' = NoTx
    /\ UNCHANGED <<redemptions, cur, todo, services, cands, adminVars, obsVars, web, final,
                   crashes>>

\* The process dies (an exception, a lost Redis, the host); PostgreSQL rolls back.
Crash ==
    /\ pc \notin {"down", "stopped"} /\ crashes < MaxCrashes
    /\ crashes' = crashes + 1
    /\ pc' = "down"
    /\ cur' = 0 /\ todo' = {} /\ services' = {} /\ cands' = {} /\ tx' = NoTx
    /\ UNCHANGED <<dbVars, adminVars, obsVars, roundOver, web, final>>

Restart ==
    /\ pc = "down" /\ pc' = "boot"
    /\ UNCHANGED <<dbVars, cur, todo, services, cands, tx, adminVars, obsVars, roundOver, web,
                   final, crashes>>

\* The next day: the day's timer is set again and the service started.
NewDay ==
    /\ pc = "stopped" /\ final = 0 /\ rounds < MaxRounds
    /\ pc' = "boot" /\ gameOver' = FALSE
    /\ UNCHANGED <<dbVars, cur, todo, services, cands, tx, enabled, toggles, obsVars,
                   roundOver, web, final, crashes>>

Serve ==
    \/ PressEnter \/ CommenceDone \/ LoopTop \/ EndRound
    \/ Redistribute \/ Publish \/ Commit
    \/ \E i \in Instance : CommenceVisit(i)
    \/ \E s \in Service : FinalizeService(s)
    \/ \E t \in cands : SettleToken(t)

-----------------------------------------------------------------------------
(***************************************************************************)
(* The clock, the administrators and the final calculation                 *)
(***************************************************************************)
RoundTimeUp ==
    /\ ~roundOver /\ roundOver' = TRUE
    /\ UNCHANGED <<dbVars, svcVars, adminVars, obsVars, web, final, crashes>>

DayTimeUp ==
    /\ ~gameOver /\ gameOver' = TRUE
    /\ UNCHANGED <<dbVars, svcVars, enabled, toggles, obsVars, roundOver, web, final, crashes>>

\* Admin::ServicesController#update
Toggle(s) ==
    /\ toggles < MaxToggles /\ final = 0
    /\ toggles' = toggles + 1
    /\ enabled' = IF s \in enabled THEN enabled \ {s} ELSE enabled \cup {s}
    /\ UNCHANGED <<dbVars, svcVars, gameOver, obsVars, roundOver, web, final, crashes>>

\* bin/2014-final-calculation, three times over a copy of the finished game's
\* database: Round.create and finalize!.  From here on the model is that copy:
\* no service and no web process works on it.
FinalCalculation ==
    /\ pc \in {"boot", "down", "stopped"} /\ gameOver
    /\ final \in 0..(FinalRounds - 1) /\ (final = 0 => Current = 0)
    /\ rounds > 0
    /\ final' = final + 1
    /\ rounds' = rounds + 1
    /\ settlements' = settlements \cup
          {[round |-> rounds + 1, token |-> t, paid |-> Redeemers(t)]
             : t \in UNION {ExpiringTokens(rounds + 1, s) : s \in enabled}}
    /\ redistributions' = redistributions \cup
          {[round |-> rounds + 1, service |-> s, recipients |-> RoundRedeemers(rounds + 1, s)]
             : s \in enabled}
    /\ announced' = announced \cup {rounds + 1}
    /\ due' = due \cup {[round |-> rounds + 1, service |-> s] : s \in enabled}
    /\ UNCHANGED <<ended, tokens, redemptions, svcVars, adminVars, stale, onTime, opened,
                   roundOver, web, crashes>>

-----------------------------------------------------------------------------
(***************************************************************************)
(* Redemption.redeem_for, one transaction per token: Round.current, the    *)
(* checks, the insert.                                                     *)
(***************************************************************************)

\* A team submits a token it found on a box: the deposit puts it there before
\* the transaction that holds its row commits.
Begin(p, team, t) ==
    /\ web[p].pc = "idle" /\ final = 0
    /\ Cardinality(redemptions) < MaxRedemptions
    /\ web' = [web EXCEPT ![p] = [pc |-> "begun", team |-> team, token |-> t,
                                  round |-> Current, seen |-> rounds]]
    /\ UNCHANGED <<dbVars, svcVars, adminVars, obsVars, roundOver, final, crashes>>

\* The checks of redeem_for; mutant: without eligible?.
RedeemableForever(team, t) == t \in tokens /\ team # t.instance.team
Redeemable(team, t) == t \in tokens /\ Eligible(t) /\ team # t.instance.team

\* from_token_string, eligible? and the owner test: any failure raises.
Check(p) ==
    /\ web[p].pc = "begun" /\ final = 0
    /\ web' = [web EXCEPT ![p] = IF Redeemable(web[p].team, web[p].token)
                                 THEN [@ EXCEPT !.pc = "checked"] ELSE NoRequest]
    /\ UNCHANGED <<dbVars, svcVars, adminVars, obsVars, roundOver, final, crashes>>

\* Without a round the row is invalid and `create' returns it unsaved; the unique
\* index on team and token refuses a second row.  Mutant: without validations.
InsertableUnvalidated(q) == q.team \notin Redeemers(q.token)
Insertable(q) == q.round # 0 /\ q.team \notin Redeemers(q.token)

\* The insert.
Create(p) ==
    /\ web[p].pc = "checked" /\ final = 0
    /\ web' = [web EXCEPT ![p] = NoRequest]
    /\ LET q == web[p]
           row == [team |-> q.team, token |-> q.token, round |-> q.round]
       IN  IF Insertable(q)
           THEN /\ redemptions' = redemptions \cup {row}
                /\ stale' = IF q.seen # rounds THEN stale \cup {row} ELSE stale
           ELSE UNCHANGED <<redemptions, stale>>
    /\ UNCHANGED <<rounds, ended, tokens, settlements, redistributions, svcVars, adminVars,
                   announced, onTime, opened, due, roundOver, final, crashes>>

Redeem ==
    \E p \in Web :
        \/ \E team \in Team, t \in tokens \cup tx.tokens : Begin(p, team, t)
        \/ Check(p)
        \/ Create(p)

-----------------------------------------------------------------------------
Next ==
    \/ Serve \/ Crash \/ Restart \/ NewDay
    \/ RoundTimeUp \/ DayTimeUp \/ FinalCalculation
    \/ \E s \in Service : Toggle(s)
    \/ Redeem

Spec == Init /\ [][Next]_vars

(***************************************************************************)
(* The service is one loop the operator restarts, its clocks advance, and  *)
(* a request that began is served to its end.  Nobody has to redeem, crash *)
(* or toggle anything.                                                     *)
(***************************************************************************)
Fairness ==
    /\ WF_vars(Serve) /\ WF_vars(Restart)
    /\ WF_vars(RoundTimeUp) /\ WF_vars(DayTimeUp) /\ WF_vars(FinalCalculation)
    /\ \A p \in Web : WF_vars(Check(p) \/ Create(p))

FairSpec == Spec /\ Fairness
-----------------------------------------------------------------------------
(***************************************************************************)
(* What must hold                                                          *)
(***************************************************************************)

\* Every variable has its type, in every state of bin/service and the web.
TypeOK ==
    /\ rounds \in 0..(MaxRounds + FinalRounds)
    /\ ended \subseteq 1..rounds
    /\ tokens \subseteq Token /\ redemptions \subseteq Redemption
    /\ settlements \subseteq Settlement /\ redistributions \subseteq Redistribution
    /\ enabled \subseteq Service
    /\ roundOver \in BOOLEAN /\ gameOver \in BOOLEAN
    /\ pc \in {"boot", "commence", "loop", "waiting", "finalize", "settle", "commit",
               "stopped", "down"}
    /\ cur \in 0..rounds
    /\ todo \subseteq Instance /\ services \subseteq Service /\ cands \subseteq Token
    /\ tx \in [open: BOOLEAN, starts: BOOLEAN, tokens: SUBSET Token,
               settlements: SUBSET Settlement, redistributions: SUBSET Redistribution]
    /\ web \in [Web -> Request \cup {NoRequest}]
    /\ final \in 0..FinalRounds
    /\ announced \subseteq Round /\ opened \subseteq Round /\ due \subseteq Due
    /\ stale \subseteq redemptions /\ onTime \subseteq redemptions
    /\ crashes \in Nat /\ toggles \in Nat

\* Whatever the crashes and restarts, at most one round is open while the game
\* runs, it is the last one, and it is the one the service works on.
OneRoundOpen ==
    final = 0 =>
        /\ Open \subseteq {rounds}
        /\ pc \in {"commence", "loop", "waiting", "finalize", "settle", "commit"} =>
               Open = {rounds} /\ (cur = rounds \/ pc = "loop")

\* Rounds whose finalize! is in the database.
Finalized == ended \cup (rounds - final + 1 .. rounds)

\* A round's end, its announcement and its whole distribution are one: every
\* finalized round redistributed every service and settled every token that
\* expired in it, and no other round has a movement (nobody toggles services).
RoundsEndWhole ==
    /\ Finalized \subseteq announced
    /\ \A x \in settlements \cup redistributions : x.round \in Finalized
    /\ toggles = 0 => \A r \in Finalized, s \in Service :
           /\ \E x \in redistributions : x.round = r /\ x.service = s
           /\ \A t \in ExpiringTokens(r, s) :
                  \E x \in settlements : x.round = r /\ x.token = t

\* After the opening round, a token is settled only once nobody may redeem it
\* any more, so that no prompt redemption can be forgotten by the settlement.
SettledAfterExpiry ==
    \A x \in settlements : x.token.round > 1 => ~Eligible(x.token)

\* After the opening round, no token is settled twice: nobody loses the flags
\* of one token in two rounds, nor twice in one, restarts included.
SettledOnce ==
    \A x, y \in settlements : x.token = y.token /\ x.token.round > 1 => x = y

\* The settlement of an expired token pays every team whose request to redeem
\* it ran its checks and its insert within one round.
PromptRedemptionPaid ==
    \A rd \in redemptions \ stale, x \in settlements :
        x.token = rd.token /\ x.round > rd.token.round + Expiration => rd.team \in x.paid

\* A request that ran within one round is booked to a round of its token's life.
BookedWithinLife ==
    \A rd \in redemptions \ stale :
        rd.round \in rd.token.round .. (rd.token.round + Expiration)

\* A redemption made before its round's closing transaction began has its share
\* in every pass of that round's redistribution.
OnTimeRedemptionShares ==
    \A rd \in onTime, x \in redistributions :
        x.round = rd.round /\ x.service = rd.token.instance.service => rd.team \in x.recipients

\* Every service that is enabled when the finalize! begins that a round's end
\* commits has settled the tokens that expire in it, whatever an administrator
\* disables or enables meanwhile, and however often the end was tried before.
EnabledServicesSettled ==
    \A d \in due : d.round \in Finalized =>
        \A t \in ExpiringTokens(d.round, d.service) :
            \E x \in settlements : x.round = d.round /\ x.token = t

\* The rounds in play that lack the token of some instance.
Uncommenced ==
    {r \in 1..(rounds - final) :
        \E i \in Instance : [instance |-> i, round |-> r] \notin tokens}

\* Only the round an operator started can be left without tokens by a crash: a
\* round begun by the loop has them all (nobody toggles services).
LoopRoundsCommence ==
    toggles = 0 => Uncommenced \subseteq opened

-----------------------------------------------------------------------------
\* Liveness, under FairSpec.

\* Every round that is started is ended and finalized, through crashes in any
\* step of its closing transaction.
RoundsEnd ==
    \A r \in 1..MaxRounds : (rounds = r /\ final = 0) ~> (r \in ended)

\* Once the final calculation has run, every prompt redemption has been paid.
PromptRedemptionSettled ==
    \A i \in Instance, r \in 1..MaxRounds, team \in Team :
        LET t == [instance |-> i, round |-> r]
        IN  (team \in {rd.team : rd \in {x \in redemptions \ stale : x.token = t}})
            ~> (\E x \in settlements : x.token = t /\ team \in x.paid)

\* A round whose end was announced does end, even when the transaction that
\* announced it was rolled back.
AnnouncedRoundEnds ==
    \A r \in 1..MaxRounds : (r \in announced /\ final = 0) ~> (r \in ended)
-----------------------------------------------------------------------------
(***************************************************************************)
(* What the rules or the tests say, and the code does not do               *)
(***************************************************************************)

\* Every team that redeemed a token in a round shares that round's remainder
\* (the rules, app/views/pages/howto.html.haml).
EveryRedeemerShares ==
    \A rd \in redemptions \ stale, x \in redistributions :
        x.round = rd.round /\ x.service = rd.token.instance.service => rd.team \in x.recipients

=============================================================================
