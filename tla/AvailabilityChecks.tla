------------------------- MODULE AvailabilityChecks -------------------------
(***************************************************************************)
(* The availability checks of a round: bin/service schedules a check of    *)
(* every enabled service, AvailabilityCheck runs legitbs's own copy first  *)
(* and the other teams' in a pool of threads, and bin/service joins them   *)
(* before it ends the round.  All of it may die at any step and start      *)
(* again; what is left of a round's checks are the rows of availabilities. *)
(*                                                                         *)
(* The threads of a pool are alike: `busy' holds the instances they have.  *)
(***************************************************************************)
EXTENDS Integers, FiniteSets

CONSTANTS
    Participant,  \* the teams with an instance of every service
    House,        \* Team.legitbs, which has one too
    Service,
    Workers,      \* AvailabilityCheck::WORKERS
    MaxRounds,    \* bound: rounds checked
    MaxCrashes,   \* bound: times the process may die
    MaxToggles    \* bound: times an admin may enable or disable a service

ASSUME HouseAssumption == House \notin Participant
ASSUME WorkersAssumption == Workers \in Nat \ {0}
ASSUME ChecksBoundAssumption ==
    MaxRounds \in Nat \ {0} /\ MaxCrashes \in Nat /\ MaxToggles \in Nat

VARIABLES
    rows,       \* rows of availabilities
    round,      \* Round.current
    roundOver,  \* Timer.round.ended?
    enabled,    \* services whose enabled column is true
    main,       \* where bin/service is
    st,         \* st[s]: where the thread of s's check is
    queue,      \* queue[s]: instances of s still to be checked
    busy,       \* busy[s]: instances the threads of s are checking
    results,    \* results[s]: checks of s not saved yet
    seen,       \* services cached as enabled by AvailabilityCheck.for_service
    crashes, toggles,  \* counters of the bounds
    due,        \* observation: checks scheduled
    cut         \* observation: rounds in which the process died

checkVars == <<st, queue, busy, results>>
obsVars == <<due, cut>>
vars == <<rows, round, roundOver, enabled, main, checkVars, seen, crashes, toggles, obsVars>>

Team == Participant \cup {House}
\* What a check came to is left out; rows tell apart the processes that made them,
\* numbered by the crashes before them.
Row == [round: 1..MaxRounds, service: Service, team: Team, process: 0..MaxCrashes]
RowOf(s, t) == [round |-> round, service |-> s, team |-> t, process |-> crashes]

NoThread == [s \in Service |-> "none"]
Empty == [s \in Service |-> {}]

Init ==
    /\ rows = {} /\ round = 1 /\ roundOver = FALSE /\ enabled = Service
    /\ main = "top" /\ st = NoThread
    /\ queue = Empty /\ busy = Empty /\ results = Empty
    /\ seen = {} /\ crashes = 0 /\ toggles = 0
    /\ due = {} /\ cut = {}

-----------------------------------------------------------------------------
\* The guards and effects below that a slip would spoil, each after its mutant.
ChecksDoneNever == FALSE
\* Round#availability_checks_done?
ChecksDone == \E x \in rows : x.round = round

RefereeLater(s) == {}
\* @lbs_check.save, before the pool starts.
Referee(s) == {RowOf(s, House)}

AllCheckedEarly(s) == queue[s] = {}
AllChecked(s) == queue[s] = {} /\ busy[s] = {}

JoinedFirst == \E s \in Service : st[s] \in {"none", "saved"}
Joined == \A s \in Service : st[s] \in {"none", "saved"}

\* non_lbs_instances
Afoot == Participant

RoundDueIfChecked == roundOver /\ ChecksDone
RoundDue == roundOver

\* With time left and no checks yet, one thread per enabled service.
Schedule ==
    /\ main = "top" /\ ~roundOver /\ ~ChecksDone
    /\ main' = "join"
    /\ st' = [s \in Service |-> IF s \in enabled THEN "chill" ELSE "none"]
    /\ seen' = seen \cup enabled
    /\ due' = due \cup {<<round, s>> : s \in enabled}
    /\ UNCHANGED <<rows, round, roundOver, enabled, queue, busy, results, crashes, toggles,
                   cut>>

\* The round is over already, or a process before this one has checked.
SkipChecks ==
    /\ main = "top" /\ (roundOver \/ ChecksDone)
    /\ main' = "wait"
    /\ UNCHANGED <<rows, round, roundOver, enabled, checkVars, seen, crashes, toggles, obsVars>>

\* check_all_instances, once the thread has waited its random time (which may
\* go past the end of the round).  Its `enabled' is that of the Service object
\* for_service cached; legitbs's check is saved at once.
Start(s) ==
    /\ st[s] = "chill" /\ s \in seen
    /\ st' = [st EXCEPT ![s] = "pool"]
    /\ rows' = rows \cup Referee(s)
    /\ queue' = [queue EXCEPT ![s] = Afoot]
    /\ UNCHANGED <<round, roundOver, enabled, main, busy, results, seen, crashes, toggles,
                   obsVars>>

\* queue_mutex.synchronize { queue.shift }
Take(s, t) ==
    /\ t \in queue[s] /\ Cardinality(busy[s]) < Workers
    /\ queue' = [queue EXCEPT ![s] = @ \ {t}]
    /\ busy' = [busy EXCEPT ![s] = @ \cup {t}]
    /\ UNCHANGED <<rows, round, roundOver, enabled, main, st, results, seen, crashes, toggles,
                   obsVars>>

\* instance.check_availability, and result_mutex.synchronize { results.push av }
Push(s, t) ==
    /\ t \in busy[s]
    /\ busy' = [busy EXCEPT ![s] = @ \ {t}]
    /\ results' = [results EXCEPT ![s] = @ \cup {t}]
    /\ UNCHANGED <<rows, round, roundOver, enabled, main, st, queue, seen, crashes, toggles,
                   obsVars>>

\* Availability.transaction { results.each(&:save!) }
Save(s) ==
    /\ st[s] = "pool" /\ AllChecked(s)
    /\ st' = [st EXCEPT ![s] = "saved"]
    /\ rows' = rows \cup {RowOf(s, t) : t \in results[s]}
    /\ results' = [results EXCEPT ![s] = {}]
    /\ UNCHANGED <<round, roundOver, enabled, main, queue, busy, seen, crashes, toggles, obsVars>>

\* checks.each(&:join)
Join ==
    /\ main = "join" /\ Joined
    /\ main' = "wait" /\ st' = NoThread
    /\ UNCHANGED <<rows, round, roundOver, enabled, queue, busy, results, seen, crashes, toggles,
                   obsVars>>

\* The round's closing transaction, in one step (RoundService has its own).
EndRound ==
    /\ main = "wait" /\ RoundDue /\ round < MaxRounds
    /\ round' = round + 1 /\ roundOver' = FALSE
    /\ main' = "top"
    /\ UNCHANGED <<rows, enabled, checkVars, seen, crashes, toggles, obsVars>>

\* The process dies: of a script that cannot be run (its exception reaches the
\* join), of PostgreSQL or Redis, or with its host.
Crash ==
    /\ main # "down" /\ crashes < MaxCrashes
    /\ crashes' = crashes + 1
    /\ main' = "down" /\ st' = NoThread
    /\ queue' = Empty /\ busy' = Empty /\ results' = Empty
    /\ seen' = {} /\ cut' = cut \cup {round}
    /\ UNCHANGED <<rows, round, roundOver, enabled, toggles, due>>

Restart ==
    /\ main = "down" /\ main' = "top"
    /\ UNCHANGED <<rows, round, roundOver, enabled, checkVars, seen, crashes, toggles, obsVars>>

RoundTimeUp ==
    /\ ~roundOver /\ roundOver' = TRUE
    /\ UNCHANGED <<rows, round, enabled, main, checkVars, seen, crashes, toggles, obsVars>>

\* Admin::ServicesController#update
Toggle(s) ==
    /\ toggles < MaxToggles /\ toggles' = toggles + 1
    /\ enabled' = IF s \in enabled THEN enabled \ {s} ELSE enabled \cup {s}
    /\ UNCHANGED <<rows, round, roundOver, main, checkVars, seen, crashes, obsVars>>

Threads(s) ==
    Start(s) \/ Save(s) \/ \E t \in Participant : Take(s, t) \/ Push(s, t)

Main == Schedule \/ SkipChecks \/ Join \/ EndRound \/ Restart

Next ==
    \/ Main \/ Crash \/ RoundTimeUp
    \/ \E s \in Service : Threads(s) \/ Toggle(s)

Spec == Init /\ [][Next]_vars

\* The operator restarts bin/service, its threads run and their scripts end, the
\* round's time passes.  Nobody has to crash or toggle anything.
FairSpec ==
    /\ Spec /\ WF_vars(Main) /\ WF_vars(RoundTimeUp)
    /\ \A s \in Service : WF_vars(Threads(s))

-----------------------------------------------------------------------------
\* Every variable has its type; legitbs's own instances never get into a pool.
TypeOK ==
    /\ rows \subseteq Row
    /\ round \in 1..MaxRounds /\ roundOver \in BOOLEAN /\ enabled \subseteq Service
    /\ main \in {"top", "join", "wait", "down"}
    /\ st \in [Service -> {"none", "chill", "pool", "saved"}]
    /\ queue \in [Service -> SUBSET Participant] /\ busy \in [Service -> SUBSET Participant]
    /\ results \in [Service -> SUBSET Participant]
    /\ seen \subseteq Service /\ crashes \in Nat /\ toggles \in Nat
    /\ due \subseteq (1..MaxRounds) \X Service /\ cut \subseteq 1..MaxRounds

Checked(r, s) == {x.team : x \in {y \in rows : y.round = r /\ y.service = s}}

\* No team is ever judged without legitbs's own check of that service and round:
\* Availability#process_movements asks whether that one is healthy, and would
\* abort the closing transaction, again at every restart, if it were missing.
RefereePresent ==
    \A x \in rows : House \in Checked(x.round, x.service)

\* No instance is checked twice in a round, through any crash and restart: the
\* unique index never refuses a row.
CheckedOnce ==
    \A x, y \in rows :
        x.round = y.round /\ x.service = y.service /\ x.team = y.team => x = y

\* The teams' checks of a service are all recorded or none is: a crash never
\* leaves some teams of a round penalized and others unchecked.
WholeOrNothing ==
    \A r \in 1..MaxRounds, s \in Service : Checked(r, s) \in {{}, {House}, Team}

\* A round the process lives through records every check it scheduled before it
\* is ended, however late they start and whoever toggles services meanwhile.
ScheduledRecorded ==
    \A d \in due : d[1] \notin cut /\ (d[1] < round \/ main = "wait") => Checked(d[1], d[2]) = Team

\* Every round is ended, whatever became of its checks.
RoundsProceed == \A r \in 1..(MaxRounds - 1) : (round = r) ~> (round > r)
=============================================================================
