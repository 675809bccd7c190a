---------------------------- MODULE CheckSchedule ----------------------------
(***************************************************************************)
(* When the check of one service starts: AvailabilityCheck#schedule! draws *)
(* a random wait from what the round has left, less the average duration   *)
(* of the checks so far and a margin.  Times are in ticks, any number to   *)
(* the second, counted from the moment schedule! runs; the average is kept *)
(* as a sum and a length, so that it stays a fraction.                     *)
(***************************************************************************)
EXTENDS Integers

CONSTANTS
    Second,     \* ticks in a second
    Initial,    \* INITIAL_TIMING, in seconds
    Skew,       \* the 70 seconds that skew the checks earlier
    Remaining,  \* ticks a round may have left when its checks are scheduled
    Durations,  \* ticks that the checks of a service may take
    MaxWaits   \* bound: rounds scheduled

ASSUME TimesAssumption ==
    /\ Second \in Nat \ {0}
    /\ Initial \in Nat /\ Skew \in Nat
    /\ Remaining \subseteq Nat /\ Durations \subseteq Nat
    /\ MaxWaits \in Nat

VARIABLES
    sum, len,   \* timing_history: the sum of its durations and their number
    pc,         \* whether a check waits for its turn
    remaining,  \* deadline - Time.now
    wait,       \* the wait drawn
    waits       \* counter of the bound

waitVars == <<sum, len, pc, remaining, wait, waits>>

InitWait ==
    /\ sum = Initial * Second /\ len = 1
    /\ pc = "free" /\ remaining = 0 /\ wait = 0 /\ waits = 0

-----------------------------------------------------------------------------
\* start_before, in ticks times len; mutant: without the skew.
StartBeforeUnskewed(left) == left * len - sum
StartBefore(left) == (left - Skew * Second) * len - sum

AbsoluteValue(n) == IF n < 0 THEN -n ELSE n

\* Kernel#rand(x): a whole number of seconds below x.to_i.abs (mutant: up to it), or,
\* when that is 0, a Float below one second.
DrawUpTo(seconds) == IF seconds = 0 THEN 0 .. Second - 1 ELSE {n * Second : n \in 0 .. seconds}
Draw(seconds) == IF seconds = 0 THEN 0 .. Second - 1 ELSE {n * Second : n \in 0 .. seconds - 1}

Measured(duration) == duration

DrawWait ==
    /\ pc = "free" /\ waits < MaxWaits
    /\ pc' = "scheduled" /\ waits' = waits + 1
    /\ \E left \in Remaining :
        /\ remaining' = left
        /\ wait' \in Draw(AbsoluteValue(StartBefore(left)) \div (len * Second))
    /\ UNCHANGED <<sum, len>>

\* check_all_instances, timed: timing_history << duration
Run ==
    /\ pc = "scheduled"
    /\ \E duration \in Durations : sum' = sum + Measured(duration)
    /\ len' = len + 1
    /\ pc' = "free" /\ remaining' = 0 /\ wait' = 0
    /\ UNCHANGED waits

NextWait == DrawWait \/ Run
WaitSpec == InitWait /\ [][NextWait]_waitVars

-----------------------------------------------------------------------------
\* Every variable has its type; the history never turns negative.
WaitTypeOK ==
    /\ sum \in Nat /\ len \in Nat \ {0}
    /\ pc \in {"free", "scheduled"}
    /\ remaining \in Nat /\ wait \in Nat /\ waits \in 0..MaxWaits

\* Checks that fit into the rest of the round, by the average so far, start early
\* enough to end the skew before it does, after any history of durations: if a whole
\* second is left for the wait exactly, and otherwise to less than one second.
FittingChecksFit ==
    pc = "scheduled" /\ StartBefore(remaining) > 0 =>
        \/ wait * len + sum + Skew * Second * len <= remaining * len
        \/ StartBefore(remaining) < Second * len /\ wait < Second

\* Checks that do not fit wait less than a second, or less long than they and the
\* skew would overrun the round if they started at once.
LateByTheOverrun ==
    pc = "scheduled" /\ StartBefore(remaining) <= 0 =>
        wait < Second \/ (wait + Second) * len + remaining * len <= sum + Skew * Second * len
=============================================================================
