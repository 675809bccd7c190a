-------------------------- MODULE MCCheckSchedule --------------------------
(* The constants of the code; a handful of rounds and of durations.         *)
EXTENDS CheckSchedule
=============================================================================
