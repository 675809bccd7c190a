------------------------ MODULE MCAvailabilityChecks ------------------------
(* Two teams and legitbs.                                                   *)
EXTENDS AvailabilityChecks

CONSTANTS a, b, legitbs, s1, s2
=============================================================================
