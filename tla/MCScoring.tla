----------------------------- MODULE MCScoring -----------------------------
(* Small games for Scoring: teams are interchangeable, and so are services. *)
EXTENDS Scoring, TLC

CONSTANTS a, b, c, legitbs, s1, s2

Alike == Permutations(Participant) \cup Permutations(Service)
=============================================================================
