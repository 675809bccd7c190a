--------------------------- MODULE MCRoundService ---------------------------
(* Small games for RoundService: one victim and one team that redeems.      *)
EXTENDS RoundService

CONSTANTS v, a, s1, s2

OneInstance == {[team |-> v, service |-> s1]}
=============================================================================
