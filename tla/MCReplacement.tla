--------------------------- MODULE MCReplacement ---------------------------
(* Two web processes and two binaries.                                      *)
EXTENDS Replacement, TLC

CONSTANTS d1, d2, shipped, part, w1, w2

Alike == Permutations(Binary) \cup Permutations(Web)
=============================================================================
