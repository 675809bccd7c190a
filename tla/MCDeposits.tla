----------------------------- MODULE MCDeposits -----------------------------
(* Three tokens of two teams and two services for two threads.              *)
EXTENDS Deposits, TLC

CONSTANTS t1, t2, t3, s1, s2, root, a, b, w1, w2, none

Owners == (t1 :> a) @@ (t2 :> a) @@ (t3 :> b)
Homes == (t1 :> s1) @@ (t2 :> s2) @@ (t3 :> s1)
=============================================================================
