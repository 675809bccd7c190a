----------------------------- MODULE FlagLedger -----------------------------
(***************************************************************************)
(* What the scoring promises of the flags, with nothing of how: flags are  *)
(* dealt once and from then on only change hands, within their service.    *)
(* In one movement one holder pays, and the teams that gain gain alike;    *)
(* what cannot be split goes to the house.                                 *)
(***************************************************************************)
EXTENDS Integers, Functions

CONSTANTS Holder, House, Service

VARIABLE flags    \* flags[s][h]: how many flags of service s holder h owns

Gain(s, h) == flags'[s][h] - flags[s][h]

OnePays(s) == \E payer \in Holder : \A h \in Holder \ {payer} : Gain(s, h) >= 0

GainersAlike(s) ==
    \A g, h \in Holder \ {House} : Gain(s, g) > 0 /\ Gain(s, h) > 0 => Gain(s, g) = Gain(s, h)

NoneMadeOrLost(s) == SumFunction(flags'[s]) = SumFunction(flags[s])

Init == flags \in [Service -> [Holder -> Nat]]

Next ==
    /\ flags' \in [Service -> [Holder -> Nat]]
    /\ \A s \in Service : OnePays(s) /\ GainersAlike(s) /\ NoneMadeOrLost(s)

Spec == Init /\ [][Next]_flags
=============================================================================
