\* A redemption while the round it is booked to is being closed.
CONSTANTS
    v = v  a = a  s1 = s1  s2 = s2
    Team = {v, a}
    Service = {s1}
    Instance <- OneInstance
    Web = {w1}
    Expiration = 2
    MaxRounds = 2
    MaxCrashes = 0
    MaxToggles = 0
    MaxRedemptions = 1
SPECIFICATION Spec
INVARIANTS
    EveryRedeemerShares
\* The game ends, and the bounds end it.
CHECK_DEADLOCK FALSE
