\* Two web processes race for the token of one instance across a round's end, a
\* crash and a toggle; a second service adds a second pass of the redistributor.
CONSTANTS
    v = v  a = a  s1 = s1  s2 = s2
    Team = {v, a}
    Service = {s1, s2}
    Instance <- OneInstance
    Web = {w1, w2}
    Expiration = 1
    MaxRounds = 2
    MaxCrashes = 1
    MaxToggles = 1
    MaxRedemptions = 2
SPECIFICATION Spec
INVARIANTS
    EnabledServicesSettled
    OnTimeRedemptionShares
\* The game ends, and the bounds end it.
CHECK_DEADLOCK FALSE
