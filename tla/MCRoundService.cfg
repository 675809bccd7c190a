\* The whole game under FairSpec, with the code's Expiration: four rounds, so that
\* the service settles an expired token while the web redeems; one crash anywhere,
\* nights between days, the final calculation.
CONSTANTS
    v = v  a = a  s1 = s1  s2 = s2
    Team = {v, a}
    Service = {s1}
    Instance <- OneInstance
    Web = {w1}
    Expiration = 2
    MaxRounds = 4
    MaxCrashes = 1
    MaxToggles = 0
    MaxRedemptions = 1
SPECIFICATION FairSpec
INVARIANTS
    TypeOK
    OneRoundOpen
    RoundsEndWhole
    SettledAfterExpiry
    SettledOnce
    PromptRedemptionPaid
    BookedWithinLife
    LoopRoundsCommence
PROPERTIES
    RoundsEnd
    AnnouncedRoundEnds
    PromptRedemptionSettled
\* The game ends, and the bounds end it.
CHECK_DEADLOCK FALSE
