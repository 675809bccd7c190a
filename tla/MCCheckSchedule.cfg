\* Two ticks to the second.  Rounds with all, most, some and none of their 300 seconds
\* left, and with what just fits, a half or a whole second more or less; quick, slow
\* and endless checks.
CONSTANTS
    Second = 2
    Initial = 120
    Skew = 70
    Remaining = {600, 500, 382, 381, 380, 379, 200, 0}
    Durations = {15, 121, 242, 800}
    MaxWaits = 4
SPECIFICATION WaitSpec
INVARIANT
    FittingChecksFit
INVARIANT
    LateByTheOverrun
\* The bound on rounds ends the game.
CHECK_DEADLOCK FALSE
