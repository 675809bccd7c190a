\* Two services whose checks interleave, two threads each; two rounds, two crashes
\* and a toggle at any step, to the end.
CONSTANTS
    a = a  b = b  legitbs = legitbs  s1 = s1  s2 = s2
    Participant = {a, b}
    House = legitbs
    Service = {s1, s2}
    Workers = 2
    MaxRounds = 2
    MaxCrashes = 2
    MaxToggles = 1
SPECIFICATION FairSpec
INVARIANTS
    RefereePresent
    CheckedOnce
    WholeOrNothing
    ScheduledRecorded
PROPERTIES
    RoundsProceed
\* The bound on rounds ends the game.
CHECK_DEADLOCK FALSE
