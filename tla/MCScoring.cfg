\* Two services, each redistributed once for each of them while redemptions come
\* in; up to two charges a round, the second of which finds a poor team.
CONSTANTS
    a = a  b = b  c = c  legitbs = legitbs  s1 = s1  s2 = s2
    Participant = {a, b, c}
    House = legitbs
    Service = {s1, s2}
    Limit = 2
    Tranche = 3
    MaxRounds = 1
    MaxCandidates = 2
SPECIFICATION Spec
SYMMETRY Alike
INVARIANTS
    TypeOK
    LossBounded
    RemainderUnsplittable
    PlaceCountsBetterTeams
PROPERTIES
    LedgerSpec
\* The bound on rounds ends the game.
CHECK_DEADLOCK FALSE
