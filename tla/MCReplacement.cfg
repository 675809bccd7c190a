\* Two processes, four uploads across two rounds, one process dying.
CONSTANTS
    d1 = d1  d2 = d2  shipped = shipped  part = part  w1 = w1  w2 = w2
    Binary = {d1, d2}
    Shipped = shipped
    Truncated = part
    Web = {w1, w2}
    MaxRounds = 2
    MaxUploads = 4
    MaxCrashes = 1
SPECIFICATION UploadSpec
SYMMETRY Alike
INVARIANT
    ListedIsReal
INVARIANT
    BoxArchived
\* The bounds on rounds and uploads end it.
CHECK_DEADLOCK FALSE
