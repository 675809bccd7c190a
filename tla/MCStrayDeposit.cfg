\* Two threads in the working directory of one process.
CONSTANTS
    t1 = t1  t2 = t2  t3 = t3  s1 = s1  s2 = s2  root = root  a = a  b = b  w1 = w1  w2 = w2  none = none
    Token = {t1, t2, t3}
    Service = {s1, s2}
    Home <- Homes
    Team = {a, b}
    Owner <- Owners
    Root = root
    Worker = {w1, w2}
    None = none
SPECIFICATION Spec
INVARIANT
    RunsOwnScript
\* commence! returns.
CHECK_DEADLOCK FALSE
