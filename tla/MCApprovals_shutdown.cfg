SPECIFICATION Spec
CONSTANTS
    p1 = p1
    p2 = p2
    r1 = r1
    r2 = r2
    Proc = {p1, p2}
    Row = {r1, r2}
    Human = {h1}
    Names <- MCNames
    NoRow = NoRow
    MaxServes = 3
CHECK_DEADLOCK FALSE
INVARIANTS
    ShutdownWaits
