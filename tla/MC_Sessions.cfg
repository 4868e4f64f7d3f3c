CONSTANTS
    Request = {r1, r2, r3}
    Password = {w1, w2}
    Null = Null
    MaxSecond = 1
    MaxTries = 1
SPECIFICATION Spec
SYMMETRY Symmetry
INVARIANTS TypeOK SupersededRefused ConfirmedStays TriesExcessOverlaps
PROPERTY KeepsPromise
CHECK_DEADLOCK FALSE
