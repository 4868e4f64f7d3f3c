CONSTANTS
    Request = {r1, r2, r3}
    Password = {w1, w2}
    Null = Null
    MaxSecond = 1
    MaxTries = 2
SPECIFICATION Spec
SYMMETRY Symmetry
PROPERTY RefusedAfterMaxTries
CHECK_DEADLOCK FALSE
