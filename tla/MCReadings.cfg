SPECIFICATION Spec
CONSTANTS
    r1 = r1
    r2 = r2
    r3 = r3
    m1 = m1
    m2 = m2
    Request = {r1, r2, r3}
    Meter = {m1}
    MaxTime = 3
    MaxValue = 2
SYMMETRY RequestSymmetry
CHECK_DEADLOCK FALSE
INVARIANTS
    TypeOK
    InOrderSeriesNeverDecreases
