SPECIFICATION Spec
CONSTANTS
    r1 = r1
    r2 = r2
    r3 = r3
    r4 = r4
    a1 = a1
    a2 = a2
    m1 = m1
    lower = lower
    upper = upper
    Request = {r1, r2, r3}
    Account = {a1}
    Meter = {m1}
    Spelling = {lower, upper}
    Canonical = lower
    MaxDay = 2
SYMMETRY RequestSymmetry
CHECK_DEADLOCK FALSE
INVARIANT
    BindingsDisjoint
