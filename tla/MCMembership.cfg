SPECIFICATION Spec
CONSTANTS
    r1 = r1
    r2 = r2
    r3 = r3
    r4 = r4
    owner = owner
    u1 = u1
    u2 = u2
    i1 = i1
    i2 = i2
    nobody = nobody
    Request = {r1, r2, r3, r4}
    User = {owner, u1, u2}
    Owner = owner
    Invite = {i1, i2}
    Nobody = nobody
    MaxLive = 1
SYMMETRY Symmetry
CHECK_DEADLOCK FALSE
INVARIANTS
    TypeOK
    OneMembership
    SpentOnceUnlessConcurrent
    LimitUnlessConcurrent
    RemovalTakesEffect
