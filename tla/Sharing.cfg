SPECIFICATION Spec
CONSTANTS
    o = o
    u1 = u1
    u2 = u2
    i1 = i1
    i2 = i2
    r1 = r1
    r2 = r2
    None = None
    Users = {o, u1, u2}
    Invs = {i1, i2}
    Reqs = {r1, r2}
    Owner = o
    Answerers = {r1}
    Inviters = {r1}
CHECK_DEADLOCK FALSE
SYMMETRY MCSymmetry
INVARIANTS
    TypeOK
    MembersStand
PROPERTY
    JoinsByPending
