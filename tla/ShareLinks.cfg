SPECIFICATION MCSpec
CONSTANTS
    u1 = u1
    u2 = u2
    t1 = t1
    t2 = t2
    l1 = l1
    l2 = l2
    l3 = l3
    r1 = r1
    r2 = r2
    None = None
    Users = {u1, u2}
    Targets = {t1, t2}
    Links = {l1, l2, l3}
    Reqs = {r1, r2}
    Owner <- MCOwner
    Quota = 2
    Ops = {"create", "update", "delete", "deleteAll", "purge", "account", "fail"}
CHECK_DEADLOCK FALSE
INVARIANTS
    TypeOK
    CountBetween
PROPERTY
    RequestsEnd
