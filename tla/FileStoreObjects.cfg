SPECIFICATION MCSpec
CONSTANTS
    u1 = u1
    root = root
    sub = sub
    f1 = f1
    f2 = f2
    r1 = r1
    r2 = r2
    None = None
    Users = {u1}
    Dirs = {root, sub}
    Files = {f1, f2}
    Reqs = {r1, r2}
    Owner <- MCOwner
    Size <- MCSizes
    Cap = 3
    MaxFileSize = 2
    Quota <- MCQuota
    Above <- MCAbove
    Faults = {"put", "stmt"}
    Moves = TRUE
    Linked = {}
    Drift = 0
CHECK_DEADLOCK FALSE
INVARIANTS
    RowsPaired
