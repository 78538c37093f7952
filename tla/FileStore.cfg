SPECIFICATION MCSpec
CONSTANTS
    u1 = u1
    u2 = u2
    u3 = u3
    root = root
    sub = sub
    f1 = f1
    f2 = f2
    f3 = f3
    g1 = g1
    g2 = g2
    r1 = r1
    r2 = r2
    None = None
    Users = {u1, u2, u3}
    Dirs = {root, sub}
    Files = {f1, f2, f3, g1, g2}
    Reqs = {r1, r2}
    Owner <- MCOwner
    Size <- MCSizes
    Cap = 3
    MaxFileSize = 2
    Quota <- MCQuota
    Above <- MCAbove
    Faults = {"put", "putLost", "del", "stmt", "commit", "ackLost", "crash"}
    Moves = FALSE
    Linked = {f1, f3}
    Drift = 0
CHECK_DEADLOCK FALSE
INVARIANTS
    TypeOK
    UsedNotAboveBytes
    ExactAlone
PROPERTIES
    
    RequestsEnd
