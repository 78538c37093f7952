SPECIFICATION MCSpec
CONSTANTS
    f1 = f1
    f2 = f2
    f3 = f3
    u1 = u1
    u2 = u2
    t1 = t1
    t2 = t2
    t3 = t3
    r1 = r1
    r2 = r2
    l1 = l1
    l2 = l2
    l3 = l3
    e1 = e1
    e2 = e2
    e3 = e3
    a1 = a1
    a2 = a2
    None = None
    NoEntry = NoEntry
    Which = {"favorites", "lists", "settings", "search"}
    p1 = p1
    p2 = p2
    w1 = w1
    w2 = w2
    People = {p1, p2}
    Nobody = Nobody
    Roles = {"viewer", "editor"}
    NoRole = NoRole
    Works = {w1, w2}
    Entries = {e1, e2, e3}
    Sections = {"files", "directories"}
    SectionOf <- MCSectionOf
    Rank <- MCRank
    Limit = 1
    Main = "files"
    Asks = {a1, a2}
    Files = {f1, f2}
    Users = {u1, u2}
    Toks = {t1, t2, t3}
    Owner <- MCOwner
    Reqs = {r1, r2}
    Loads = {l1, l2, l3}
    Scenes = {"waits", "toggles", "sessions"}
CHECK_DEADLOCK FALSE
INVARIANTS
    BothTypeOK
    
    
    StarsAreOwn
    
PROPERTIES
    LoadingsEnd
