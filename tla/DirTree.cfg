SPECIFICATION MCSpec
CONSTANTS
    root = root
    home = home
    a = a
    b = b
    f1 = f1
    f2 = f2
    r1 = r1
    r2 = r2
    None = None
    Root = root
    Home = home
    Dirs = {root, home, a}
    Files = {f1}
    Reqs = {r1, r2}
    Movers = {r1}
    Ops = {"create", "upload", "file", "link", "trash", "restore", "purge", "clear", "fail"}
    Times = {1, 2}
    Drift = 1
CHECK_DEADLOCK FALSE
INVARIANTS
    TypeOK
    Acyclic
    ConsistentAlone
