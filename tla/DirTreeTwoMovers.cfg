SPECIFICATION MCSpec
CONSTANTS
    root = root
    home = home
    a = a
    b = b
    f1 = f1
    f2 = f2
    r1 = r1
    r2 = r2
    None = None
    Root = root
    Home = home
    Dirs = {root, home, a}
    Files = {}
    Reqs = {r1, r2}
    Movers = {r1, r2}
    Ops = {"create"}
    Times = {1}
    Drift = 0
CHECK_DEADLOCK FALSE
INVARIANTS
    Acyclic
