SPECIFICATION MCSpec
CONSTANTS
    r1 = r1
    r2 = r2
    t1 = t1
    t2 = t2
    t3 = t3
    m1 = m1
    m2 = m2
    m3 = m3
    m4 = m4
    None = None
    Reqs = {r1, r2}
    Toks = {t1, t2, t3}
    Mails = {m1, m2, m3, m4}
    Lapses = {}
    MaxPw = 2
CHECK_DEADLOCK FALSE
PROPERTY
    ResetRevokesAll
