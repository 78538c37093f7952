SPECIFICATION MCSpec
CONSTANTS
    c1 = c1
    c2 = c2
    t1 = t1
    t2 = t2
    t3 = t3
    t4 = t4
    t5 = t5
    u1 = u1
    u2 = u2
    None = None
    Calls = {c1, c2}
    Toks = {t1, t2, t3, t4, t5}
    Users = {u1, u2}
    Owner <- MCOwner
    Kinds = {"get", "me", "profile", "password", "delete", "resend"}
    Scenes <- MCScenes
CHECK_DEADLOCK FALSE
INVARIANTS
    TypeOK
    
PROPERTIES
    SignedOutByUser
    RenewalsSpec
    CallsEnd
