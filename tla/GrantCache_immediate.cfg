SPECIFICATION Spec
CONSTANTS
    r1 = r1
    r2 = r2
    p1 = p1
    p2 = p2
    Users = {u1}
    Teams = {t1}
    Replicas = {r1}
    Procs = {p1, p2}
    Home <- OneHome
    TTL = 2
    CacheLimit = 1
    MaxTime = 2
INVARIANTS
    RevocationImmediate
CHECK_DEADLOCK FALSE
