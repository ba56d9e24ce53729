SPECIFICATION StartedSpec
CONSTANTS
    Users = {u1}
    Tokens = {t1, t2, t3}
    Procs = {p1, p2}
    NoUser = NoUser
    NoToken = NoToken
    RefreshTTL = 1
    RotationGrace = 0
    MaxTime = 2
    MaxPwd = 1
SYMMETRY Symmetry
INVARIANTS
    TypeOK
    OneLivePerLogin
    RevokedStaysRevoked
    NoOrphanSession
PROPERTIES
    RevocationTimeFixed
    ContractSpec
CHECK_DEADLOCK FALSE
