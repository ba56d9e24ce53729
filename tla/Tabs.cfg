SPECIFICATION TabsSpec
CONSTANTS
    b1 = b1
    x1 = x1
    x2 = x2
    Tabs = {b1, b2}
    Calls = {x1, x2}
    TabOf <- CallsOfOneTab
    Tokens = {1, 2, 3}
    NoToken = 0
    MaxActs = 3
    u1 = u1
    NoUser = NoUser
    t1 = t1
    t2 = t2
    t0 = t0
    p1 = p1
    p2 = p2
INVARIANTS
    NoFalseAlarm
PROPERTIES
    EveryRequestEnds
    RacingTabsKeepSession
    CallsSettle
CHECK_DEADLOCK FALSE
