\* A documented claim the router does not keep.
CONSTANTS
    r1 = r1
    r2 = r2
    t1 = t1
    u1 = u1
    Run = {r1, r2}
    Turn = {t1}
    User = {u1}
    Leaver = {}
    TurnOf <- OneTurn
    UserOf <- OneUser
    NoRun = NoRun
    MaxEvents = 1
    MaxFaults = 0
    MaxCrashes = 0
SPECIFICATION Spec
PROPERTY CancelReachesAll
\* Every exchange ends: the system stops.
CHECK_DEADLOCK FALSE
