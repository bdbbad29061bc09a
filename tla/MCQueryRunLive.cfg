\* One exchange of a user who may delete the account: the exchange ends, its
\* trace is closed and what it leaves behind is accounted for. No exchange
\* ever waits for another one, so it stands for each of them.
CONSTANTS
    r1 = r1
    r2 = r2
    t1 = t1
    u1 = u1
    Run = {r1}
    Turn = {t1}
    User = {u1}
    Leaver = {u1}
    TurnOf <- OneTurn
    UserOf <- OneUser
    NoRun = NoRun
    MaxEvents = 3
    MaxFaults = 2
    MaxCrashes = 1
SPECIFICATION FairSpec
INVARIANT ResidueIsInFlight
PROPERTIES
    ImplementsLifecycle
    StreamsEnd
    TracesClose
\* Every exchange ends: the system stops.
CHECK_DEADLOCK FALSE
