CONSTANTS
    Job = {p, s, x}
    Waiter = {w1}
    Stubborn = {s}
    Faulty = {s, x}
    Threaded = {x}
    Caller = {c1, c2, c3}
    NoCaller = NoCaller
    Request = {"rpm"}
    Usage = {"tpm"}
    Cap <- MCCap
    Period <- MCPeriod
    Poll = 1
    MaxUse = 2
    MaxSpan = 4
SPECIFICATION WorkersSpec
INVARIANTS
    TypesOK
    AdmissionsBounded
    DebtBounded
    StateTracksTask
PROPERTIES
    RunEndReapsAll
    ImplementsLifecycle
    Admits
\* The run ends, every task ends and every call returns: the registry stops.
CHECK_DEADLOCK FALSE
