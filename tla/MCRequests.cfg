\* One part is the exchanges, with a store failure and a crash of the server.
CONSTANTS
    r1 = r1
    r2 = r2
    t1 = t1
    u1 = u1
    Run = {r1, r2}
    Turn = {t1}
    User = {u1}
    Leaver = {}
    TurnOf <- OneTurn
    UserOf <- OneUser
    NoRun = NoRun
    MaxEvents = 1
    MaxFaults = 1
    MaxCrashes = 1
    q1 = q1
    q2 = q2
    c1 = c1
    c2 = c2
    None = None
    Widget = {"w", "x"}
    Conv = {"a", "b"}
    Reader = {"u"}
    Table = {"w", "x"}
    Connection = {"k"}
    ReaderOf <- Ours
    TableOf <- Same
    Bounds <- MCBounds
    Person = {"u"}
    Key = {"k1", "k2"}
    Request = {q1, q2}
    Command = {c1, c2}
    Backend = {"table", "header", "token", "bearer"}
    Static = "u"
SPECIFICATION RequestsSpec
SYMMETRY Alike
INVARIANTS
    TypeOK
    SoleRunIsCancellable
    LeftRunningOnlyIf
    LateFrames
    AnswerFollowsQuestion
    WidgetsAreRead
PROPERTY
    KeysHold
\* Every exchange ends: the system stops.
CHECK_DEADLOCK FALSE
