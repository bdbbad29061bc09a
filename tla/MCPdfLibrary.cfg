CONSTANTS
    u1 = u1
    u2 = u2
    f1 = f1
    f2 = f2
    User = {u1, u2}
    File = {f1, f2}
    None = None
    MaxId = 2
    MaxAsks = 2
    MaxBatches = 2
    MaxCrashes = 1
    MaxSweeps = 1
SPECIFICATION Spec
INVARIANTS
    TypeOK
    DocumentsAreWhole
    AnswersAreOwn
PROPERTY ReadersAnswered
CHECK_DEADLOCK FALSE
