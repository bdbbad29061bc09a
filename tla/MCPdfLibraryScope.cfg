CONSTANTS
    u1 = u1
    u2 = u2
    f1 = f1
    f2 = f2
    User = {u1, u2}
    File = {f1, f2}
    None = None
    MaxId = 2
    MaxAsks = 3
    MaxBatches = 1
    MaxCrashes = 1
    MaxSweeps = 1
SPECIFICATION Spec
INVARIANT PagesAreScoped
CHECK_DEADLOCK FALSE
