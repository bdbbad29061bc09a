CONSTANTS
    u1 = u1
    u2 = u2
    w1 = w1
    w2 = w2
    User = {u1, u2}
    Conv = {"a", "b"}
    Trace = {"t"}
    UserOf <- MCUserOf
    Writer = {w1, w2}
    None = None
    MaxRows = 3
    MaxClock = 1
    m1 = m1
    m2 = m2
    Owner = {m1, m2}
    K = 1
    Fanout = 2
    Breadth = 1
    MaxMemories = 3
    Exchange = {"s"}
    KeepLast = 1
    HistoryDays = 2
    CheckpointDays = 1
    MaxDays = 3
    MaxSteps = 3
    Profile = {"p", "q"}
    Default = "q"
    Labelled <- MCLabelled
    Param = {"effort"}
    Nested = {"effort"}
SPECIFICATION StoresSpec
SYMMETRY Alike
INVARIANTS
    LaterIsGreater
    ContextIsShown
    MessagesHaveConversation
    RecallIsSound
    ErasedIsGone
    ResumePointKept
    OptionsAgree
PROPERTY
    DroppedOnlyIfOld
CHECK_DEADLOCK FALSE
