CONSTANTS
    None = None
    MaxTurns = 2
    Call = {1, 2, 3}
SPECIFICATION Spec
INVARIANTS
    TypeOK
    TurnsAreOwn
    CancelReachesTurn
    PageIsAnswered
PROPERTY TurnEnds
CHECK_DEADLOCK FALSE
