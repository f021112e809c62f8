SPECIFICATION Spec
CONSTANTS
    Ids = {p1}
    Returns = {1, 2}
    UnsellableReturn = 0
    NoReturn = NoReturn
    MaxNoRoutes = 3
    Writers = {w1, w2}
    MaxAttempts = 3
    MaxMarks = 4
SYMMETRY Symmetry
INVARIANTS
    StreakCounted
    LifeRecordedOnce
    ExcursionsAreReal
PROPERTIES
    FrozenAtTheEnd
    ImplementsPositions
