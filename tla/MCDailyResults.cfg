SPECIFICATION Spec
CONSTANTS
    Ids = {1, 3}
    StrategyOf <- Versions
    Notional <- Sizes
    Returns <- SomeReturns
    UnsellableReturn <- TotalLoss
    NoReturn = none
    Open = open
    NoReport = noreport
    DayLength = 2
    MaxTime = 3
    MaxMarks = 1
    MaxSetBacks = 1
INVARIANTS
    TypeOK
    OnlyTheTailIsMissing
    TerminalReturnsAreTyped
PROPERTY
    ImplementsBook
