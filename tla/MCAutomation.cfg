SPECIFICATION Spec
CONSTANTS
    Pools = {p1, p2}
    MaxItems = 3
    MaxRequests = 2
    DayLength = 2
    MaxTime = 2
    MaxBack = 1
SYMMETRY Symmetric
INVARIANTS
    LogStaysReadable
    PassesArePaired
    RefusalsEnd
    BudgetPaysForAll
