SPECIFICATION FairSpec
CONSTANTS
    p1 = p1
    p2 = p2
    p3 = p3
    Ids = {p1, p2, p3}
    MaxOpen = 3
    MaxNoRoutes = 2
    EntryCost = 100
    ExitFees = 2
    Quotes <- SoundQuotes
    Routeless = {p1, p2, p3}
    MaxCrashes = 1
    TakeProfitBPS = 5000
    StopLossBPS = 2000
    MaxHoldDuration = 2
INVARIANTS
    TypeOK
    OldestFirst
PROPERTIES
    PassesAreThorough
    EveryPositionExits
