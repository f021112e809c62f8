SPECIFICATION FairSpec
CONSTANTS
    p1 = p1
    p2 = p2
    p3 = p3
    Ids = {p1, p2}
    MaxOpen = 2
    MaxNoRoutes = 2
    EntryCost = 100
    ExitFees = 2
    Quotes <- CollapsedQuotes
    Routeless = {}
    MaxCrashes = 0
    TakeProfitBPS = 5000
    StopLossBPS = 2000
    MaxHoldDuration = 2
PROPERTY
    EveryPositionExits
