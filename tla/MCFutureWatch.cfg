SPECIFICATION Spec
CONSTANTS
    Pools = {1, 2, 3, 4, 5}
    CreatedAt <- Launches
    WatchCap = 3
    CandidateCap = 3
    TTL = 2
    MaxPoolAge = 2
    MaxTime = 7
PROPERTIES
    DueAreEvaluated
    OnlyTheSoonestGivesWay
