SPECIFICATION Spec
CONSTANTS
    Pools = {1, 2, 3}
    CreatedAt <- Launches
    Before <- ByNumber
    Cap = 2
    Interval = 2
    TTL = 5
    MaxPoolAge = 7
    MaxTime = 6
INVARIANT
    TurnsAreFair
PROPERTIES
    ExpiryStands
    RetriesAreSpaced
    OnlyTheOldestGivesWay
