SPECIFICATION Spec
CONSTANTS
    TakeProfitBPS = 5000
    StopLossBPS = 2000
    MaxHoldDuration = 2
    MaxPoolAge = 3
    MinLiquidity = 3
    MinTransactions = 3
    MinBuyShareBPS = 6667
    MinTurnoverBPS = 6667
    MinPriceChangeBPS <- LargestFall
    MaxPriceChangeBPS = 2
    MaxEntryPriceImpactBPS = 1
    AllowedExtensions = {}
    MaxInt = 5
    MinScore = 30
    MinUniqueAuthors = 2
    MinOriginalPosts = 1
    MinExactMintMentions = 2
    MaxWarningPosts = 1
    Costs = {100, 2001, 3333}
    Fees = {0, 7}
    MaxOut = 5100
    MaxTrades = 4
    MaxVolume = 3
    MaxPosts = 3
INVARIANTS
    ExitsAreExact
    RulesAreExact
    MetricsAreConsistent
CHECK_DEADLOCK FALSE
