SPECIFICATION Spec
CONSTANTS
    Pools = {1, 2, 3, 4, 5, 6}
    Address <- Addresses
    GeckoAt <- CreatedByGecko
    DexAt <- CreatedByDex
    PageSize = 3
    Setups <- Configured
    NoMark = NoMark
PROPERTIES
    NoSilentHole
    WatermarkAdvances
    BehindForGood
