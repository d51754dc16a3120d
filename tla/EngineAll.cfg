SPECIFICATION FairSpec
CONSTANTS
    OrderIds = {o1, o2, o3}
    NoOrder = NoOrder
    MaxPrice = 2
    MaxQty = 2
    PoolCapacity = 2
    MaxCommands = 4
    ClientOrderTypes = {"LIMIT", "MARKET", "ICEBERG"}
    RepriceAllowed = TRUE

INVARIANTS BookConsistent PoolAccounting BestBidExact NeverOverfilled
PROPERTY MatchingEnds
