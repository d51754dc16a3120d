SPECIFICATION Spec
CONSTANTS
    OrderIds = {o1, o2, o3, o4}
    NoOrder = NoOrder
    MaxPrice = 3
    MaxQty = 2
    PoolCapacity = 4
    MaxCommands = 5
    ClientOrderTypes = {"LIMIT"}
    RepriceAllowed = FALSE
SYMMETRY IdSymmetry
INVARIANTS TypeOK BestExact NotCrossed DepthExact
PROPERTIES TimePriority PriceTimePriority FillsArePositive
