SPECIFICATION Spec
CONSTANTS
    OrderIds = {o1, o2, o3}
    NoOrder = NoOrder
    MaxPrice = 2
    MaxQty = 2
    PoolCapacity = 3
    MaxCommands = 4
    ClientOrderTypes = {"LIMIT", "ICEBERG"}
    RepriceAllowed = FALSE
SYMMETRY IdSymmetry
PROPERTY ReplenishedGoesBack
