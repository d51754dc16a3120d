SPECIFICATION Spec
CONSTANTS
    Clients = {c1, c2}
    Ids = {x}
    PoolCapacity = 1
    InCapacity = 1
    OutCapacity = 1
    EventsPerTick = 1
    MaxMessages = 2
    Kinds = {"NEW", "CANCEL"}
    Leavers = {c1}
INVARIANT RejectTargetsSender
