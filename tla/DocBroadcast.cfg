SPECIFICATION FairSpec
CONSTANTS
    Clients = {c1, c2}
    Ids = {x}
    PoolCapacity = 1
    InCapacity = 1
    OutCapacity = 1
    EventsPerTick = 1
    MaxMessages = 1
    Kinds = {"NEW"}
    Leavers = {}
PROPERTY EventsAreBroadcast
