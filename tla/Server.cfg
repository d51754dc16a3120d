SPECIFICATION FairSpec
CONSTANTS
    Clients = {c1, c2}
    Ids = {x}
    PoolCapacity = 1
    InCapacity = 1
    OutCapacity = 1
    EventsPerTick = 1
    MaxMessages = 2
    Kinds = {"NEW", "CANCEL", "MODIFY", "INVALID", "OTHER"}
    Leavers = {c1}
INVARIANTS TypeOK NothingVanishes RejectReachesSender CommandsInOrder UpdatesInOrder
PROPERTY CommandsAreAnswered
