SPECIFICATION FairSpec
CONSTANTS
    Browsers = {b1, b2}
    MaxPushes = 3
    MaxCommands = 2
INVARIANT NothingIsSkipped
PROPERTY BridgeDelivers
CHECK_DEADLOCK FALSE
