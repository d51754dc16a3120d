SPECIFICATION FairSpec
CONSTANTS
    Header = 2
    Payload <- MCPayload
    UpKinds = {"NEW", "CANCEL"}
    DownKinds = {"UPDATE", "REJECT"}
    UpRoom = 5
    DownRoom = 3
    RecvMax = 4
    BufferSize = 4
    MaxSends = 3
    MaxReplies = 2
INVARIANT ReadsGoOn
PROPERTIES OnlyTornFramesAreRefused OrdersArriveIntact RepliesArriveIntact EverythingArrives
CHECK_DEADLOCK FALSE
