SPECIFICATION Spec
CONSTANTS
    Roster = {"MM", "NOISE"}
    TotalSteps = 3
    MaxExtra = 1
    HalfStep = 1
    SampleEvery = 2
    Latency <- MCLatency
    Processes = {"gbm", "ou", "regime_switching"}
    InitialPrice = 5
    BaseSigma = 1
    Sigma <- MCSigma
    JumpSize = 2
    Window = 4
    Drop = 20
    MaxScenarios = 1
INVARIANTS EventsAreTimely MidFollowsProcess MemoryIsBounded
PROPERTY RefinesEventOrder
CHECK_DEADLOCK FALSE
