SPECIFICATION GatewaySpec
CONSTANTS
    s1 = s1
    main = main
    a = a
    b = b
    ia = ia
    ib = ib
    NoJob = NoJob
    Lanes <- RunLanes
    Jobs <- RunJobs
    LaneOf <- RunLaneOf
    Inner <- RunInner
    TunedLanes <- GlobalLanes
    ConcInputs <- Conc
    MaxGen = 2
    RespawnModes <- AnyRespawn
    ExternalAllowed = TRUE
    MaxPolls = 1
    MaxRestarts = 2
INVARIANT ServesUnderLock
INVARIANT DrainedRestartLeavesNoTask
INVARIANT ServesMeansAccepts
PROPERTY ImplementsLife
PROPERTY ShutdownEnds
CHECK_DEADLOCK FALSE
