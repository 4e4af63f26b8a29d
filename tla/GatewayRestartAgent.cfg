SPECIFICATION GatewaySpec
CONSTANTS
    s1 = s1
    main = main
    a = a
    b = b
    ia = ia
    ib = ib
    NoJob = NoJob
    Lanes <- RunLanes
    Jobs <- RunJobs
    LaneOf <- RunLaneOf
    Inner <- RunInner
    TunedLanes <- GlobalLanes
    ConcInputs <- Conc
    MaxGen = 2
    RespawnModes <- InProcess
    ExternalAllowed = TRUE
    MaxPolls = 2
    MaxRestarts = 2
INVARIANT OneAgentPerSession
CHECK_DEADLOCK FALSE
