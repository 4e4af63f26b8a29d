SPECIFICATION Spec
CONSTANTS
    s1 = s1
    s2 = s2
    main = main
    a = a
    b = b
    c = c
    ia = ia
    ib = ib
    ic = ic
    NoJob = NoJob
    Lanes <- SessionLanes
    Jobs <- SessionJobs
    LaneOf <- SessionLaneOf
    Inner <- SessionInner
    TunedLanes <- GlobalLanes
    ConcInputs <- Conc
    MaxGen = 1
INVARIANT TypeOK
INVARIANT NoLostWakeup
INVARIANT NoDeadlock
INVARIANT OneRunPerSession
PROPERTY ImplementsLanes
PROPERTY AcceptedWorkSettles
