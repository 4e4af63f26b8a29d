SPECIFICATION Spec
CONSTANTS
    r1 = r1
    o1 = o1
    Jobs <- TwoJobs
    OneShot <- OneShots
    Backoff <- Recurring
    Concurrency = 1
    MaxSlots = 1
    MaxEdits = 1
    DeletedAfter <- NoJobs
    Initial <- TwoJobs
    Editable <- OneShots
    Manual <- OneShots
    Removable <- NoJobs
    Slow <- NoJobs
    MaxFaults = 1
INVARIANT OneRunPerJob
INVARIANT OneShotFiresOnce
INVARIANT SchedulerAlive
PROPERTY DueIsHandled
CHECK_DEADLOCK FALSE
