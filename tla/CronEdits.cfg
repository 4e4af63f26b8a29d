SPECIFICATION Spec
CONSTANTS
    r1 = r1
    o1 = o1
    Jobs <- TwoJobs
    OneShot <- OneShots
    Backoff <- Recurring
    Concurrency = 1
    MaxSlots = 1
    MaxEdits = 1
    DeletedAfter <- OneShots
    Initial <- Recurring
    Editable <- Recurring
    Manual <- Recurring
    Removable <- OneShots
    Slow <- Recurring
    MaxFaults = 0
INVARIANT TypeOK
INVARIANT EditsSurviveRuns
PROPERTY NoSilentSkip
CHECK_DEADLOCK FALSE
