SPECIFICATION Spec
CONSTANTS
    d1 = d1
    d2 = d2
    r1 = r1
    Deliveries <- TwoDeliveries
    EnqueuedAt <- Order
    Payloads <- TwoAndOne
    BestEffort <- Second
    Reporting <- Second
    Mirrored <- Second
    Abortable <- First
    Recoveries <- OneRecovery
    MaxRetries = 3
    Backoff <- CodeBackoff
    MaxRecovery = 12
    MayRestart = TRUE
INVARIANT TypeOK
INVARIANT OnlyAbortsLose
INVARIANT NoNeedlessResend
PROPERTY ImplementsOutbox
PROPERTY OnlyStrandedStay
CHECK_DEADLOCK FALSE
