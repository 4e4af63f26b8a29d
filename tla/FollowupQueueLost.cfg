SPECIFICATION Spec
CONSTANTS
    m1 = m1
    m2 = m2
    m3 = m3
    m4 = m4
    q1 = q1
    q2 = q2
    q3 = q3
    NoId = NoId
    NoQueue = NoQueue
    Unkeyed = Unkeyed
    Unroutable = Unroutable
    Deliveries <- FourMessages
    MessageIdOf <- Ids
    RouteOf <- OneRoute
    Settings <- SummarizeSingly
    Queues <- TwoQueues
    MayClear = FALSE
    MayBeLate = FALSE
    MayThrow = FALSE
INVARIANT NothingLost
CHECK_DEADLOCK FALSE
