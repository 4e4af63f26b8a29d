SPECIFICATION Spec
CONSTANTS
    r1 = r1
    r2 = r2
    r3 = r3
    s1 = s1
    s2 = s2
    Main = Main
    Runs <- TwoRuns
    Sessions <- TwoSessions
    SessionOf <- OwnSessions
    RequesterOf <- Siblings
    Expecting <- First
    Deleting <- None
    Persistent <- None
    Controlled <- None
    Archived <- None
    Flaky <- None
    MaxRetries = 2
    MaxCrashes = 0
PROPERTY EndedIsSettled
CHECK_DEADLOCK FALSE
