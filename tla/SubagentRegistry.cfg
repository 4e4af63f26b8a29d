SPECIFICATION Spec
CONSTANTS
    r1 = r1
    r2 = r2
    r3 = r3
    s1 = s1
    s2 = s2
    Main = Main
    Runs <- SteeredRuns
    Sessions <- OneSession
    SessionOf <- Replaced
    RequesterOf <- Top
    Expecting <- First
    Deleting <- None
    Persistent <- None
    Controlled <- First
    Archived <- First
    Flaky <- First
    MaxRetries = 2
    MaxCrashes = 1
INVARIANT TypeOK
INVARIANT AnnouncedAtMostOnce
INVARIANT AttemptsBounded
INVARIANT KilledNeverAnnounced
INVARIANT SteeredNeverAnnounced
INVARIANT MutedOnlyWhileSteering
PROPERTY CleanupNeverReopened
CHECK_DEADLOCK FALSE
