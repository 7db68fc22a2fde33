SPECIFICATION FairSpec
CONSTANTS
    Session = {1, 2}
    Lease = {1, 2, 3}
    Nothing = Nothing
    HasUrl = TRUE
    CreateFails = TRUE
CHECK_DEADLOCK FALSE
INVARIANTS OneLiveSession
PROPERTIES ClosesOnlyWhenDone AsksOnce UnneededCloses BlockingReleases
