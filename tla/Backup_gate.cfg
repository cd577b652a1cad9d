SPECIFICATION FairSpec
CONSTANTS
    Request = {p1}
    Bootstrap = boot
    Backup = {b1, b2}
    Digest = {d1}
    LeaseDuration = 1
    WaitLimit = 1
    MaxClock = 2
    MaxCrashes = 1
    None = None
CHECK_DEADLOCK FALSE
INVARIANTS TypeOK Excluded PendingLeaseStands BackupsAreComplete
PROPERTIES NoEntryWhilePending DatabaseQuiet WindowCloses
