SPECIFICATION ReadSpec
CONSTANTS
    Snapshots = 2
    Digests = 2
    Refs <- SharedRefs
    Writer = {w1, w2}
    PageSize = 1
    LateCleanup = {1}
    SharesLocks = TRUE
    MaxRows = 2
    MaxFaults = 1
SYMMETRY WriterSymmetry
CHECK_DEADLOCK FALSE
INVARIANT IntegrityFailureIsCorruption
