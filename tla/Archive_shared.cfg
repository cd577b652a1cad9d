SPECIFICATION Spec
CONSTANTS
    f1 = f1
    f2 = f2
    f3 = f3
    c1 = c1
    d1 = d1
    d2 = d2
    r1 = r1
    r2 = r2
    Upload = {1, 2, 3}
    Deleter = {x1, x2}
    Collector = {g1}
    Fingerprint = {f1, f2, f3}
    Session = {c1}
    Digest = {d1, d2}
    Rep = {r1, r2}
    SessionOf <- OneSession
    FingerprintOf <- ThreeIdentities
    DigestsOf <- SharedDigests
    RepOf <- TwoRepresentations
    UploadStripe <- CollidingUploadStripes
    SnapshotStripe <- SnapshotStripes
    BlobStripe <- BlobStripes
    Grace = 1
    GcBatchSize = 1
    DetachedUnlink = FALSE
    MaxClock = 2
    MaxCrashes = 1
    None = None
SYMMETRY DeleterSymmetry
CHECK_DEADLOCK FALSE
INVARIANTS LiveSnapshotsStored RepresentationsAgree LocksAscend
    DeadlineIffUnreferenced LatestIsNewestLive
PROPERTY GraceIsHonoured
