SPECIFICATION FairSpec
CONSTANTS
    f1 = f1
    f2 = f2
    f3 = f3
    c1 = c1
    d1 = d1
    d2 = d2
    r1 = r1
    r2 = r2
    Upload = {1, 2}
    Deleter = {x1}
    Collector = {g1}
    Fingerprint = {f1}
    Session = {c1}
    Digest = {d1, d2}
    Rep = {r1}
    SessionOf <- OneSession
    FingerprintOf <- OneIdentity
    DigestsOf <- AllDigests
    RepOf <- OneRepresentation
    UploadStripe <- DistinctUploadStripes
    SnapshotStripe <- SnapshotStripes
    BlobStripe <- BlobStripes
    Grace = 1
    GcBatchSize = 1
    DetachedUnlink = TRUE
    MaxClock = 1
    MaxCrashes = 1
    None = None
CHECK_DEADLOCK FALSE
PROPERTIES RequestsFinish
