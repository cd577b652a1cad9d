SPECIFICATION FairSpec
CONSTANTS
    m1 = m1
    m2 = m2
    c1 = c1
    c2 = c2
    a1 = a1
    a2 = a2
    b1 = b1
    s1 = s1
    Upload = {u1, u2}
    Capture = {k1, k2}
    Manifest = {m2}
    Artifact = {a1, a2}
    Chunk = {}
    ArtifactOf <- ChunkArtifacts
    ChunksOf <- Layouts
    Body = {b1}
    BodyOf <- Bodies
    Worker = {w1, w2}
    Stripe = {u1, u2}
    StripeOf <- OwnStripe
    Expiry = 1
    PowerLoss = FALSE
    DetachedUnlink = FALSE
    Asked = {"status"}
    MaxClock = 2
    MaxCrashes = 0
    None = None
CHECK_DEADLOCK FALSE
PROPERTIES TransfersFinish
