SPECIFICATION Spec
CONSTANTS
    m1 = m1
    m2 = m2
    c1 = c1
    c2 = c2
    a1 = a1
    a2 = a2
    b1 = b1
    s1 = s1
    Upload = {u1}
    Capture = {k1}
    Manifest = {m1}
    Artifact = {a1, a2}
    Chunk = {c1, c2}
    ArtifactOf <- ChunkArtifacts
    ChunksOf <- Layouts
    Body = {b1, b2}
    BodyOf <- Bodies
    Worker = {w1, w2}
    Stripe = {s1}
    StripeOf <- OneStripe
    Expiry = 1
    PowerLoss = TRUE
    DetachedUnlink = FALSE
    Asked = {"complete"}
    MaxClock = 0
    MaxCrashes = 1
    None = None
SYMMETRY Symmetry
CHECK_DEADLOCK FALSE
INVARIANTS TypeOK AcceptedChunksStored UploadedMeansAllAccepted
