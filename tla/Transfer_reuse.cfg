SPECIFICATION Spec
CONSTANTS
    m1 = m1
    m2 = m2
    c1 = c1
    c2 = c2
    a1 = a1
    a2 = a2
    b1 = b1
    s1 = s1
    Upload = {u1, u2}
    Capture = {k1}
    Manifest = {m1, m2}
    Artifact = {a1, a2}
    Chunk = {}
    ArtifactOf <- ChunkArtifacts
    ChunksOf <- Layouts
    Body = {b1}
    BodyOf <- Bodies
    Worker = {w1, w2}
    Stripe = {s1}
    StripeOf <- OneStripe
    Expiry = 1
    PowerLoss = FALSE
    DetachedUnlink = FALSE
    Asked = {"complete", "abandon", "status"}
    MaxClock = 3
    MaxCrashes = 1
    None = None
SYMMETRY Symmetry
CHECK_DEADLOCK FALSE
INVARIANTS CaptureNamesOneManifest
PROPERTIES FatesAreFinal NoEarlyExpiry
