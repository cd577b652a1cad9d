SPECIFICATION Spec
CONSTANTS
    Session = {1, 2}
    Snapshot = {1, 2, 3}
    Capture = {1, 2, 3, 4}
    Artifact = {1, 2, 3}
    Client = {"laptop", "desktop"}
    SessionOf <- SessionOfSnapshot
    SnapshotOf <- SnapshotOfCapture
    ArtifactOf <- SnapshotOfArtifact
    ClientOf <- ClientOfCapture
    MaxKey = 1
    MaxLimit = 2
    Filter <- Filters
    None = None
INVARIANTS TypeOK TraversalExact NoRowTwice
