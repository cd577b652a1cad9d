----------------------------- MODULE MCListing -----------------------------
\* Two sessions: snapshots 1 and 2 are of session 1, snapshot 3 of session 2.
\* Snapshot 1 is captured twice, by two clients.
EXTENDS Listing, TLC

SessionOfSnapshot == 1 :> 1 @@ 2 :> 1 @@ 3 :> 2
SnapshotOfCapture == 1 :> 1 @@ 2 :> 1 @@ 3 :> 2 @@ 4 :> 3
SnapshotOfArtifact == 1 :> 1 @@ 2 :> 1 @@ 3 :> 3
ClientOfCapture == 1 :> "laptop" @@ 2 :> "desktop" @@ 3 :> "desktop"
                   @@ 4 :> "desktop"

NoFilter == [session |-> None, snapshot |-> None, client |-> None,
             from |-> 0, to |-> MaxKey]
Filters == {NoFilter, [NoFilter EXCEPT !.session = 1],
            [NoFilter EXCEPT !.snapshot = 1],
            [NoFilter EXCEPT !.client = "desktop", !.from = 1]}
=============================================================================
