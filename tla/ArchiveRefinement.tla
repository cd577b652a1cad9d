------------------------- MODULE ArchiveRefinement -------------------------
(***************************************************************************)
(* The archive as an implementation of SnapshotStore: the rows of the      *)
(* snapshots and captures tables, read as the abstract store.              *)
(***************************************************************************)
EXTENDS Archive

\* The element of a set of at most one.
Only(S) == IF S = {} THEN None ELSE CHOOSE s \in S : TRUE

\* The live row of each identity.
CurrentSnapshot == [f \in Fingerprint |-> Only(LiveWith(f))]

Tombstoned == {s \in Upload : Deleted(s)}

Store == INSTANCE SnapshotStore WITH
            current <- CurrentSnapshot, receipt <- capture, retired <- Tombstoned

\* Completion, deletion, collection, cancellation, crash and recovery together
\* implement the abstract store: each transaction is one of its steps, and
\* nothing else a client could see ever changes.
ImplementsStore == Store!Spec

\* What a completion in progress has not done yet, and what a snapshot's row
\* implies: the rest of the invariant the refinement needs.
CapturesPending ==
    /\ \A u \in Upload : req[u].pc # "idle" => capture[u] = None
    /\ \A u \in Upload : snapshot[u].state # "absent" => capture[u] = u
=============================================================================
