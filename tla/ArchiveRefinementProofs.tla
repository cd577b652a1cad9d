--------------------- MODULE ArchiveRefinementProofs ---------------------
(***************************************************************************)
(* The archive implements SnapshotStore, for any number of uploads,        *)
(* deletions, collections, crashes and cancellations.                      *)
(***************************************************************************)
EXTENDS ArchiveSafetyProofs, ArchiveRefinement

\* Only three transactions write what a client of the store can see.
LEMMA VisibleChange ==
    ASSUME [Next]_vars
    PROVE  \/ UNCHANGED <<snapshot, capture>>
           \/ \E u \in Upload : AttachToExisting(u) \/ RecordCompletion(u)
           \/ \E p \in Deleter : CommitDeletion(p)
<1> DEFINE Goal == \/ UNCHANGED <<snapshot, capture>>
                   \/ \E u \in Upload : AttachToExisting(u) \/ RecordCompletion(u)
                   \/ \E p \in Deleter : CommitDeletion(p)
<1>1. ASSUME NEW u \in Upload, BeginCompletion(u) PROVE Goal
  BY <1>1 DEF BeginCompletion, database
<1>2. ASSUME NEW u \in Upload, CheckRepresentations(u) PROVE Goal
  BY <1>2 DEF CheckRepresentations, database
<1>3. ASSUME NEW u \in Upload, LookupFingerprint(u) PROVE Goal
  BY <1>3 DEF LookupFingerprint, database
<1>4. ASSUME NEW u \in Upload, LockSnapshot(u) PROVE Goal
  BY <1>4 DEF LockSnapshot, database
<1>5. ASSUME NEW u \in Upload, GuardedLookup(u) PROVE Goal
  BY <1>5 DEF GuardedLookup, database
<1>6. ASSUME NEW u \in Upload, LockBlobs(u) PROVE Goal
  BY <1>6 DEF LockBlobs, database
<1>7. ASSUME NEW u \in Upload, RecheckFingerprint(u) PROVE Goal
  BY <1>7 DEF RecheckFingerprint, database
<1>8. ASSUME NEW u \in Upload, AttachToExisting(u) PROVE Goal
  BY <1>8
<1>9. ASSUME NEW u \in Upload, PromoteBlob(u) PROVE Goal
  BY <1>9 DEF PromoteBlob, database
<1>10. ASSUME NEW u \in Upload, StampCompletion(u) PROVE Goal
  BY <1>10 DEF StampCompletion, database
<1>11. ASSUME NEW u \in Upload, RecordCompletion(u) PROVE Goal
  BY <1>11
<1>12. ASSUME NEW u \in Upload, FetchWinner(u) PROVE Goal
  BY <1>12 DEF FetchWinner, database
<1>13. ASSUME NEW u \in Upload, CleanupCheck(u) PROVE Goal
  BY <1>13 DEF CleanupCheck, database
<1>14. ASSUME NEW u \in Upload, CleanupUnlink(u) PROVE Goal
  BY <1>14 DEF CleanupUnlink, database
<1>15. ASSUME NEW u \in Upload, CleanupDone(u) PROVE Goal
  BY <1>15 DEF CleanupDone, database
<1>16. ASSUME NEW u \in Upload, PromotionFails(u) PROVE Goal
  BY <1>16 DEF PromotionFails, database
<1>17. ASSUME NEW u \in Upload, RecordingFails(u) PROVE Goal
  BY <1>17 DEF RecordingFails, database
<1>18. ASSUME NEW p \in Deleter, RequestDeletion(p) PROVE Goal
  BY <1>18 DEF RequestDeletion, database
<1>19. ASSUME NEW p \in Deleter, DeletionLocksSnapshot(p) PROVE Goal
  BY <1>19 DEF DeletionLocksSnapshot, database
<1>20. ASSUME NEW p \in Deleter, DeletionRechecks(p) PROVE Goal
  BY <1>20 DEF DeletionRechecks, database
<1>21. ASSUME NEW p \in Deleter, DeletionLocksBlobs(p) PROVE Goal
  BY <1>21 DEF DeletionLocksBlobs, database
<1>22. ASSUME NEW p \in Deleter, StampDeletion(p) PROVE Goal
  BY <1>22 DEF StampDeletion, database
<1>23. ASSUME NEW p \in Deleter, CommitDeletion(p) PROVE Goal
  BY <1>23
<1>24. ASSUME NEW g \in Collector, BeginCollection(g) PROVE Goal
  BY <1>24 DEF BeginCollection, database
<1>25. ASSUME NEW g \in Collector, LockCandidate(g) PROVE Goal
  BY <1>25 DEF LockCandidate, database
<1>26. ASSUME NEW g \in Collector, SkipCandidate(g) PROVE Goal
  BY <1>26 DEF SkipCandidate, database
<1>27. ASSUME NEW g \in Collector, DeleteRow(g) PROVE Goal
  BY <1>27 DEF DeleteRow, database
<1>28. ASSUME NEW g \in Collector, UnlinkBlob(g) PROVE Goal
  BY <1>28 DEF UnlinkBlob, database
<1>29. ASSUME NEW g \in Collector, CommitCollection(g) PROVE Goal
  BY <1>29 DEF CommitCollection, database
<1>30. ASSUME NEW g \in Collector, FinishCollection(g) PROVE Goal
  BY <1>30 DEF FinishCollection, database
<1>31. ASSUME NEW q \in Proc, Abandon(q) PROVE Goal
  BY <1>31 DEF Abandon, database
<1>32. ASSUME NEW q \in Proc, AbandonDuringUnlink(q) PROVE Goal
  BY <1>32 DEF AbandonDuringUnlink, database
<1>33. CASE DetachedUnlinkRuns
  BY <1>33 DEF DetachedUnlinkRuns, database
<1>34. CASE Crash
  BY <1>34 DEF Crash, database
<1>35. CASE RecoverContext
  BY <1>35 DEF RecoverContext, database
<1>36. CASE RecoverCandidates
  BY <1>36 DEF RecoverCandidates, database
<1>37. CASE SweepFile
  BY <1>37 DEF SweepFile, database
<1>38. CASE Serve
  BY <1>38 DEF Serve, database
<1>39. CASE Tick
  BY <1>39 DEF Tick, database
<1>40. CASE UNCHANGED vars
  BY <1>40 DEF vars, database
<1> QED
  BY <1>1, <1>2, <1>3, <1>4, <1>5, <1>6, <1>7, <1>8, <1>9, <1>10, <1>11,
     <1>12, <1>13, <1>14, <1>15, <1>16, <1>17, <1>18, <1>19, <1>20, <1>21,
     <1>22, <1>23, <1>24, <1>25, <1>26, <1>27, <1>28, <1>29, <1>30, <1>31,
     <1>32, <1>33, <1>34, <1>35, <1>36, <1>37, <1>38, <1>39, <1>40 DEF Next,
     CompletionStep, DeletionStep, CollectionStep

\* A step that leaves the tables alone does not move the abstract store.
LEMMA InvisibleStep ==
    ASSUME UNCHANGED <<snapshot, capture>>
    PROVE  UNCHANGED Store!vars
<1>1. \A f \in Fingerprint : LiveWith(f)' = LiveWith(f)
  BY DEF LiveWith, Live
<1>2. CurrentSnapshot' = CurrentSnapshot
  BY <1>1 DEF CurrentSnapshot
<1>3. Tombstoned' = Tombstoned
  BY DEF Tombstoned, Deleted
<1>4. QED BY <1>2, <1>3 DEF Store!vars

\* The transaction that finalizes an upload on an existing snapshot.
LEMMA AttachIsDeduplicate ==
    ASSUME MetadataInv, CapturesPending, NEW u \in Upload, AttachToExisting(u)
    PROVE  Store!Deduplicate(u) \/ UNCHANGED <<snapshot, capture>>
<1> DEFINE s == req[u].target
           f == FingerprintOf[u]
<1>1. snapshot' = snapshot
  BY DEF AttachToExisting
<1>2. CASE ~Live(s)
  BY <1>1, <1>2 DEF AttachToExisting
<1>3. CASE Live(s)
  <2>1. /\ capture' = [capture EXCEPT ![u] = s]
        /\ req[u].pc \in TargetPC /\ req[u].pc # "idle"
    BY <1>3 DEF AttachToExisting, TargetPC
  <2>2. s \in Upload /\ FingerprintOf[s] = f /\ f \in Fingerprint
    BY <2>1, ManifestTypes DEF MetadataInv, LockInv, TypeOK, Request, Proc,
       RequestsConsistent
  <2>3. LiveWith(f) = {s}
    BY <1>3, <2>2 DEF LiveWith, MetadataInv, OneLivePerFingerprint
  <2>4. CurrentSnapshot[f] = s
    BY <2>2, <2>3 DEF CurrentSnapshot, Only
  <2>5. s # None /\ capture[u] = None
    BY <2>1, <2>2, NamesAssumption DEF CapturesPending
  <2>6. CurrentSnapshot' = CurrentSnapshot
    <3>1. \A g \in Fingerprint : LiveWith(g)' = LiveWith(g)
      BY <1>1 DEF LiveWith, Live
    <3>2. QED BY <3>1 DEF CurrentSnapshot
  <2>7. Tombstoned' = Tombstoned
    BY <1>1 DEF Tombstoned, Deleted
  <2>8. QED BY <2>1, <2>4, <2>5, <2>6, <2>7 DEF Store!Deduplicate
<1>4. QED BY <1>2, <1>3

\* The transaction that records a new snapshot.
LEMMA RecordIsStore ==
    ASSUME MetadataInv, CapturesPending, NEW u \in Upload, RecordCompletion(u)
    PROVE  Store!Store(u) \/ UNCHANGED <<snapshot, capture>>
<1> DEFINE f == FingerprintOf[u]
<1>a. TypeOK
  BY DEF MetadataInv, LockInv
<1>1. CASE LiveWith(f) # {}
  BY <1>1 DEF RecordCompletion
<1>2. CASE LiveWith(f) = {}
  <2>1. PICK prior : snapshot' = SnapshotsWith(u, prior)
    BY <1>2 DEF RecordCompletion
  <2>2. /\ capture' = [capture EXCEPT ![u] = u]
        /\ req[u].pc # "idle"
    BY <1>2 DEF RecordCompletion, At
  <2>3. /\ capture[u] = None
        /\ snapshot[u].state = "absent"
    BY <2>2, NamesAssumption DEF CapturesPending
  <2>4. /\ snapshot'[u].state = "live"
        /\ \A s \in Upload \ {u} : snapshot'[s].state = snapshot[s].state
    BY <1>a, <2>1 DEF SnapshotsWith, AbsentSnapshot, TypeOK, SnapshotRow
  <2>5. LiveWith(f)' = {u}
    BY <1>2, <2>4 DEF LiveWith, Live
  <2>6. \A g \in Fingerprint \ {f} : LiveWith(g)' = LiveWith(g)
    BY <2>4 DEF LiveWith, Live
  <2>7. CurrentSnapshot' = [CurrentSnapshot EXCEPT ![f] = u]
    <3>1. Only({u}) = u
      BY DEF Only
    <3>2. QED BY <2>5, <2>6, <3>1 DEF CurrentSnapshot
  <2>8. Tombstoned' = Tombstoned /\ u \notin Tombstoned
    BY <2>3, <2>4 DEF Tombstoned, Deleted
  <2>9. CurrentSnapshot[f] = None
    BY <1>2, ManifestTypes DEF CurrentSnapshot, Only
  <2>10. QED BY <2>2, <2>3, <2>7, <2>8, <2>9 DEF Store!Store
<1>3. QED BY <1>1, <1>2

\* The deletion transaction.
LEMMA DeletionIsRetire ==
    ASSUME MetadataInv, NEW p \in Deleter, CommitDeletion(p)
    PROVE  \/ \E f \in Fingerprint : Store!Retire(f)
           \/ UNCHANGED <<snapshot, capture>>
<1>a. TypeOK
  BY DEF MetadataInv, LockInv
<1>1. PICK s \in Upload : s = req[p].target
  BY <1>a DEF CommitDeletion, At, TypeOK, Request, TargetPC, DeletionPC, Proc
<1>2. CASE ~Live(s)
  BY <1>1, <1>2 DEF CommitDeletion
<1>3. CASE Live(s)
  <2> DEFINE f == FingerprintOf[s]
  <2>1. /\ snapshot'[s].state = "deleted"
        /\ \A t \in Upload \ {s} : snapshot'[t] = snapshot[t]
        /\ capture' = capture
    BY <1>a, <1>1, <1>3 DEF CommitDeletion, TypeOK, SnapshotRow
  <2>2. f \in Fingerprint
    BY ManifestTypes
  <2>3. LiveWith(f) = {s}
    BY <1>3 DEF LiveWith, MetadataInv, OneLivePerFingerprint
  <2>4. LiveWith(f)' = {}
    BY <2>1, <2>3 DEF LiveWith, Live
  <2>5. \A g \in Fingerprint \ {f} : LiveWith(g)' = LiveWith(g)
    BY <2>1 DEF LiveWith, Live
  <2>6. CurrentSnapshot[f] = s /\ s # None
    BY <2>2, <2>3, NamesAssumption DEF CurrentSnapshot, Only
  <2>7. CurrentSnapshot' = [CurrentSnapshot EXCEPT ![f] = None]
    <3>1. Only({}) = None
      BY DEF Only
    <3>2. QED BY <2>4, <2>5, <3>1 DEF CurrentSnapshot
  <2>8. Tombstoned' = Tombstoned \cup {s}
    BY <2>1 DEF Tombstoned, Deleted
  <2>9. Store!Retire(f)
    BY <2>1, <2>6, <2>7, <2>8 DEF Store!Retire
  <2>10. QED BY <2>2, <2>9
<1>4. QED BY <1>2, <1>3

\* A request that is idle starts only for an upload that has no capture yet.
LEMMA Starting ==
    ASSUME TypeOK, [Next]_vars, NEW w \in Upload,
           req[w].pc = "idle", req'[w].pc # "idle"
    PROVE  BeginCompletion(w)
<1>1. ASSUME NEW p \in Proc, StepOf(p) PROVE BeginCompletion(w)
  <2>1. w = p
    BY <1>1, OthersUntouched DEF Proc
  <2>2. ~CompletionStep(w) /\ ~PromotionFails(w) /\ ~RecordingFails(w)
    BY DEF CompletionStep, CheckRepresentations, LookupFingerprint,
       LockSnapshot, GuardedLookup, LockBlobs, RecheckFingerprint,
       AttachToExisting, PromoteBlob, StampCompletion, RecordCompletion,
       FetchWinner, CleanupCheck, CleanupUnlink, CleanupDone, PromotionFails,
       RecordingFails, At
  <2>3. ~Abandon(w) /\ ~AbandonDuringUnlink(w)
    BY DEF Abandon, AbandonDuringUnlink, At
  <2>4. w \notin Deleter /\ w \notin Collector
    BY NamesAssumption
  <2>5. QED BY <1>1, <2>1, <2>2, <2>3, <2>4 DEF StepOf
<1>2. CASE Crash
  BY <1>2 DEF Crash, Idle, Proc
<1>3. CASE \/ DetachedUnlinkRuns \/ RecoverContext \/ RecoverCandidates
           \/ SweepFile \/ Serve \/ Tick \/ UNCHANGED vars
  BY <1>3 DEF DetachedUnlinkRuns, RecoverContext, RecoverCandidates, SweepFile,
     Serve, Tick, vars
<1>4. QED BY <1>1, <1>2, <1>3 DEF Next, StepOf, Proc

LEMMA PendingStep ==
    ASSUME TypeOK, CapturesPending, [Next]_vars
    PROVE  CapturesPending'
<1>1. CASE UNCHANGED <<snapshot, capture>>
  <2>1. ASSUME NEW w \in Upload, req'[w].pc # "idle" PROVE capture[w] = None
    BY <2>1, Starting DEF CapturesPending, BeginCompletion
  <2>2. QED BY <1>1, <2>1 DEF CapturesPending
<1>2. ASSUME NEW u \in Upload, capture' # capture \/ snapshot' # snapshot,
             AttachToExisting(u) \/ RecordCompletion(u)
      PROVE  CapturesPending'
  <2>1. \A w \in Upload \ {u} : req'[w] = req[w]
    BY <1>2, OthersUntouched DEF Proc, StepOf, CompletionStep
  <2>2. /\ req'[u].pc = "idle"
        /\ \A w \in Upload \ {u} : capture'[w] = capture[w]
    BY <1>2 DEF AttachToExisting, RecordCompletion, Finish, Update, Idle,
       TypeOK, Proc
  <2>3. CASE AttachToExisting(u)
    <3>1. snapshot' = snapshot /\ req[u].pc # "idle"
      BY <2>3 DEF AttachToExisting
    <3>2. snapshot[u].state = "absent"
      BY <3>1, NamesAssumption DEF CapturesPending
    <3>3. QED BY <2>1, <2>2, <3>1, <3>2 DEF CapturesPending
  <2>4. CASE RecordCompletion(u)
    <3>1. CASE LiveWith(FingerprintOf[u]) # {}
      BY <1>2, <2>4, <3>1 DEF RecordCompletion
    <3>2. CASE LiveWith(FingerprintOf[u]) = {}
      <4>1. PICK prior : snapshot' = SnapshotsWith(u, prior)
        BY <2>4, <3>2 DEF RecordCompletion
      <4>2. \A s \in Upload \ {u} : snapshot'[s].state = snapshot[s].state
        BY <4>1 DEF SnapshotsWith, TypeOK, SnapshotRow
      <4>3. capture'[u] = u
        BY <2>4, <3>2 DEF RecordCompletion, TypeOK
      <4>4. QED BY <2>1, <2>2, <4>2, <4>3 DEF CapturesPending
    <3>3. QED BY <3>1, <3>2
  <2>5. QED BY <1>2, <2>3, <2>4
<1>3. ASSUME NEW p \in Deleter, CommitDeletion(p) PROVE CapturesPending'
  <2>1. \A w \in Upload : req'[w] = req[w]
    BY <1>3, OthersUntouched, NamesAssumption DEF Proc, StepOf, DeletionStep
  <2>2. capture' = capture
    BY <1>3 DEF CommitDeletion
  <2>3. \A s \in Upload : snapshot'[s].state # "absent" =>
                          snapshot[s].state # "absent"
    <3>1. PICK s \in Upload : s = req[p].target
      BY <1>3 DEF CommitDeletion, At, TypeOK, Request, TargetPC, DeletionPC,
         Proc
    <3>2. CASE ~Live(s)
      BY <1>3, <3>1, <3>2 DEF CommitDeletion
    <3>3. CASE Live(s)
      <4>1. \A t \in Upload \ {s} : snapshot'[t] = snapshot[t]
        BY <1>3, <3>1, <3>3 DEF CommitDeletion, TypeOK
      <4>2. QED BY <3>3, <4>1 DEF Live
    <3>4. QED BY <3>2, <3>3
  <2>4. QED BY <2>1, <2>2, <2>3 DEF CapturesPending
<1>4. QED BY <1>1, <1>2, <1>3, VisibleChange

LEMMA PendingInit == Init => CapturesPending
BY NamesAssumption DEF Init, CapturesPending, Idle, AbsentSnapshot, Proc

\* Every step of the archive is a step of the abstract store, or invisible.
LEMMA StoreStep ==
    ASSUME MetadataInv, CapturesPending, [Next]_vars
    PROVE  [Store!Next]_(Store!vars)
<1>1. CASE UNCHANGED <<snapshot, capture>>
  BY <1>1, InvisibleStep
<1>2. ASSUME NEW u \in Upload, AttachToExisting(u) \/ RecordCompletion(u)
      PROVE  [Store!Next]_(Store!vars)
  BY <1>1, <1>2, AttachIsDeduplicate, RecordIsStore DEF Store!Next
<1>3. ASSUME NEW p \in Deleter, CommitDeletion(p)
      PROVE  [Store!Next]_(Store!vars)
  BY <1>1, <1>3, DeletionIsRetire DEF Store!Next
<1>4. QED BY <1>1, <1>2, <1>3, VisibleChange

LEMMA StoreInit == Init => Store!Init
<1> SUFFICES ASSUME Init PROVE Store!Init
  OBVIOUS
<1>1. \A s \in Upload : snapshot[s].state = "absent"
  BY DEF Init, AbsentSnapshot
<1>2. \A f \in Fingerprint : LiveWith(f) = {}
  BY <1>1 DEF LiveWith, Live
<1>3. CurrentSnapshot = [f \in Fingerprint |-> None]
  BY <1>2 DEF CurrentSnapshot, Only
<1>4. Tombstoned = {}
  BY <1>1 DEF Tombstoned, Deleted
<1>5. QED BY <1>3, <1>4 DEF Store!Init, Init

\* The archive implements the abstract store: deduplication, deletion and
\* rearchiving look atomic to a client, whatever runs, crashes or is cancelled.
THEOREM Refinement == Spec => ImplementsStore
<1>1. Init => CapturesPending
  BY PendingInit
<1>2. TypeOK /\ CapturesPending /\ [Next]_vars => CapturesPending'
  BY PendingStep
<1>3. MetadataInv => TypeOK
  BY DEF MetadataInv, LockInv
<1>4. Spec => []CapturesPending
  BY <1>1, <1>2, <1>3, MetadataInvariant, PTL DEF Spec
<1>5. Init => Store!Init
  BY StoreInit
<1>6. MetadataInv /\ CapturesPending /\ [Next]_vars => [Store!Next]_(Store!vars)
  BY StoreStep
<1>7. QED
  BY <1>4, <1>5, <1>6, MetadataInvariant, PTL DEF Spec, ImplementsStore,
     Store!Spec

\* A capture is committed once, to a snapshot that is live when it is.
THEOREM CapturesSafe == Spec => CapturesJoinLiveSnapshots
<1> DEFINE A == \A u \in Upload : capture'[u] # capture[u] =>
                    /\ capture[u] = None
                    /\ snapshot'[capture'[u]].state = "live"
<1>1. ASSUME TypeOK, CapturesPending, [Next]_vars PROVE A \/ UNCHANGED vars
  <2>1. CASE capture' = capture
    BY <2>1
  <2>2. ASSUME NEW u \in Upload, AttachToExisting(u) PROVE A
    <3>1. snapshot' = snapshot /\ req[u].pc # "idle"
      BY <2>2 DEF AttachToExisting
    <3>2. \/ capture' = capture
          \/ Live(req[u].target) /\ capture' = [capture EXCEPT ![u] = req[u].target]
      BY <2>2 DEF AttachToExisting
    <3>3. QED BY <1>1, <3>1, <3>2 DEF CapturesPending, Live, TypeOK
  <2>3. ASSUME NEW u \in Upload, RecordCompletion(u) PROVE A
    <3>1. \/ capture' = capture
          \/ /\ LiveWith(FingerprintOf[u]) = {}
             /\ capture' = [capture EXCEPT ![u] = u]
      BY <2>3 DEF RecordCompletion
    <3>2. CASE /\ LiveWith(FingerprintOf[u]) = {}
               /\ capture' = [capture EXCEPT ![u] = u]
      <4>1. PICK prior : snapshot' = SnapshotsWith(u, prior)
        BY <2>3, <3>2 DEF RecordCompletion
      <4>2. snapshot'[u].state = "live"
        BY <4>1 DEF SnapshotsWith, AbsentSnapshot
      <4>3. req[u].pc # "idle"
        BY <2>3 DEF RecordCompletion, At
      <4>4. QED BY <1>1, <3>2, <4>2, <4>3 DEF CapturesPending, TypeOK
    <3>3. QED BY <2>1, <3>1, <3>2
  <2>4. ASSUME NEW p \in Deleter, CommitDeletion(p) PROVE A
    BY <2>4 DEF CommitDeletion
  <2>5. QED BY <1>1, <2>1, <2>2, <2>3, <2>4, VisibleChange
<1>2. TypeOK /\ CapturesPending /\ [Next]_vars => CapturesPending'
  BY PendingStep
<1>3. QED
  BY <1>1, <1>2, PendingInit, TypeCorrect, PTL
     DEF Spec, CapturesJoinLiveSnapshots

-----------------------------------------------------------------------------
(* The links between tombstones and the snapshots that continue them *)

\* A snapshot that was never recorded is linked to nothing.
AbsentUnlinked ==
    \A s \in Upload : snapshot[s].state = "absent" =>
        snapshot[s].from = None /\ snapshot[s].rearchived = None

\* Tombstone ids are handed out in order, and a snapshot that continues a
\* tombstone is deleted after it, in time and in id.
TombstonesOrdered ==
    /\ \A s \in Upload : Deleted(s) => snapshot[s].tombstone <= Cardinality(Tombstoned)
    /\ \A s, t \in Upload :
          Deleted(s) /\ Deleted(t) /\ snapshot[t].rearchived = s =>
             /\ snapshot[t].deletedAt <= snapshot[s].deletedAt
             /\ snapshot[t].tombstone < snapshot[s].tombstone

\* A deletion works on a recorded snapshot, and reads the clock after the
\* tombstone that its snapshot continues.
DeletersFollow ==
    \A p \in Deleter :
        /\ req[p].pc \in DeletionPC => snapshot[req[p].target].state # "absent"
        /\ req[p].pc = "delCommit" =>
              \A t \in Upload : snapshot[req[p].target].from = t =>
                  snapshot[t].deletedAt <= req[p].now

LinksInv ==
    RearchiveLinksAgree /\ AbsentUnlinked /\ TombstonesOrdered /\ DeletersFollow

\* The tombstone that a completion continues is continued by no other snapshot:
\* the snapshot that did would be deleted by now, and later.
LEMMA PriorIsFree ==
    ASSUME TypeOK, LinksInv, NEW f, LiveWith(f) = {},
           NEW prior \in PriorTombstone(f), prior \in Upload
    PROVE  snapshot[prior].rearchived = None
<1> SUFFICES ASSUME snapshot[prior].rearchived # None PROVE FALSE
  OBVIOUS
<1>1. PICK s \in Upload : snapshot[prior].rearchived = s
  BY DEF TypeOK, SnapshotRow
<1>2. snapshot[s].from = prior /\ Deleted(prior) /\ FingerprintOf[s] = FingerprintOf[prior]
  BY <1>1 DEF LinksInv, RearchiveLinksAgree
<1>3. FingerprintOf[prior] = f
  BY PriorIsTombstone, NamesAssumption
<1>4. Deleted(s)
  <2>1. snapshot[s].state # "absent"
    BY <1>2, NamesAssumption DEF LinksInv, AbsentUnlinked
  <2>2. ~Live(s)
    BY <1>2, <1>3 DEF LiveWith
  <2> QED BY <2>1, <2>2 DEF TypeOK, SnapshotRow, Live, Deleted
<1>5. /\ snapshot[prior].deletedAt <= snapshot[s].deletedAt
      /\ snapshot[prior].tombstone < snapshot[s].tombstone
  BY <1>1, <1>2, <1>4 DEF LinksInv, TombstonesOrdered
<1>6. /\ snapshot[prior].deletedAt \in Nat /\ snapshot[s].deletedAt \in Nat
      /\ snapshot[prior].tombstone \in Nat /\ snapshot[s].tombstone \in Nat
  BY DEF TypeOK, SnapshotRow
<1>7. s # prior
  BY <1>5, <1>6
<1>8. \/ snapshot[prior].deletedAt > snapshot[s].deletedAt
      \/ /\ snapshot[prior].deletedAt = snapshot[s].deletedAt
         /\ snapshot[prior].tombstone > snapshot[s].tombstone
  BY <1>2, <1>3, <1>4, <1>7 DEF PriorTombstone
<1> QED BY <1>5, <1>6, <1>8

\* record_completed_upload links its snapshot and the tombstone to each other.
LEMMA RecordLinks ==
    ASSUME TypeOK, CapturesPending, LinksInv, [Next]_vars,
           NEW u \in Upload, RecordCompletion(u), ~UNCHANGED snapshot
    PROVE  LinksInv'
<1>1. PICK prior \in PriorTombstone(FingerprintOf[u]) :
         /\ LiveWith(FingerprintOf[u]) = {}
         /\ snapshot'[u].state = "live"
         /\ snapshot'[u].from = prior
         /\ snapshot'[u].rearchived = None
         /\ \A s \in Upload \ {u} :
               /\ snapshot'[s].state = snapshot[s].state
               /\ snapshot'[s].deletedAt = snapshot[s].deletedAt
               /\ snapshot'[s].tombstone = snapshot[s].tombstone
               /\ snapshot'[s].from = snapshot[s].from
               /\ snapshot'[s].rearchived =
                     IF s = prior /\ snapshot[s].rearchived = None
                     THEN u ELSE snapshot[s].rearchived
  BY RecordRows
<1>2. snapshot[u].state = "absent"
  BY NamesAssumption DEF RecordCompletion, At, CapturesPending
<1>3. snapshot[u].from = None /\ snapshot[u].rearchived = None
      /\ None \notin Upload /\ ~Deleted(u)
  BY <1>2, NamesAssumption DEF LinksInv, AbsentUnlinked, Deleted
<1>4. \/ prior = None
      \/ /\ prior \in Upload \ {u} /\ Deleted(prior)
         /\ FingerprintOf[prior] = FingerprintOf[u]
         /\ snapshot[prior].rearchived = None
  <2>1. CASE prior \in Upload
    BY <1>1, <1>3, <2>1, PriorIsTombstone, PriorIsFree
  <2> QED BY <1>1, <2>1, PriorIsTombstone
<1>5. \A s \in Upload : ~(snapshot[s].from = u) /\ ~(snapshot[s].rearchived = u)
  BY <1>3 DEF LinksInv, RearchiveLinksAgree
<1>6. \A t \in Upload : Deleted(t)' <=> Deleted(t)
  BY <1>1, <1>3 DEF Deleted
<1>7. ASSUME NEW s \in Upload, NEW t \in Upload
      PROVE  /\ snapshot'[s].from = t <=> snapshot'[t].rearchived = s
             /\ snapshot'[s].from = t => /\ Deleted(t)'
                                         /\ FingerprintOf[s] = FingerprintOf[t]
  <2>0. /\ snapshot[s].from = t <=> snapshot[t].rearchived = s
        /\ snapshot[s].from = t => Deleted(t) /\ FingerprintOf[s] = FingerprintOf[t]
    BY DEF LinksInv, RearchiveLinksAgree
  <2>1. CASE s = u /\ t = u
    BY <1>1, <1>3, <1>4, <2>1
  <2>2. CASE s = u /\ t # u
    <3>1. CASE t = prior
      BY <1>1, <1>3, <1>4, <1>6, <2>2, <3>1
    <3>2. CASE t # prior
      BY <1>1, <1>5, <2>2, <3>2
    <3> QED BY <3>1, <3>2
  <2>3. CASE s # u /\ t = u
    BY <1>1, <1>3, <1>5, <2>3
  <2>4. CASE s # u /\ t # u
    <3>1. CASE t = prior
      BY <1>1, <1>3, <1>4, <2>0, <2>4, <3>1
    <3>2. CASE t # prior
      BY <1>1, <1>6, <2>0, <2>4, <3>2
    <3> QED BY <3>1, <3>2
  <2> QED BY <2>1, <2>2, <2>3, <2>4
<1>8. RearchiveLinksAgree'
  BY <1>7 DEF RearchiveLinksAgree
<1>9. AbsentUnlinked'
  <2> SUFFICES ASSUME NEW s \in Upload, snapshot'[s].state = "absent"
               PROVE  snapshot'[s].from = None /\ snapshot'[s].rearchived = None
    BY DEF AbsentUnlinked
  <2>1. s # u /\ snapshot[s].state = "absent"
    BY <1>1
  <2>2. s # prior
    BY <1>3, <1>4, <2>1 DEF Deleted
  <2> QED BY <1>1, <2>1, <2>2 DEF LinksInv, AbsentUnlinked
<1>10. TombstonesOrdered'
  <2>1. Tombstoned' = Tombstoned
    BY <1>6 DEF Tombstoned
  <2>2. ASSUME NEW s \in Upload, Deleted(s)'
        PROVE  /\ Deleted(s) /\ s # u
               /\ snapshot'[s].deletedAt = snapshot[s].deletedAt
               /\ snapshot'[s].tombstone = snapshot[s].tombstone
    BY <1>1, <1>3, <1>6, <2>2
  <2>3. ASSUME NEW s \in Upload, NEW t \in Upload, Deleted(s)', Deleted(t)',
               snapshot'[t].rearchived = s
        PROVE  snapshot[t].rearchived = s
    BY <1>1, <2>2, <2>3
  <2> QED BY <2>1, <2>2, <2>3 DEF LinksInv, TombstonesOrdered
<1>11. DeletersFollow'
  <2> SUFFICES ASSUME NEW p \in Deleter
               PROVE  /\ req'[p].pc \in DeletionPC =>
                            snapshot'[req'[p].target].state # "absent"
                      /\ req'[p].pc = "delCommit" =>
                            \A t \in Upload : snapshot'[req'[p].target].from = t =>
                                snapshot'[t].deletedAt <= req'[p].now
    BY DEF DeletersFollow
  <2>1. req'[p] = req[p] /\ p \in Proc
    BY OthersUntouched, NamesAssumption DEF StepOf, CompletionStep, Proc
  <2>2. ASSUME req[p].pc \in DeletionPC
        PROVE  /\ req[p].target \in Upload \ {u}
               /\ snapshot[req[p].target].state # "absent"
    <3>1. req[p].target \in Upload
      BY <2>1, <2>2 DEF TypeOK, Request, TargetPC
    <3>2. snapshot[req[p].target].state # "absent"
      BY <2>2 DEF LinksInv, DeletersFollow
    <3> QED BY <1>2, <3>1, <3>2
  <2>3. req[p].pc = "delCommit" => req[p].pc \in DeletionPC
    BY DEF DeletionPC
  <2>4. ASSUME req[p].pc = "delCommit", NEW t \in Upload,
               snapshot'[req[p].target].from = t
        PROVE  snapshot'[t].deletedAt <= req[p].now
    <3>1. snapshot[req[p].target].from = t
      BY <1>1, <2>2, <2>3, <2>4
    <3>2. t # u
      BY <1>5, <2>2, <2>3, <2>4, <3>1
    <3> QED BY <1>1, <2>4, <3>1, <3>2 DEF LinksInv, DeletersFollow
  <2> QED BY <1>1, <2>1, <2>2, <2>4
<1> QED BY <1>8, <1>9, <1>10, <1>11 DEF LinksInv

\* delete_snapshot adds the newest tombstone, and keeps the links.
LEMMA DeletionLinks ==
    ASSUME TypeOK, LinksInv, [Next]_vars, NEW p \in Deleter, CommitDeletion(p),
           ~UNCHANGED snapshot
    PROVE  LinksInv'
<1>1. PICK s \in Upload :
         /\ s = req[p].target /\ Live(s)
         /\ snapshot'[s].state = "deleted"
         /\ snapshot'[s].deletedAt = req[p].now
         /\ snapshot'[s].tombstone = 1 + Cardinality({t \in Upload : Deleted(t)})
         /\ snapshot'[s].from = snapshot[s].from
         /\ snapshot'[s].rearchived = snapshot[s].rearchived
         /\ \A t \in Upload \ {s} : snapshot'[t] = snapshot[t]
  BY DeletionRows
<1>2. /\ \A t \in Upload : /\ snapshot'[t].from = snapshot[t].from
                           /\ snapshot'[t].rearchived = snapshot[t].rearchived
                           /\ Deleted(t)' <=> Deleted(t) \/ t = s
                           /\ snapshot'[t].state = "absent" <=> snapshot[t].state = "absent"
      /\ ~Deleted(s)
  BY <1>1 DEF Deleted, Live
<1>3. RearchiveLinksAgree' /\ AbsentUnlinked'
  BY <1>2 DEF LinksInv, RearchiveLinksAgree, AbsentUnlinked
<1>4. /\ Cardinality(Tombstoned)' = Cardinality(Tombstoned) + 1
      /\ Cardinality(Tombstoned) \in Nat
      /\ snapshot'[s].tombstone = 1 + Cardinality(Tombstoned)
  <2>1. Tombstoned' = Tombstoned \cup {s} /\ s \notin Tombstoned
    BY <1>2 DEF Tombstoned
  <2>2. IsFiniteSet(Tombstoned)
    BY ConstantsAssumption, FS_Subset DEF Tombstoned
  <2>3. Cardinality(Tombstoned \cup {s}) = Cardinality(Tombstoned) + 1
    BY <2>1, <2>2, FS_AddElement
  <2>4. Cardinality(Tombstoned) \in Nat
    BY <2>2, FS_CardinalityType
  <2>5. snapshot'[s].tombstone = 1 + Cardinality(Tombstoned)
    BY <1>1 DEF Tombstoned
  <2> QED BY <2>1, <2>3, <2>4, <2>5
<1>5. \A t \in Upload : snapshot[t].tombstone \in Nat /\ snapshot[t].deletedAt \in Nat
  BY DEF TypeOK, SnapshotRow
<1>6. TombstonesOrdered'
  <2>1. ASSUME NEW t \in Upload, Deleted(t)'
        PROVE  snapshot'[t].tombstone <= Cardinality(Tombstoned)'
    <3>1. CASE t = s
      BY <1>4, <3>1
    <3>2. CASE t # s
      BY <1>1, <1>2, <1>4, <1>5, <2>1, <3>2 DEF LinksInv, TombstonesOrdered
    <3> QED BY <3>1, <3>2
  <2>2. ASSUME NEW r \in Upload, NEW t \in Upload, Deleted(r)', Deleted(t)',
               snapshot'[t].rearchived = r
        PROVE  /\ snapshot'[t].deletedAt <= snapshot'[r].deletedAt
               /\ snapshot'[t].tombstone < snapshot'[r].tombstone
    <3>1. snapshot[t].rearchived = r /\ snapshot[r].from = t /\ Deleted(t) /\ t # s
      BY <1>2, <2>2 DEF LinksInv, RearchiveLinksAgree
    <3>2. CASE r = s
      <4>1. snapshot[t].deletedAt <= req[p].now
        BY <1>1, <3>1, <3>2 DEF CommitDeletion, At, LinksInv, DeletersFollow
      <4>2. snapshot[t].tombstone <= Cardinality(Tombstoned)
        BY <3>1 DEF LinksInv, TombstonesOrdered
      <4> QED BY <1>1, <1>4, <1>5, <3>1, <3>2, <4>1, <4>2
    <3>3. CASE r # s
      BY <1>1, <1>2, <2>2, <3>1, <3>3 DEF LinksInv, TombstonesOrdered
    <3> QED BY <3>2, <3>3
  <2> QED BY <2>1, <2>2 DEF TombstonesOrdered
<1>7. DeletersFollow'
  <2> SUFFICES ASSUME NEW q \in Deleter
               PROVE  /\ req'[q].pc \in DeletionPC =>
                            snapshot'[req'[q].target].state # "absent"
                      /\ req'[q].pc = "delCommit" =>
                            \A t \in Upload : snapshot'[req'[q].target].from = t =>
                                snapshot'[t].deletedAt <= req'[q].now
    BY DEF DeletersFollow
  <2>1. CASE q = p
    <3>1. req'[p].pc = "idle"
      BY DEF CommitDeletion, Finish, Update, Idle, TypeOK, Proc
    <3> QED BY <2>1, <3>1 DEF DeletionPC
  <2>2. CASE q # p
    <3>1. req'[q] = req[q] /\ q \in Proc
      BY <2>2, OthersUntouched DEF StepOf, DeletionStep, Proc
    <3>2. req[q].pc \in DeletionPC =>
             /\ req[q].target \in Upload
             /\ snapshot[req[q].target].state # "absent"
      BY <3>1 DEF TypeOK, Request, TargetPC, LinksInv, DeletersFollow
    <3>3. ASSUME req[q].pc = "delCommit", NEW t \in Upload,
                 snapshot'[req[q].target].from = t
          PROVE  snapshot'[t].deletedAt <= req[q].now
      <4>1. req[q].target \in Upload
        BY <3>2, <3>3 DEF DeletionPC
      <4>2. snapshot[req[q].target].from = t
        BY <1>2, <3>3, <4>1
      <4>3. t # s
        BY <1>2, <4>1, <4>2 DEF LinksInv, RearchiveLinksAgree
      <4> QED BY <1>1, <3>3, <4>2, <4>3 DEF LinksInv, DeletersFollow
    <3> QED BY <1>2, <3>1, <3>2, <3>3
  <2> QED BY <2>1, <2>2
<1> QED BY <1>3, <1>6, <1>7 DEF LinksInv

LEMMA LinksStep ==
    ASSUME TypeOK, TimesPast, CapturesPending, LinksInv, [Next]_vars
    PROVE  LinksInv'
<1>1. CASE UNCHANGED snapshot
  <2>1. RearchiveLinksAgree' /\ AbsentUnlinked'
    BY <1>1 DEF LinksInv, RearchiveLinksAgree, AbsentUnlinked, Deleted
  <2>2. TombstonesOrdered'
    <3>1. Tombstoned' = Tombstoned /\ \A s \in Upload : Deleted(s)' <=> Deleted(s)
      BY <1>1 DEF Tombstoned, Deleted
    <3> QED BY <1>1, <3>1 DEF LinksInv, TombstonesOrdered
  <2>3. DeletersFollow'
    <3> SUFFICES ASSUME NEW p \in Deleter
                 PROVE  /\ req'[p].pc \in DeletionPC =>
                              snapshot[req'[p].target].state # "absent"
                        /\ req'[p].pc = "delCommit" =>
                              \A t \in Upload : snapshot[req'[p].target].from = t =>
                                  snapshot[t].deletedAt <= req'[p].now
      BY <1>1 DEF DeletersFollow
    <3>1. CASE req'[p] = req[p]
      BY <3>1 DEF LinksInv, DeletersFollow
    <3>2. CASE req'[p].pc = "idle"
      BY <3>2 DEF DeletionPC
    <3>3. CASE req'[p].pc = "delLockSnapshot" /\ Live(req'[p].target)
      BY <3>3 DEF Live
    <3>4. CASE /\ req[p].pc \in DeletionPC /\ req'[p].target = req[p].target
               /\ req'[p].pc \in {"delRecheck", "delLockBlobs", "delStamp"}
      BY <3>4 DEF LinksInv, DeletersFollow
    <3>5. CASE /\ req[p].pc = "delStamp" /\ req'[p].target = req[p].target
               /\ req'[p].now = clock
      <4>1. req[p].pc \in DeletionPC /\ req[p].target \in Upload
        BY <3>5 DEF DeletionPC, TypeOK, Request, TargetPC, Proc
      <4>2. ASSUME NEW t \in Upload, snapshot[req[p].target].from = t
            PROVE  snapshot[t].deletedAt <= clock
        BY <4>1, <4>2 DEF LinksInv, RearchiveLinksAgree, TimesPast
      <4> QED BY <3>5, <4>1, <4>2 DEF LinksInv, DeletersFollow
    <3> QED BY <3>1, <3>2, <3>3, <3>4, <3>5, HowDeletersMove
  <2> QED BY <2>1, <2>2, <2>3 DEF LinksInv
<1>2. CASE ~UNCHANGED snapshot
  BY <1>2, RecordLinks, DeletionLinks, RowsChange
     DEF SkipCandidate, CommitCollection, RecoverCandidates
<1> QED BY <1>1, <1>2

\* Every rearchived snapshot and the tombstone it continues name each other,
\* and no tombstone is continued twice, for any order of clock readings,
\* completions and deletions of the identity.
THEOREM RearchivesLinked == Spec => []RearchiveLinksAgree
<1>1. Init => TimesPast /\ LinksInv
  <2> SUFFICES ASSUME Init PROVE TimesPast /\ LinksInv
    OBVIOUS
  <2>1. /\ \A s \in Upload : /\ ~Deleted(s) /\ snapshot[s].from = None
                             /\ snapshot[s].rearchived = None
        /\ \A p \in Proc : req[p].pc = "idle"
    BY DEF Init, Deleted, AbsentSnapshot, Idle
  <2> QED BY <2>1, NamesAssumption DEF TimesPast, LinksInv, RearchiveLinksAgree,
          AbsentUnlinked, TombstonesOrdered, DeletersFollow, DeletionPC, Proc
<1>2. /\ TypeOK /\ TimesPast /\ [Next]_vars => TimesPast'
      /\ TypeOK /\ CapturesPending /\ [Next]_vars => CapturesPending'
      /\ TypeOK /\ TimesPast /\ CapturesPending /\ LinksInv /\ [Next]_vars => LinksInv'
  BY TimesStep, PendingStep, LinksStep
<1>3. LinksInv => RearchiveLinksAgree
  BY DEF LinksInv
<1> QED BY <1>1, <1>2, <1>3, PendingInit, TypeCorrect, PTL DEF Spec
=============================================================================
