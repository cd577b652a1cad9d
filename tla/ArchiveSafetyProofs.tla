------------------------ MODULE ArchiveSafetyProofs ------------------------
(***************************************************************************)
(* What the archive promises: the metadata invariants, for every way a     *)
(* request may end, and that no live snapshot ever misses a blob, when no  *)
(* unlink outlives the request that started it.                            *)
(***************************************************************************)
EXTENDS ArchiveProofs

-----------------------------------------------------------------------------
(* What each step does to the rows *)

\* Which steps write snapshots or blobs rows.
LEMMA RowsChange ==
    ASSUME TypeOK, [Next]_vars
    PROVE  \/ UNCHANGED <<snapshot, blob>>
           \/ \E u \in Upload : RecordCompletion(u)
           \/ \E p \in Deleter : CommitDeletion(p)
           \/ \E g \in Collector : SkipCandidate(g) \/ CommitCollection(g)
           \/ RecoverCandidates
<1> DEFINE Goal == \/ UNCHANGED <<snapshot, blob>>
                   \/ \E u \in Upload : RecordCompletion(u)
                   \/ \E p \in Deleter : CommitDeletion(p)
                   \/ \E g \in Collector : SkipCandidate(g) \/ CommitCollection(g)
                   \/ RecoverCandidates
<1>1. ASSUME NEW u \in Upload, BeginCompletion(u) PROVE Goal
  BY <1>1 DEF BeginCompletion, database
<1>2. ASSUME NEW u \in Upload, CheckRepresentations(u) PROVE Goal
  BY <1>2 DEF CheckRepresentations, database
<1>3. ASSUME NEW u \in Upload, LookupFingerprint(u) PROVE Goal
  BY <1>3 DEF LookupFingerprint, database
<1>4. ASSUME NEW u \in Upload, LockSnapshot(u) PROVE Goal
  BY <1>4 DEF LockSnapshot, database
<1>5. ASSUME NEW u \in Upload, GuardedLookup(u) PROVE Goal
  BY <1>5 DEF GuardedLookup, database
<1>6. ASSUME NEW u \in Upload, LockBlobs(u) PROVE Goal
  BY <1>6 DEF LockBlobs, database
<1>7. ASSUME NEW u \in Upload, RecheckFingerprint(u) PROVE Goal
  BY <1>7 DEF RecheckFingerprint, database
<1>8. ASSUME NEW u \in Upload, AttachToExisting(u) PROVE Goal
  BY <1>8 DEF AttachToExisting, database
<1>9. ASSUME NEW u \in Upload, PromoteBlob(u) PROVE Goal
  BY <1>9 DEF PromoteBlob, database
<1>10. ASSUME NEW u \in Upload, StampCompletion(u) PROVE Goal
  BY <1>10 DEF StampCompletion, database
<1>11. ASSUME NEW u \in Upload, RecordCompletion(u) PROVE Goal
  BY <1>11
<1>12. ASSUME NEW u \in Upload, FetchWinner(u) PROVE Goal
  BY <1>12 DEF FetchWinner, database
<1>13. ASSUME NEW u \in Upload, CleanupCheck(u) PROVE Goal
  BY <1>13 DEF CleanupCheck, database
<1>14. ASSUME NEW u \in Upload, CleanupUnlink(u) PROVE Goal
  BY <1>14 DEF CleanupUnlink, database
<1>15. ASSUME NEW u \in Upload, CleanupDone(u) PROVE Goal
  BY <1>15 DEF CleanupDone, database
<1>16. ASSUME NEW u \in Upload, PromotionFails(u) PROVE Goal
  BY <1>16 DEF PromotionFails, database
<1>17. ASSUME NEW u \in Upload, RecordingFails(u) PROVE Goal
  BY <1>17 DEF RecordingFails, database
<1>18. ASSUME NEW p \in Deleter, RequestDeletion(p) PROVE Goal
  BY <1>18 DEF RequestDeletion, database
<1>19. ASSUME NEW p \in Deleter, DeletionLocksSnapshot(p) PROVE Goal
  BY <1>19 DEF DeletionLocksSnapshot, database
<1>20. ASSUME NEW p \in Deleter, DeletionRechecks(p) PROVE Goal
  BY <1>20 DEF DeletionRechecks, database
<1>21. ASSUME NEW p \in Deleter, DeletionLocksBlobs(p) PROVE Goal
  BY <1>21 DEF DeletionLocksBlobs, database
<1>22. ASSUME NEW p \in Deleter, StampDeletion(p) PROVE Goal
  BY <1>22 DEF StampDeletion, database
<1>23. ASSUME NEW p \in Deleter, CommitDeletion(p) PROVE Goal
  BY <1>23
<1>24. ASSUME NEW g \in Collector, BeginCollection(g) PROVE Goal
  BY <1>24 DEF BeginCollection, database
<1>25. ASSUME NEW g \in Collector, LockCandidate(g) PROVE Goal
  BY <1>25 DEF LockCandidate, database
<1>26. ASSUME NEW g \in Collector, SkipCandidate(g) PROVE Goal
  BY <1>26
<1>27. ASSUME NEW g \in Collector, DeleteRow(g) PROVE Goal
  BY <1>27 DEF DeleteRow, database
<1>28. ASSUME NEW g \in Collector, UnlinkBlob(g) PROVE Goal
  BY <1>28 DEF UnlinkBlob, database
<1>29. ASSUME NEW g \in Collector, CommitCollection(g) PROVE Goal
  BY <1>29
<1>30. ASSUME NEW g \in Collector, FinishCollection(g) PROVE Goal
  BY <1>30 DEF FinishCollection, database
<1>31. ASSUME NEW q \in Proc, Abandon(q) PROVE Goal
  BY <1>31 DEF Abandon, database
<1>32. ASSUME NEW q \in Proc, AbandonDuringUnlink(q) PROVE Goal
  BY <1>32 DEF AbandonDuringUnlink, database
<1>33. CASE DetachedUnlinkRuns
  BY <1>33 DEF DetachedUnlinkRuns, database
<1>34. CASE Crash
  BY <1>34 DEF Crash, database
<1>35. CASE RecoverContext
  BY <1>35 DEF RecoverContext, database
<1>36. CASE RecoverCandidates
  BY <1>36
<1>37. CASE SweepFile
  BY <1>37 DEF SweepFile, database
<1>38. CASE Serve
  BY <1>38 DEF Serve, database
<1>39. CASE Tick
  BY <1>39 DEF Tick, database
<1>40. CASE UNCHANGED vars
  BY <1>40 DEF vars, database
<1> QED
  BY <1>1, <1>2, <1>3, <1>4, <1>5, <1>6, <1>7, <1>8, <1>9, <1>10, <1>11,
     <1>12, <1>13, <1>14, <1>15, <1>16, <1>17, <1>18, <1>19, <1>20, <1>21,
     <1>22, <1>23, <1>24, <1>25, <1>26, <1>27, <1>28, <1>29, <1>30, <1>31,
     <1>32, <1>33, <1>34, <1>35, <1>36, <1>37, <1>38, <1>39, <1>40 DEF Next,
     CompletionStep, DeletionStep, CollectionStep

\* What record_completed_upload commits: nothing, or a snapshot that is live,
\* with its blobs, where its identity had no live one.
LEMMA RecordEffect ==
    ASSUME TypeOK, NEW u \in Upload, RecordCompletion(u)
    PROVE  \/ UNCHANGED <<snapshot, blob>>
           \/ /\ LiveWith(FingerprintOf[u]) = {}
              /\ Compatible(u)
              /\ Live(u)'
              /\ \A s \in Upload \ {u} : Live(s)' <=> Live(s)
              /\ blob' = BlobsWith(u)
<1>1. CASE LiveWith(FingerprintOf[u]) # {}
  BY <1>1 DEF RecordCompletion
<1>2. CASE LiveWith(FingerprintOf[u]) = {}
  <2>1. PICK prior : snapshot' = SnapshotsWith(u, prior)
    BY <1>2 DEF RecordCompletion
  <2>2. Live(u)'
    BY <2>1 DEF SnapshotsWith, Live, AbsentSnapshot
  <2>3. \A s \in Upload \ {u} : Live(s)' <=> Live(s)
    BY <2>1 DEF SnapshotsWith, Live, TypeOK, SnapshotRow
  <2>4. QED BY <1>2, <2>2, <2>3 DEF RecordCompletion
<1>3. QED BY <1>1, <1>2

\* What delete_snapshot commits: nothing, or the end of one live snapshot with
\* the schedule of its blobs.
LEMMA DeletionEffect ==
    ASSUME TypeOK, NEW p \in Deleter, CommitDeletion(p)
    PROVE  \E s \in Upload :
              /\ s = req[p].target
              /\ \/ UNCHANGED <<snapshot, blob>>
                 \/ /\ Live(s) /\ ~Live(s)'
                    /\ \A t \in Upload \ {s} : Live(t)' <=> Live(t)
                    /\ blob' = BlobsWithout(s, req[p].now)
<1>1. PICK s \in Upload : s = req[p].target
  BY DEF CommitDeletion, At, TypeOK, Request, TargetPC, DeletionPC, Proc
<1>2. CASE ~Live(s)
  BY <1>1, <1>2 DEF CommitDeletion
<1>3. CASE Live(s)
  <2>1. blob' = BlobsWithout(s, req[p].now)
    BY <1>1, <1>3 DEF CommitDeletion
  <2>2. /\ snapshot'[s].state = "deleted"
        /\ \A t \in Upload \ {s} : snapshot'[t] = snapshot[t]
    BY <1>1, <1>3 DEF CommitDeletion, TypeOK, SnapshotRow
  <2>3. ~Live(s)' /\ \A t \in Upload \ {s} : Live(t)' <=> Live(t)
    BY <2>2 DEF Live
  <2>4. QED BY <1>1, <1>3, <2>1, <2>3
<1>4. QED BY <1>2, <1>3

\* A row keeps its representation while a live snapshot references it.
LEMMA RepresentationsStep ==
    ASSUME TypeOK, CollectorOwnsWriter, RepresentationsAgree, [Next]_vars
    PROVE  RepresentationsAgree'
<1>a. \A s \in Upload : DigestsOf[s] \subseteq Digest /\ \A d \in Digest : RepOf[s][d] \in Rep
  BY ManifestTypes
<1>1. CASE UNCHANGED <<snapshot, blob>>
  BY <1>1 DEF RepresentationsAgree, Live
<1>2. ASSUME NEW u \in Upload, RecordCompletion(u) PROVE RepresentationsAgree'
  <2>1. CASE UNCHANGED <<snapshot, blob>>
    BY <1>1, <2>1
  <2>2. CASE /\ Compatible(u)
             /\ \A s \in Upload \ {u} : Live(s)' <=> Live(s)
             /\ blob' = BlobsWith(u)
    <3>1. \A d \in DigestsOf[u] : blob'[d].rep = RepOf[u][d]
      BY <1>a, <2>2 DEF Compatible, BlobsWith, HasRow
    <3>2. \A d \in Digest : HasRow(d) => blob'[d].rep = blob[d].rep
      BY <2>2 DEF BlobsWith, HasRow
    <3>3. ASSUME NEW s \in Upload \ {u}, Live(s)', NEW d \in DigestsOf[s]
          PROVE  blob'[d].rep = RepOf[s][d]
      BY <1>a, <2>2, <3>2, <3>3, NamesAssumption DEF RepresentationsAgree,
         HasRow
    <3>4. QED BY <3>1, <3>3 DEF RepresentationsAgree
  <2>3. QED BY <1>2, <2>1, <2>2, RecordEffect
<1>3. ASSUME NEW p \in Deleter, CommitDeletion(p) PROVE RepresentationsAgree'
  <2>1. CASE UNCHANGED <<snapshot, blob>>
    BY <1>1, <2>1
  <2>2. CASE blob' = BlobsWithout(req[p].target, req[p].now)
    <3>1. \A d \in Digest : blob'[d].rep = blob[d].rep
      BY <2>2 DEF BlobsWithout, TypeOK, BlobRow
    <3>2. \A s \in Upload : Live(s)' => Live(s)
      BY <1>3, DeletionEffect DEF Live
    <3>3. QED BY <1>a, <3>1, <3>2 DEF RepresentationsAgree
  <2>3. QED BY <1>3, <2>1, <2>2, DeletionEffect
<1>4. ASSUME NEW g \in Collector, SkipCandidate(g) PROVE RepresentationsAgree'
  <2>1. \A d \in Digest : blob'[d].rep = blob[d].rep
    BY <1>4 DEF SkipCandidate, TypeOK, BlobRow
  <2>2. QED BY <1>4, <1>a, <2>1 DEF SkipCandidate, RepresentationsAgree, Live
<1>5. ASSUME NEW g \in Collector, CommitCollection(g) PROVE RepresentationsAgree'
  <2>1. ~Referenced(req[g].digest)
    BY <1>5 DEF CommitCollection, At, CollectorOwnsWriter
  <2>2. \A d \in Digest \ {req[g].digest} : blob'[d] = blob[d]
    BY <1>5 DEF CommitCollection, TypeOK
  <2>3. QED
    BY <1>5, <1>a, <2>1, <2>2 DEF CommitCollection, RepresentationsAgree, Live,
       Referenced
<1>6. CASE RecoverCandidates
  <2>1. \A d \in Digest : blob'[d].rep = blob[d].rep
    BY <1>6 DEF RecoverCandidates, TypeOK, BlobRow
  <2>2. QED
    BY <1>6, <1>a, <2>1 DEF RecoverCandidates, RepresentationsAgree, Live
<1>7. QED BY <1>1, <1>2, <1>3, <1>4, <1>5, <1>6, RowsChange

\* A blob has a deadline exactly when it is unreferenced, through every commit.
LEMMA DeadlineStep ==
    ASSUME TypeOK, CollectorOwnsWriter, DeadlineIffUnreferenced, [Next]_vars
    PROVE  DeadlineIffUnreferenced'
<1>a. \A s \in Upload : DigestsOf[s] \subseteq Digest
  BY ManifestTypes
<1>b. \A n \in Nat : n + Grace \in Nat /\ n + Grace # None
  BY ConstantsAssumption, NamesAssumption
<1>1. CASE UNCHANGED <<snapshot, blob>>
  BY <1>1 DEF DeadlineIffUnreferenced, HasRow, Referenced, Live
<1>2. ASSUME NEW u \in Upload, RecordCompletion(u) PROVE DeadlineIffUnreferenced'
  <2>1. CASE UNCHANGED <<snapshot, blob>>
    BY <1>1, <2>1
  <2>2. CASE /\ Live(u)'
             /\ \A s \in Upload \ {u} : Live(s)' <=> Live(s)
             /\ LiveWith(FingerprintOf[u]) = {}
             /\ blob' = BlobsWith(u)
    <3>0. ~Live(u)
      BY <2>2 DEF LiveWith
    <3>1. ASSUME NEW d \in DigestsOf[u] PROVE Referenced(d)' /\ blob'[d].eligible = None
      BY <1>a, <2>2 DEF BlobsWith, Referenced
    <3>2. ASSUME NEW d \in Digest \ DigestsOf[u]
          PROVE  blob'[d] = blob[d] /\ (Referenced(d)' <=> Referenced(d))
      <4>1. blob'[d] = blob[d]
        BY <2>2 DEF BlobsWith
      <4>2. Referenced(d)' <=> Referenced(d)
        BY <2>2, <3>0 DEF Referenced
      <4>3. QED BY <4>1, <4>2
    <3>3. QED BY <3>1, <3>2 DEF DeadlineIffUnreferenced, HasRow
  <2>3. QED BY <1>2, <2>1, <2>2, RecordEffect
<1>3. ASSUME NEW p \in Deleter, CommitDeletion(p) PROVE DeadlineIffUnreferenced'
  <2>0. PICK s \in Upload :
           /\ s = req[p].target
           /\ \/ UNCHANGED <<snapshot, blob>>
              \/ /\ Live(s) /\ ~Live(s)'
                 /\ \A t \in Upload \ {s} : Live(t)' <=> Live(t)
                 /\ blob' = BlobsWithout(s, req[p].now)
    BY <1>3, DeletionEffect
  <2>1. CASE UNCHANGED <<snapshot, blob>>
    BY <1>1, <2>1
  <2>2. CASE /\ ~Live(s)'
             /\ \A t \in Upload \ {s} : Live(t)' <=> Live(t)
             /\ blob' = BlobsWithout(s, req[p].now)
    <3>0. req[p].now \in Nat
      BY DEF TypeOK, Request, Proc
    <3>1. ASSUME NEW d \in Digest
          PROVE  Referenced(d)' <=>
                    \E t \in Upload \ {s} : Live(t) /\ d \in DigestsOf[t]
      <4>1. Referenced(d)' <=> \E t \in Upload : Live(t)' /\ d \in DigestsOf[t]
        BY DEF Referenced
      <4>2. QED BY <2>2, <4>1
    <3>2. ASSUME NEW d \in DigestsOf[s]
          PROVE  blob'[d].eligible # None <=> ~Referenced(d)'
      <4>1. d \in Digest
        BY <1>a
      <4>2. blob'[d].eligible = IF \E t \in Upload \ {s} : Live(t) /\ d \in DigestsOf[t]
                                THEN None ELSE req[p].now + Grace
        BY <2>2, <4>1 DEF BlobsWithout, TypeOK, BlobRow
      <4>3. QED BY <1>b, <3>0, <3>1, <4>1, <4>2
    <3>3. ASSUME NEW d \in Digest \ DigestsOf[s]
          PROVE  blob'[d] = blob[d] /\ (Referenced(d)' <=> Referenced(d))
      <4>1. blob'[d] = blob[d]
        BY <2>2 DEF BlobsWithout
      <4>2. Referenced(d)' <=> Referenced(d)
        BY <3>1 DEF Referenced
      <4>3. QED BY <4>1, <4>2
    <3>4. QED BY <3>2, <3>3 DEF DeadlineIffUnreferenced, HasRow
  <2>3. QED BY <2>0, <2>1, <2>2
<1>4. ASSUME NEW g \in Collector, SkipCandidate(g) PROVE DeadlineIffUnreferenced'
  <2>1. blob' = blob
    BY <1>4 DEF SkipCandidate, Collectable, EligibleAt,
       DeadlineIffUnreferenced, TypeOK, BlobRow, Proc, Request, DigestPC, At
  <2>2. QED BY <1>1, <1>4, <2>1 DEF SkipCandidate
<1>5. ASSUME NEW g \in Collector, CommitCollection(g) PROVE DeadlineIffUnreferenced'
  <2>1. \A d \in Digest : HasRow(d)' => d # req[g].digest /\ blob'[d] = blob[d]
    BY <1>5 DEF CommitCollection, TypeOK, HasRow, NoRow
  <2>2. QED
    BY <1>5, <2>1 DEF CommitCollection, DeadlineIffUnreferenced, HasRow, Live,
       Referenced
<1>6. CASE RecoverCandidates
  <2>1. \A d \in Digest : Referenced(d)' <=> Referenced(d)
    BY <1>6 DEF RecoverCandidates, Referenced, Live
  <2>2. clock \in Nat /\ clock + Grace # None
    BY <1>b DEF TypeOK
  <2>3. ASSUME NEW d \in Digest, HasRow(d)'
        PROVE  blob'[d].eligible # None <=> ~Referenced(d)
    BY <1>6, <2>2, <2>3 DEF RecoverCandidates, TypeOK, BlobRow, HasRow
  <2>4. QED BY <2>1, <2>3 DEF DeadlineIffUnreferenced
<1>7. QED BY <1>1, <1>2, <1>3, <1>4, <1>5, <1>6, RowsChange

\* How a completion comes to the steps the invariants speak of.
LEMMA HowUploadsMove ==
    ASSUME TypeOK, [Next]_vars, NEW w \in Upload, req'[w] # req[w]
    PROVE  /\ req'[w].pc \in {"cleanupUnlink", "loserUnlink"} => CleanupCheck(w)
           /\ req'[w].pc = "attachGuarded" => GuardedLookup(w)
           /\ req'[w].pc = "promote" => RecheckFingerprint(w) \/ PromoteBlob(w)
           /\ req'[w].pc \in {"stamp", "record"} =>
                 PromoteBlob(w) \/ StampCompletion(w)
<1> DEFINE Goal ==
       /\ req'[w].pc \in {"cleanupUnlink", "loserUnlink"} => CleanupCheck(w)
       /\ req'[w].pc = "attachGuarded" => GuardedLookup(w)
       /\ req'[w].pc = "promote" => RecheckFingerprint(w) \/ PromoteBlob(w)
       /\ req'[w].pc \in {"stamp", "record"} =>
             PromoteBlob(w) \/ StampCompletion(w)
<1>1. ASSUME NEW u \in Upload, BeginCompletion(u) PROVE Goal
  <2>1. w = u
    BY <1>1, OthersUntouched DEF StepOf, CompletionStep, Proc
  <2>2. QED
    BY <1>1, <2>1 DEF BeginCompletion, Update, GoTo, Acquire, At, TypeOK,
       Request, Proc
<1>2. ASSUME NEW u \in Upload, CheckRepresentations(u) PROVE Goal
  <2>1. w = u
    BY <1>2, OthersUntouched DEF StepOf, CompletionStep, Proc
  <2>2. QED
    BY <1>2, <2>1 DEF CheckRepresentations, Update, GoTo, Finish, Idle, At,
       TypeOK, Request, Proc
<1>3. ASSUME NEW u \in Upload, LookupFingerprint(u) PROVE Goal
  <2>1. w = u
    BY <1>3, OthersUntouched DEF StepOf, CompletionStep, Proc
  <2>2. QED
    BY <1>3, <2>1, LookupEffect
<1>4. ASSUME NEW u \in Upload, LockSnapshot(u) PROVE Goal
  <2>1. w = u
    BY <1>4, OthersUntouched DEF StepOf, CompletionStep, Proc
  <2>2. QED
    BY <1>4, <2>1 DEF LockSnapshot, Update, GoTo, Acquire, At, TypeOK, Request,
       Proc
<1>5. ASSUME NEW u \in Upload, GuardedLookup(u) PROVE Goal
  <2>1. w = u
    BY <1>5, OthersUntouched DEF StepOf, CompletionStep, Proc
  <2>2. QED
    BY <1>5, <2>1, GuardedEffect
<1>6. ASSUME NEW u \in Upload, LockBlobs(u) PROVE Goal
  <2>1. w = u
    BY <1>6, OthersUntouched DEF StepOf, CompletionStep, Proc
  <2>2. QED
    BY <1>6, <2>1 DEF LockBlobs, Update, Acquire, AcquireNextBlobLock, At,
       TypeOK, Request, Proc
<1>7. ASSUME NEW u \in Upload, RecheckFingerprint(u) PROVE Goal
  <2>1. w = u
    BY <1>7, OthersUntouched DEF StepOf, CompletionStep, Proc
  <2>2. QED
    BY <1>7, <2>1, RecheckEffect
<1>8. ASSUME NEW u \in Upload, AttachToExisting(u) PROVE Goal
  <2>1. w = u
    BY <1>8, OthersUntouched DEF StepOf, CompletionStep, Proc
  <2>2. QED
    BY <1>8, <2>1, AttachEffect
<1>9. ASSUME NEW u \in Upload, PromoteBlob(u) PROVE Goal
  <2>1. w = u
    BY <1>9, OthersUntouched DEF StepOf, CompletionStep, Proc
  <2>2. req'[u].pc \in {"promote", "stamp"}
    BY <1>9 DEF PromoteBlob, Update, At, TypeOK, Request, Proc
  <2>3. QED BY <1>9, <2>1, <2>2
<1>10. ASSUME NEW u \in Upload, StampCompletion(u) PROVE Goal
  <2>1. w = u
    BY <1>10, OthersUntouched DEF StepOf, CompletionStep, Proc
  <2>2. QED
    BY <1>10, <2>1 DEF StampCompletion, Update, At, TypeOK, Request, Proc
<1>11. ASSUME NEW u \in Upload, RecordCompletion(u) PROVE Goal
  <2>1. w = u
    BY <1>11, OthersUntouched DEF StepOf, CompletionStep, Proc
  <2>2. QED
    BY <1>11, <2>1 DEF RecordCompletion, Update, GoTo, Finish, Idle, At,
       TypeOK, Request, Proc
<1>12. ASSUME NEW u \in Upload, FetchWinner(u) PROVE Goal
  <2>1. w = u
    BY <1>12, OthersUntouched DEF StepOf, CompletionStep, Proc
  <2>2. QED
    BY <1>12, <2>1, FetchEffect
<1>13. ASSUME NEW u \in Upload, CleanupCheck(u) PROVE Goal
  <2>1. w = u
    BY <1>13, OthersUntouched DEF StepOf, CompletionStep, Proc
  <2>2. req'[u].pc \in {"cleanup", "loserCleanup", "cleanupUnlink", "loserUnlink"}
    BY <1>13 DEF CleanupCheck, Update, At, TypeOK, Request, Proc
  <2>3. QED BY <1>13, <2>1, <2>2
<1>14. ASSUME NEW u \in Upload, CleanupUnlink(u) PROVE Goal
  <2>1. w = u
    BY <1>14, OthersUntouched DEF StepOf, CompletionStep, Proc
  <2>2. QED
    BY <1>14, <2>1 DEF CleanupUnlink, Update, At, TypeOK, Request, Proc
<1>15. ASSUME NEW u \in Upload, CleanupDone(u) PROVE Goal
  <2>1. w = u
    BY <1>15, OthersUntouched DEF StepOf, CompletionStep, Proc
  <2>2. QED
    BY <1>15, <2>1 DEF CleanupDone, Update, GoTo, Finish, Idle, At, TypeOK,
       Request, Proc
<1>16. ASSUME NEW u \in Upload, PromotionFails(u) PROVE Goal
  <2>1. w = u
    BY <1>16, OthersUntouched DEF StepOf, CompletionStep, Proc
  <2>2. QED
    BY <1>16, <2>1 DEF PromotionFails, Update, At, TypeOK, Request, Proc
<1>17. ASSUME NEW u \in Upload, RecordingFails(u) PROVE Goal
  <2>1. w = u
    BY <1>17, OthersUntouched DEF StepOf, CompletionStep, Proc
  <2>2. QED
    BY <1>17, <2>1 DEF RecordingFails, Update, At, TypeOK, Request, Proc
<1>18. ASSUME NEW p \in Deleter, RequestDeletion(p) PROVE Goal
  BY <1>18, OthersUntouched, NamesAssumption DEF StepOf, DeletionStep, Proc
<1>19. ASSUME NEW p \in Deleter, DeletionLocksSnapshot(p) PROVE Goal
  BY <1>19, OthersUntouched, NamesAssumption DEF StepOf, DeletionStep, Proc
<1>20. ASSUME NEW p \in Deleter, DeletionRechecks(p) PROVE Goal
  BY <1>20, OthersUntouched, NamesAssumption DEF StepOf, DeletionStep, Proc
<1>21. ASSUME NEW p \in Deleter, DeletionLocksBlobs(p) PROVE Goal
  BY <1>21, OthersUntouched, NamesAssumption DEF StepOf, DeletionStep, Proc
<1>22. ASSUME NEW p \in Deleter, StampDeletion(p) PROVE Goal
  BY <1>22, OthersUntouched, NamesAssumption DEF StepOf, DeletionStep, Proc
<1>23. ASSUME NEW p \in Deleter, CommitDeletion(p) PROVE Goal
  BY <1>23, OthersUntouched, NamesAssumption DEF StepOf, DeletionStep, Proc
<1>24. ASSUME NEW g \in Collector, BeginCollection(g) PROVE Goal
  BY <1>24, OthersUntouched, NamesAssumption DEF StepOf, CollectionStep, Proc
<1>25. ASSUME NEW g \in Collector, LockCandidate(g) PROVE Goal
  BY <1>25, OthersUntouched, NamesAssumption DEF StepOf, CollectionStep, Proc
<1>26. ASSUME NEW g \in Collector, SkipCandidate(g) PROVE Goal
  BY <1>26, OthersUntouched, NamesAssumption DEF StepOf, CollectionStep, Proc
<1>27. ASSUME NEW g \in Collector, DeleteRow(g) PROVE Goal
  BY <1>27, OthersUntouched, NamesAssumption DEF StepOf, CollectionStep, Proc
<1>28. ASSUME NEW g \in Collector, UnlinkBlob(g) PROVE Goal
  BY <1>28, OthersUntouched, NamesAssumption DEF StepOf, CollectionStep, Proc
<1>29. ASSUME NEW g \in Collector, CommitCollection(g) PROVE Goal
  BY <1>29, OthersUntouched, NamesAssumption DEF StepOf, CollectionStep, Proc
<1>30. ASSUME NEW g \in Collector, FinishCollection(g) PROVE Goal
  BY <1>30, OthersUntouched, NamesAssumption DEF StepOf, CollectionStep, Proc
<1>31. ASSUME NEW q \in Proc, Abandon(q) PROVE Goal
  <2>1. w = q
    BY <1>31, OthersUntouched DEF StepOf, Proc
  <2>2. QED BY <1>31, <2>1, FinishType DEF Abandon, Idle
<1>32. ASSUME NEW q \in Proc, AbandonDuringUnlink(q) PROVE Goal
  <2>1. w = q
    BY <1>32, OthersUntouched DEF StepOf, Proc
  <2>2. QED BY <1>32, <2>1, FinishType DEF AbandonDuringUnlink, Idle
<1>33. CASE DetachedUnlinkRuns
  BY <1>33 DEF DetachedUnlinkRuns
<1>34. CASE Crash
  BY <1>34 DEF Crash, Idle, Proc
<1>35. CASE RecoverContext
  BY <1>35 DEF RecoverContext
<1>36. CASE RecoverCandidates
  BY <1>36 DEF RecoverCandidates
<1>37. CASE SweepFile
  BY <1>37 DEF SweepFile
<1>38. CASE Serve
  BY <1>38 DEF Serve
<1>39. CASE Tick
  BY <1>39 DEF Tick
<1>40. CASE UNCHANGED vars
  BY <1>40 DEF vars
<1> QED
  BY <1>1, <1>2, <1>3, <1>4, <1>5, <1>6, <1>7, <1>8, <1>9, <1>10, <1>11,
     <1>12, <1>13, <1>14, <1>15, <1>16, <1>17, <1>18, <1>19, <1>20, <1>21,
     <1>22, <1>23, <1>24, <1>25, <1>26, <1>27, <1>28, <1>29, <1>30, <1>31,
     <1>32, <1>33, <1>34, <1>35, <1>36, <1>37, <1>38, <1>39, <1>40 DEF Next,
     CompletionStep, DeletionStep, CollectionStep

\* A transaction that deletes rows is its collector's, and what it deletes stays
\* unreferenced: recording and deleting snapshots wait for it.
LEMMA WriterStep ==
    ASSUME TypeOK, CollectorOwnsWriter, [Next]_vars
    PROVE  CollectorOwnsWriter'
<1>a. ASSUME NEW p \in Proc, p \notin Collector, writer' = writer, snapshot' = snapshot,
             \A q \in Proc \ {p} : req'[q] = req[q] /\ held'[q] = held[q]
      PROVE  CollectorOwnsWriter'
  BY <1>a DEF CollectorOwnsWriter, Referenced, Live, Proc
<1>b. ASSUME NEW p \in Proc, p \notin Collector, writer = None, writer' = writer,
             \A q \in Proc \ {p} : req'[q] = req[q] /\ held'[q] = held[q]
      PROVE  CollectorOwnsWriter'
  BY <1>b, NamesAssumption DEF CollectorOwnsWriter, Proc
<1>c. Upload \cap Collector = {} /\ Deleter \cap Collector = {} /\ None \notin Collector
  BY NamesAssumption DEF Proc
<1>1. ASSUME NEW u \in Upload, BeginCompletion(u) PROVE CollectorOwnsWriter'
  <2>1. \A q \in Proc \ {u} : req'[q] = req[q] /\ held'[q] = held[q]
    BY <1>1, OthersUntouched DEF StepOf, CompletionStep, Proc
  <2>2. QED BY <1>1, <1>a, <1>c, <2>1 DEF BeginCompletion, database, Proc
<1>2. ASSUME NEW u \in Upload, CheckRepresentations(u) PROVE CollectorOwnsWriter'
  <2>1. \A q \in Proc \ {u} : req'[q] = req[q] /\ held'[q] = held[q]
    BY <1>2, OthersUntouched DEF StepOf, CompletionStep, Proc
  <2>2. QED BY <1>2, <1>a, <1>c, <2>1 DEF CheckRepresentations, database, Proc
<1>3. ASSUME NEW u \in Upload, LookupFingerprint(u) PROVE CollectorOwnsWriter'
  <2>1. \A q \in Proc \ {u} : req'[q] = req[q] /\ held'[q] = held[q]
    BY <1>3, OthersUntouched DEF StepOf, CompletionStep, Proc
  <2>2. QED BY <1>3, <1>a, <1>c, <2>1 DEF LookupFingerprint, database, Proc
<1>4. ASSUME NEW u \in Upload, LockSnapshot(u) PROVE CollectorOwnsWriter'
  <2>1. \A q \in Proc \ {u} : req'[q] = req[q] /\ held'[q] = held[q]
    BY <1>4, OthersUntouched DEF StepOf, CompletionStep, Proc
  <2>2. QED BY <1>4, <1>a, <1>c, <2>1 DEF LockSnapshot, database, Proc
<1>5. ASSUME NEW u \in Upload, GuardedLookup(u) PROVE CollectorOwnsWriter'
  <2>1. \A q \in Proc \ {u} : req'[q] = req[q] /\ held'[q] = held[q]
    BY <1>5, OthersUntouched DEF StepOf, CompletionStep, Proc
  <2>2. QED BY <1>5, <1>a, <1>c, <2>1 DEF GuardedLookup, database, Proc
<1>6. ASSUME NEW u \in Upload, LockBlobs(u) PROVE CollectorOwnsWriter'
  <2>1. \A q \in Proc \ {u} : req'[q] = req[q] /\ held'[q] = held[q]
    BY <1>6, OthersUntouched DEF StepOf, CompletionStep, Proc
  <2>2. QED BY <1>6, <1>a, <1>c, <2>1 DEF LockBlobs, database, Proc
<1>7. ASSUME NEW u \in Upload, RecheckFingerprint(u) PROVE CollectorOwnsWriter'
  <2>1. \A q \in Proc \ {u} : req'[q] = req[q] /\ held'[q] = held[q]
    BY <1>7, OthersUntouched DEF StepOf, CompletionStep, Proc
  <2>2. QED BY <1>7, <1>a, <1>c, <2>1 DEF RecheckFingerprint, database, Proc
<1>8. ASSUME NEW u \in Upload, AttachToExisting(u) PROVE CollectorOwnsWriter'
  <2>1. \A q \in Proc \ {u} : req'[q] = req[q] /\ held'[q] = held[q]
    BY <1>8, OthersUntouched DEF StepOf, CompletionStep, Proc
  <2>2. QED BY <1>8, <1>a, <1>c, <2>1 DEF AttachToExisting, database, Proc
<1>9. ASSUME NEW u \in Upload, PromoteBlob(u) PROVE CollectorOwnsWriter'
  <2>1. \A q \in Proc \ {u} : req'[q] = req[q] /\ held'[q] = held[q]
    BY <1>9, OthersUntouched DEF StepOf, CompletionStep, Proc
  <2>2. QED BY <1>9, <1>a, <1>c, <2>1 DEF PromoteBlob, database, Proc
<1>10. ASSUME NEW u \in Upload, StampCompletion(u) PROVE CollectorOwnsWriter'
  <2>1. \A q \in Proc \ {u} : req'[q] = req[q] /\ held'[q] = held[q]
    BY <1>10, OthersUntouched DEF StepOf, CompletionStep, Proc
  <2>2. QED BY <1>10, <1>a, <1>c, <2>1 DEF StampCompletion, database, Proc
<1>11. ASSUME NEW u \in Upload, RecordCompletion(u) PROVE CollectorOwnsWriter'
  <2>1. \A q \in Proc \ {u} : req'[q] = req[q] /\ held'[q] = held[q]
    BY <1>11, OthersUntouched DEF StepOf, CompletionStep, Proc
  <2>2. QED BY <1>11, <1>b, <1>c, <2>1 DEF RecordCompletion, database, Proc
<1>12. ASSUME NEW u \in Upload, FetchWinner(u) PROVE CollectorOwnsWriter'
  <2>1. \A q \in Proc \ {u} : req'[q] = req[q] /\ held'[q] = held[q]
    BY <1>12, OthersUntouched DEF StepOf, CompletionStep, Proc
  <2>2. QED BY <1>12, <1>a, <1>c, <2>1 DEF FetchWinner, database, Proc
<1>13. ASSUME NEW u \in Upload, CleanupCheck(u) PROVE CollectorOwnsWriter'
  <2>1. \A q \in Proc \ {u} : req'[q] = req[q] /\ held'[q] = held[q]
    BY <1>13, OthersUntouched DEF StepOf, CompletionStep, Proc
  <2>2. QED BY <1>13, <1>a, <1>c, <2>1 DEF CleanupCheck, database, Proc
<1>14. ASSUME NEW u \in Upload, CleanupUnlink(u) PROVE CollectorOwnsWriter'
  <2>1. \A q \in Proc \ {u} : req'[q] = req[q] /\ held'[q] = held[q]
    BY <1>14, OthersUntouched DEF StepOf, CompletionStep, Proc
  <2>2. QED BY <1>14, <1>a, <1>c, <2>1 DEF CleanupUnlink, database, Proc
<1>15. ASSUME NEW u \in Upload, CleanupDone(u) PROVE CollectorOwnsWriter'
  <2>1. \A q \in Proc \ {u} : req'[q] = req[q] /\ held'[q] = held[q]
    BY <1>15, OthersUntouched DEF StepOf, CompletionStep, Proc
  <2>2. QED BY <1>15, <1>a, <1>c, <2>1 DEF CleanupDone, database, Proc
<1>16. ASSUME NEW u \in Upload, PromotionFails(u) PROVE CollectorOwnsWriter'
  <2>1. \A q \in Proc \ {u} : req'[q] = req[q] /\ held'[q] = held[q]
    BY <1>16, OthersUntouched DEF StepOf, CompletionStep, Proc
  <2>2. QED BY <1>16, <1>a, <1>c, <2>1 DEF PromotionFails, database, Proc
<1>17. ASSUME NEW u \in Upload, RecordingFails(u) PROVE CollectorOwnsWriter'
  <2>1. \A q \in Proc \ {u} : req'[q] = req[q] /\ held'[q] = held[q]
    BY <1>17, OthersUntouched DEF StepOf, CompletionStep, Proc
  <2>2. QED BY <1>17, <1>a, <1>c, <2>1 DEF RecordingFails, database, Proc
<1>18. ASSUME NEW p \in Deleter, RequestDeletion(p) PROVE CollectorOwnsWriter'
  <2>1. \A q \in Proc \ {p} : req'[q] = req[q] /\ held'[q] = held[q]
    BY <1>18, OthersUntouched DEF StepOf, DeletionStep, Proc
  <2>2. QED BY <1>18, <1>a, <1>c, <2>1 DEF RequestDeletion, database, Proc
<1>19. ASSUME NEW p \in Deleter, DeletionLocksSnapshot(p) PROVE CollectorOwnsWriter'
  <2>1. \A q \in Proc \ {p} : req'[q] = req[q] /\ held'[q] = held[q]
    BY <1>19, OthersUntouched DEF StepOf, DeletionStep, Proc
  <2>2. QED
    BY <1>19, <1>a, <1>c, <2>1 DEF DeletionLocksSnapshot, database, Proc
<1>20. ASSUME NEW p \in Deleter, DeletionRechecks(p) PROVE CollectorOwnsWriter'
  <2>1. \A q \in Proc \ {p} : req'[q] = req[q] /\ held'[q] = held[q]
    BY <1>20, OthersUntouched DEF StepOf, DeletionStep, Proc
  <2>2. QED BY <1>20, <1>a, <1>c, <2>1 DEF DeletionRechecks, database, Proc
<1>21. ASSUME NEW p \in Deleter, DeletionLocksBlobs(p) PROVE CollectorOwnsWriter'
  <2>1. \A q \in Proc \ {p} : req'[q] = req[q] /\ held'[q] = held[q]
    BY <1>21, OthersUntouched DEF StepOf, DeletionStep, Proc
  <2>2. QED BY <1>21, <1>a, <1>c, <2>1 DEF DeletionLocksBlobs, database, Proc
<1>22. ASSUME NEW p \in Deleter, StampDeletion(p) PROVE CollectorOwnsWriter'
  <2>1. \A q \in Proc \ {p} : req'[q] = req[q] /\ held'[q] = held[q]
    BY <1>22, OthersUntouched DEF StepOf, DeletionStep, Proc
  <2>2. QED BY <1>22, <1>a, <1>c, <2>1 DEF StampDeletion, database, Proc
<1>23. ASSUME NEW p \in Deleter, CommitDeletion(p) PROVE CollectorOwnsWriter'
  <2>1. \A q \in Proc \ {p} : req'[q] = req[q] /\ held'[q] = held[q]
    BY <1>23, OthersUntouched DEF StepOf, DeletionStep, Proc
  <2>2. QED BY <1>23, <1>b, <1>c, <2>1 DEF CommitDeletion, database, Proc
<1>24. ASSUME NEW g \in Collector, BeginCollection(g) PROVE CollectorOwnsWriter'
  <2>1. \A q \in Collector \ {g} : req'[q] = req[q]
    BY <1>24, OthersUntouched DEF StepOf, CollectionStep, Proc
  <2>2. /\ req'[g].pc \in {"gcUnlink", "gcCommit"} <=> writer' = g
        /\ req'[g].pc \in {"gcUnlink", "gcCommit"} => ~Referenced(req'[g].digest)
    BY <1>24, <1>c DEF BeginCollection, Update, At, TypeOK,
       Request, Proc, CollectorOwnsWriter, database
  <2>3. (\A h \in Collector \ {g} : writer' = h <=> writer = h) /\ snapshot' = snapshot
    BY <1>24, <1>c DEF BeginCollection, database, CollectorOwnsWriter, At
  <2>4. QED BY <2>1, <2>2, <2>3 DEF CollectorOwnsWriter, Referenced, Live
<1>25. ASSUME NEW g \in Collector, LockCandidate(g) PROVE CollectorOwnsWriter'
  <2>1. \A q \in Collector \ {g} : req'[q] = req[q]
    BY <1>25, OthersUntouched DEF StepOf, CollectionStep, Proc
  <2>2. /\ req'[g].pc \in {"gcUnlink", "gcCommit"} <=> writer' = g
        /\ req'[g].pc \in {"gcUnlink", "gcCommit"} => ~Referenced(req'[g].digest)
    BY <1>25, <1>c DEF LockCandidate, Update, Acquire, At, TypeOK,
       Request, Proc, CollectorOwnsWriter, database
  <2>3. (\A h \in Collector \ {g} : writer' = h <=> writer = h) /\ snapshot' = snapshot
    BY <1>25, <1>c DEF LockCandidate, database, CollectorOwnsWriter, At
  <2>4. QED BY <2>1, <2>2, <2>3 DEF CollectorOwnsWriter, Referenced, Live
<1>26. ASSUME NEW g \in Collector, SkipCandidate(g) PROVE CollectorOwnsWriter'
  <2>1. \A q \in Collector \ {g} : req'[q] = req[q]
    BY <1>26, OthersUntouched DEF StepOf, CollectionStep, Proc
  <2>2. /\ req'[g].pc \in {"gcUnlink", "gcCommit"} <=> writer' = g
        /\ req'[g].pc \in {"gcUnlink", "gcCommit"} => ~Referenced(req'[g].digest)
    BY <1>26, <1>c DEF SkipCandidate, Update, At, TypeOK,
       Request, Proc, CollectorOwnsWriter, database
  <2>3. (\A h \in Collector \ {g} : writer' = h <=> writer = h) /\ snapshot' = snapshot
    BY <1>26, <1>c DEF SkipCandidate, database, CollectorOwnsWriter, At
  <2>4. QED BY <2>1, <2>2, <2>3 DEF CollectorOwnsWriter, Referenced, Live
<1>27. ASSUME NEW g \in Collector, DeleteRow(g) PROVE CollectorOwnsWriter'
  <2>1. \A q \in Collector \ {g} : req'[q] = req[q]
    BY <1>27, OthersUntouched DEF StepOf, CollectionStep, Proc
  <2>2. /\ req'[g].pc \in {"gcUnlink", "gcCommit"} <=> writer' = g
        /\ req'[g].pc \in {"gcUnlink", "gcCommit"} => ~Referenced(req'[g].digest)
    BY <1>27, <1>c DEF DeleteRow, Update, GoTo, At, TypeOK,
       Request, Proc, CollectorOwnsWriter, database, Collectable
  <2>3. (\A h \in Collector \ {g} : writer' = h <=> writer = h) /\ snapshot' = snapshot
    BY <1>27, <1>c DEF DeleteRow, database, CollectorOwnsWriter, At
  <2>4. QED BY <2>1, <2>2, <2>3 DEF CollectorOwnsWriter, Referenced, Live
<1>28. ASSUME NEW g \in Collector, UnlinkBlob(g) PROVE CollectorOwnsWriter'
  <2>1. \A q \in Collector \ {g} : req'[q] = req[q]
    BY <1>28, OthersUntouched DEF StepOf, CollectionStep, Proc
  <2>2. /\ req'[g].pc \in {"gcUnlink", "gcCommit"} <=> writer' = g
        /\ req'[g].pc \in {"gcUnlink", "gcCommit"} => ~Referenced(req'[g].digest)
    BY <1>28, <1>c DEF UnlinkBlob, Update, GoTo, At, TypeOK,
       Request, Proc, CollectorOwnsWriter, database
  <2>3. (\A h \in Collector \ {g} : writer' = h <=> writer = h) /\ snapshot' = snapshot
    BY <1>28, <1>c DEF UnlinkBlob, database, CollectorOwnsWriter, At
  <2>4. QED BY <2>1, <2>2, <2>3 DEF CollectorOwnsWriter, Referenced, Live
<1>29. ASSUME NEW g \in Collector, CommitCollection(g) PROVE CollectorOwnsWriter'
  <2>1. \A q \in Collector \ {g} : req'[q] = req[q]
    BY <1>29, OthersUntouched DEF StepOf, CollectionStep, Proc
  <2>2. /\ req'[g].pc \in {"gcUnlink", "gcCommit"} <=> writer' = g
        /\ req'[g].pc \in {"gcUnlink", "gcCommit"} => ~Referenced(req'[g].digest)
    BY <1>29, <1>c DEF CommitCollection, Update, At, TypeOK,
       Request, Proc, CollectorOwnsWriter, database
  <2>3. (\A h \in Collector \ {g} : writer' = h <=> writer = h) /\ snapshot' = snapshot
    BY <1>29, <1>c DEF CommitCollection, database, CollectorOwnsWriter, At
  <2>4. QED BY <2>1, <2>2, <2>3 DEF CollectorOwnsWriter, Referenced, Live
<1>30. ASSUME NEW g \in Collector, FinishCollection(g) PROVE CollectorOwnsWriter'
  <2>1. \A q \in Collector \ {g} : req'[q] = req[q]
    BY <1>30, OthersUntouched DEF StepOf, CollectionStep, Proc
  <2>2. /\ req'[g].pc \in {"gcUnlink", "gcCommit"} <=> writer' = g
        /\ req'[g].pc \in {"gcUnlink", "gcCommit"} => ~Referenced(req'[g].digest)
    BY <1>30, <1>c DEF FinishCollection, Update, Finish, Idle, At, TypeOK,
       Request, Proc, CollectorOwnsWriter, database
  <2>3. (\A h \in Collector \ {g} : writer' = h <=> writer = h) /\ snapshot' = snapshot
    BY <1>30, <1>c DEF FinishCollection, database, CollectorOwnsWriter, At
  <2>4. QED BY <2>1, <2>2, <2>3 DEF CollectorOwnsWriter, Referenced, Live
<1>31. ASSUME NEW q \in Proc, Abandon(q) PROVE CollectorOwnsWriter'
  <2>1. \A p \in Proc \ {q} : req'[p] = req[p]
    BY <1>31, OthersUntouched DEF StepOf
  <2>2. req'[q].pc = "idle"
    BY <1>31, FinishType DEF Abandon, Idle
  <2>3. QED
    BY <1>31, <1>c, <2>1, <2>2 DEF Abandon, CollectorOwnsWriter, Referenced,
       Live, Proc
<1>32. ASSUME NEW q \in Proc, AbandonDuringUnlink(q) PROVE CollectorOwnsWriter'
  <2>1. \A p \in Proc \ {q} : req'[p] = req[p]
    BY <1>32, OthersUntouched DEF StepOf
  <2>2. req'[q].pc = "idle"
    BY <1>32, FinishType DEF AbandonDuringUnlink, Idle
  <2>3. QED
    BY <1>32, <1>c, <2>1, <2>2 DEF AbandonDuringUnlink, CollectorOwnsWriter,
       Referenced, Live, Proc
<1>33. CASE DetachedUnlinkRuns
  BY <1>33 DEF DetachedUnlinkRuns, CollectorOwnsWriter, Referenced, Live,
     database
<1>34. CASE Crash
  BY <1>34, <1>c DEF Crash, Idle, CollectorOwnsWriter, Proc
<1>35. CASE RecoverContext
  BY <1>35 DEF RecoverContext, CollectorOwnsWriter, Referenced, Live, database
<1>36. CASE RecoverCandidates
  BY <1>36 DEF RecoverCandidates, CollectorOwnsWriter, Referenced, Live,
     database
<1>37. CASE SweepFile
  BY <1>37 DEF SweepFile, CollectorOwnsWriter, Referenced, Live, database
<1>38. CASE Serve
  BY <1>38 DEF Serve, CollectorOwnsWriter, Referenced, Live, database
<1>39. CASE Tick
  BY <1>39 DEF Tick, CollectorOwnsWriter, Referenced, Live, database
<1>40. CASE UNCHANGED vars
  BY <1>40 DEF vars, CollectorOwnsWriter, Referenced, Live, database
<1> QED
  BY <1>1, <1>2, <1>3, <1>4, <1>5, <1>6, <1>7, <1>8, <1>9, <1>10, <1>11,
     <1>12, <1>13, <1>14, <1>15, <1>16, <1>17, <1>18, <1>19, <1>20, <1>21,
     <1>22, <1>23, <1>24, <1>25, <1>26, <1>27, <1>28, <1>29, <1>30, <1>31,
     <1>32, <1>33, <1>34, <1>35, <1>36, <1>37, <1>38, <1>39, <1>40 DEF Next,
     CompletionStep, DeletionStep, CollectionStep

\* Two requests never hold the stripe of one digest together.
LEMMA NoCommonDigest ==
    ASSUME LockInv, NEW v \in Upload, NEW q \in Proc \ {v}, NEW d \in DigestsOf[v],
           req[v].pc \in AfterBlobLocks
    PROVE  BlobStripe[d] \notin held[q]
<1>1. BlobStripe[d] \in held[v]
  BY DEF LockInv, LocksHeld, BlobLocks
<1>2. QED BY <1>1 DEF LockInv, LocksExclusive, Proc

\* Only record_completed_upload adds a blobs row.
LEMMA RowsAppear ==
    ASSUME TypeOK, [Next]_vars
    PROVE  \/ \A d \in Digest : HasRow(d)' => HasRow(d)
           \/ \E u \in Upload : RecordCompletion(u)
<1>1. CASE UNCHANGED <<snapshot, blob>>
  BY <1>1 DEF HasRow
<1>2. ASSUME NEW p \in Deleter, CommitDeletion(p), ~UNCHANGED <<snapshot, blob>>
      PROVE  \A d \in Digest : HasRow(d)' => HasRow(d)
  <2>1. PICK s \in Upload : blob' = BlobsWithout(s, req[p].now)
    BY <1>2, DeletionEffect
  <2>2. QED BY <2>1 DEF BlobsWithout, HasRow, TypeOK, BlobRow
<1>3. ASSUME NEW g \in Collector, SkipCandidate(g)
      PROVE  \A d \in Digest : HasRow(d)' => HasRow(d)
  BY <1>3 DEF SkipCandidate, HasRow, TypeOK, BlobRow
<1>4. ASSUME NEW g \in Collector, CommitCollection(g)
      PROVE  \A d \in Digest : HasRow(d)' => HasRow(d)
  BY <1>4 DEF CommitCollection, HasRow, NoRow, TypeOK
<1>5. ASSUME RecoverCandidates PROVE \A d \in Digest : HasRow(d)' => HasRow(d)
  BY <1>5 DEF RecoverCandidates, HasRow, TypeOK, BlobRow
<1>6. QED BY <1>1, <1>2, <1>3, <1>4, <1>5, RowsChange

\* A file that a cleanup is about to unlink gets no row meanwhile: the
\* completion that would add it needs the stripe the cleanup holds.
LEMMA CleanupStep ==
    ASSUME LockInv, CleanupUnreferenced, [Next]_vars
    PROVE  CleanupUnreferenced'
<1>a. TypeOK /\ TypeOK'
  BY TypeStep DEF LockInv
<1>b. \A s \in Upload : DigestsOf[s] \subseteq Digest
  BY ManifestTypes
<1> SUFFICES ASSUME NEW w \in Upload, req'[w].pc \in {"cleanupUnlink", "loserUnlink"}
             PROVE  req'[w].digest \in DigestsOf[w] /\ blob'[req'[w].digest].rep = None
  BY DEF CleanupUnreferenced, HasRow
<1>1. ASSUME NEW v \in Upload, RecordCompletion(v), v # w, req'[w] = req[w]
      PROVE  blob'[req'[w].digest].rep = None
  <2>1. PICK d \in DigestsOf[w] : d = req[w].digest /\ ~HasRow(d)
    BY <1>1 DEF CleanupUnreferenced
  <2>2. BlobStripe[d] \notin held[v]
    BY <1>1, NoCommonDigest DEF AfterBlobLocks, Proc
  <2>3. d \notin DigestsOf[v]
    BY <1>1, <2>2 DEF RecordCompletion, At, LockInv, LocksHeld, BlobLocks,
       AfterBlobLocks
  <2>4. blob'[d] = blob[d]
    BY <1>1, <1>a, <1>b, <2>3, RecordEffect DEF BlobsWith
  <2>5. QED BY <1>1, <2>1, <2>4 DEF HasRow
<1>2. CASE req'[w] = req[w]
  <2>1. req[w].digest \in DigestsOf[w] /\ ~HasRow(req[w].digest)
    BY <1>2 DEF CleanupUnreferenced
  <2>2. CASE \A d \in Digest : HasRow(d)' => HasRow(d)
    <3>1. PICK d \in Digest : d = req[w].digest
      BY <1>b, <2>1
    <3>2. QED BY <1>2, <2>1, <2>2, <3>1 DEF HasRow
  <2>3. ASSUME NEW v \in Upload, RecordCompletion(v) PROVE v # w
    BY <1>2, <2>3 DEF RecordCompletion, At
  <2>4. QED BY <1>1, <1>2, <1>a, <2>1, <2>2, <2>3, RowsAppear
<1>3. CASE req'[w] # req[w]
  <2>1. CleanupCheck(w)
    BY <1>3, <1>a, HowUploadsMove
  <2>2. PICK d \in req[w].todo : ~HasRow(d) /\ req'[w].digest = d
    BY <1>a, <2>1 DEF CleanupCheck, Update, TypeOK, Request, Proc
  <2>3. blob' = blob
    BY <2>1 DEF CleanupCheck, database
  <2>4. QED BY <2>2, <2>3 DEF HasRow, LockInv, RequestsConsistent
<1>4. QED BY <1>2, <1>3

\* The snapshot a completion found under the identity lock stays live until the
\* capture is committed: a deletion of it needs the same stripe.
LEMMA GuardedStep ==
    ASSUME LockInv, GuardedTargetIsLive, [Next]_vars
    PROVE  GuardedTargetIsLive'
<1>a. TypeOK
  BY DEF LockInv
<1> SUFFICES ASSUME NEW w \in Upload, req'[w].pc = "attachGuarded"
             PROVE  snapshot'[req'[w].target].state = "live"
  BY DEF GuardedTargetIsLive, At, Live
<1>1. CASE req'[w] # req[w]
  <2>1. GuardedLookup(w)
    BY <1>1, <1>a, HowUploadsMove
  <2>2. req'[w].target \in LiveWith(FingerprintOf[w])
    BY <1>a, <2>1, GuardedEffect
  <2>3. QED BY <2>1, <2>2 DEF GuardedLookup, database, LiveWith, Live
<1>2. CASE req'[w] = req[w]
  <2>1. PICK s \in Upload : s = req[w].target /\ FingerprintOf[s] = FingerprintOf[w]
    BY <1>2, <1>a DEF TypeOK, Request, TargetPC, LockInv, RequestsConsistent,
       Proc
  <2>2. Live(s)
    BY <1>2, <2>1 DEF GuardedTargetIsLive, At
  <2>3. CASE UNCHANGED snapshot
    BY <1>2, <2>1, <2>2, <2>3 DEF Live
  <2>4. ASSUME NEW u \in Upload, RecordCompletion(u) PROVE snapshot'[s].state = "live"
    BY <1>a, <2>2, <2>4, RecordEffect DEF Live
  <2>5. ASSUME NEW p \in Deleter, CommitDeletion(p) PROVE snapshot'[s].state = "live"
    <3>1. SnapshotStripe[FingerprintOf[w]] \in held[w]
      BY <1>2 DEF LockInv, LocksHeld
    <3>2. SnapshotStripe[FingerprintOf[req[p].target]] \in held[p]
      BY <2>5 DEF CommitDeletion, At, LockInv, LocksHeld, DeletionPC
    <3>3. req[p].target # s
      BY <2>1, <3>1, <3>2, NamesAssumption DEF LockInv, LocksExclusive, Proc
    <3>4. QED BY <1>a, <2>2, <2>5, <3>3, DeletionEffect DEF Live
  <2>6. QED
    BY <1>2, <1>a, <2>1, <2>3, <2>4, <2>5, RowsChange
       DEF SkipCandidate, CommitCollection, RecoverCandidates
<1>3. QED BY <1>1, <1>2

\* A second snapshot of an identity becomes live only after the first is deleted.
LEMMA OneLiveStep ==
    ASSUME TypeOK, OneLivePerFingerprint, [Next]_vars
    PROVE  OneLivePerFingerprint'
<1>1. CASE UNCHANGED snapshot
  BY <1>1 DEF OneLivePerFingerprint, LiveWith, Live
<1>2. ASSUME NEW u \in Upload, RecordCompletion(u) PROVE OneLivePerFingerprint'
  <2>1. CASE UNCHANGED snapshot
    BY <1>1, <2>1
  <2>2. CASE /\ LiveWith(FingerprintOf[u]) = {}
             /\ \A s \in Upload \ {u} : Live(s)' <=> Live(s)
    BY <2>2 DEF OneLivePerFingerprint, LiveWith
  <2>3. QED BY <1>2, <2>1, <2>2, RecordEffect
<1>3. ASSUME NEW p \in Deleter, CommitDeletion(p) PROVE OneLivePerFingerprint'
  <2>1. \A s \in Upload : Live(s)' => Live(s)
    BY <1>3, DeletionEffect DEF Live
  <2>2. QED BY <2>1 DEF OneLivePerFingerprint, LiveWith
<1>4. QED
  BY <1>1, <1>2, <1>3, RowsChange
     DEF SkipCandidate, CommitCollection, RecoverCandidates

\* Which steps remove blob files, and which one.
LEMMA FilesVanish ==
    ASSUME TypeOK, [Next]_vars, NEW d \in files \ files'
    PROVE  \/ \E g \in Collector : UnlinkBlob(g) /\ d = req[g].digest
           \/ \E u \in Upload : CleanupUnlink(u) /\ d = req[u].digest
           \/ SweepFile /\ ~HasRow(d)
           \/ d \in detached
<1> DEFINE Goal == \/ \E g \in Collector : UnlinkBlob(g) /\ d = req[g].digest
                   \/ \E u \in Upload : CleanupUnlink(u) /\ d = req[u].digest
                   \/ SweepFile /\ ~HasRow(d)
                   \/ d \in detached
<1>1. ASSUME NEW u \in Upload, BeginCompletion(u) PROVE Goal
  BY <1>1 DEF BeginCompletion
<1>2. ASSUME NEW u \in Upload, CheckRepresentations(u) PROVE Goal
  BY <1>2 DEF CheckRepresentations
<1>3. ASSUME NEW u \in Upload, LookupFingerprint(u) PROVE Goal
  BY <1>3 DEF LookupFingerprint
<1>4. ASSUME NEW u \in Upload, LockSnapshot(u) PROVE Goal
  BY <1>4 DEF LockSnapshot
<1>5. ASSUME NEW u \in Upload, GuardedLookup(u) PROVE Goal
  BY <1>5 DEF GuardedLookup
<1>6. ASSUME NEW u \in Upload, LockBlobs(u) PROVE Goal
  BY <1>6 DEF LockBlobs
<1>7. ASSUME NEW u \in Upload, RecheckFingerprint(u) PROVE Goal
  BY <1>7 DEF RecheckFingerprint
<1>8. ASSUME NEW u \in Upload, AttachToExisting(u) PROVE Goal
  BY <1>8 DEF AttachToExisting
<1>9. ASSUME NEW u \in Upload, PromoteBlob(u) PROVE Goal
  BY <1>9 DEF PromoteBlob
<1>10. ASSUME NEW u \in Upload, StampCompletion(u) PROVE Goal
  BY <1>10 DEF StampCompletion
<1>11. ASSUME NEW u \in Upload, RecordCompletion(u) PROVE Goal
  BY <1>11 DEF RecordCompletion
<1>12. ASSUME NEW u \in Upload, FetchWinner(u) PROVE Goal
  BY <1>12 DEF FetchWinner
<1>13. ASSUME NEW u \in Upload, CleanupCheck(u) PROVE Goal
  BY <1>13 DEF CleanupCheck
<1>14. ASSUME NEW u \in Upload, CleanupUnlink(u) PROVE Goal
  <2>1. d = req[u].digest
    BY <1>14 DEF CleanupUnlink
  <2>2. QED BY <1>14, <2>1
<1>15. ASSUME NEW u \in Upload, CleanupDone(u) PROVE Goal
  BY <1>15 DEF CleanupDone
<1>16. ASSUME NEW u \in Upload, PromotionFails(u) PROVE Goal
  BY <1>16 DEF PromotionFails
<1>17. ASSUME NEW u \in Upload, RecordingFails(u) PROVE Goal
  BY <1>17 DEF RecordingFails
<1>18. ASSUME NEW p \in Deleter, RequestDeletion(p) PROVE Goal
  BY <1>18 DEF RequestDeletion
<1>19. ASSUME NEW p \in Deleter, DeletionLocksSnapshot(p) PROVE Goal
  BY <1>19 DEF DeletionLocksSnapshot
<1>20. ASSUME NEW p \in Deleter, DeletionRechecks(p) PROVE Goal
  BY <1>20 DEF DeletionRechecks
<1>21. ASSUME NEW p \in Deleter, DeletionLocksBlobs(p) PROVE Goal
  BY <1>21 DEF DeletionLocksBlobs
<1>22. ASSUME NEW p \in Deleter, StampDeletion(p) PROVE Goal
  BY <1>22 DEF StampDeletion
<1>23. ASSUME NEW p \in Deleter, CommitDeletion(p) PROVE Goal
  BY <1>23 DEF CommitDeletion
<1>24. ASSUME NEW g \in Collector, BeginCollection(g) PROVE Goal
  BY <1>24 DEF BeginCollection
<1>25. ASSUME NEW g \in Collector, LockCandidate(g) PROVE Goal
  BY <1>25 DEF LockCandidate
<1>26. ASSUME NEW g \in Collector, SkipCandidate(g) PROVE Goal
  BY <1>26 DEF SkipCandidate
<1>27. ASSUME NEW g \in Collector, DeleteRow(g) PROVE Goal
  BY <1>27 DEF DeleteRow
<1>28. ASSUME NEW g \in Collector, UnlinkBlob(g) PROVE Goal
  <2>1. d = req[g].digest
    BY <1>28 DEF UnlinkBlob
  <2>2. QED BY <1>28, <2>1
<1>29. ASSUME NEW g \in Collector, CommitCollection(g) PROVE Goal
  BY <1>29 DEF CommitCollection
<1>30. ASSUME NEW g \in Collector, FinishCollection(g) PROVE Goal
  BY <1>30 DEF FinishCollection
<1>31. ASSUME NEW q \in Proc, Abandon(q) PROVE Goal
  BY <1>31 DEF Abandon
<1>32. ASSUME NEW q \in Proc, AbandonDuringUnlink(q) PROVE Goal
  BY <1>32 DEF AbandonDuringUnlink
<1>33. CASE DetachedUnlinkRuns
  BY <1>33 DEF DetachedUnlinkRuns
<1>34. CASE Crash
  BY <1>34 DEF Crash
<1>35. CASE RecoverContext
  BY <1>35 DEF RecoverContext
<1>36. CASE RecoverCandidates
  BY <1>36 DEF RecoverCandidates
<1>37. CASE SweepFile
  <2>1. ~HasRow(d)
    BY <1>37 DEF SweepFile
  <2>2. QED BY <1>37, <2>1
<1>38. CASE Serve
  BY <1>38 DEF Serve
<1>39. CASE Tick
  BY <1>39 DEF Tick
<1>40. CASE UNCHANGED vars
  BY <1>40 DEF vars
<1> QED
  BY <1>1, <1>2, <1>3, <1>4, <1>5, <1>6, <1>7, <1>8, <1>9, <1>10, <1>11,
     <1>12, <1>13, <1>14, <1>15, <1>16, <1>17, <1>18, <1>19, <1>20, <1>21,
     <1>22, <1>23, <1>24, <1>25, <1>26, <1>27, <1>28, <1>29, <1>30, <1>31,
     <1>32, <1>33, <1>34, <1>35, <1>36, <1>37, <1>38, <1>39, <1>40 DEF Next,
     CompletionStep, DeletionStep, CollectionStep

\* The files a completion promoted are there when it records its snapshot.
LEMMA PromotedStep ==
    ASSUME LockInv, CleanupUnreferenced, PromotedFilesStay, detached = {},
           [Next]_vars
    PROVE  PromotedFilesStay'
<1>a. TypeOK
  BY DEF LockInv
<1>1. ASSUME NEW w \in Upload, req[w].pc \in {"promote", "stamp", "record"},
             NEW d \in DigestsOf[w] \cap files
      PROVE  d \in files'
  <2> SUFFICES ASSUME d \notin files' PROVE FALSE
    OBVIOUS
  <2>1. \A q \in Proc \ {w} : BlobStripe[d] \notin held[q]
    BY <1>1, NoCommonDigest DEF AfterBlobLocks
  <2>2. ASSUME NEW g \in Collector, UnlinkBlob(g), d = req[g].digest PROVE FALSE
    BY <2>1, <2>2, NamesAssumption DEF UnlinkBlob, At, LockInv, LocksHeld, Proc
  <2>3. ASSUME NEW u \in Upload, CleanupUnlink(u), d = req[u].digest PROVE FALSE
    <3>1. u # w
      BY <1>1, <2>3 DEF CleanupUnlink
    <3>2. BlobStripe[d] \in held[u]
      BY <2>3 DEF CleanupUnlink, LockInv, LocksHeld, BlobLocks, AfterBlobLocks,
         CleanupUnreferenced
    <3>3. QED BY <2>1, <3>1, <3>2 DEF Proc
  <2>4. ASSUME SweepFile PROVE FALSE
    BY <1>1, <2>4 DEF SweepFile, LockInv, RequestsConsistent, Proc
  <2>5. QED BY <1>a, <2>2, <2>3, <2>4, FilesVanish
<1> SUFFICES ASSUME NEW w \in Upload
             PROVE  /\ req'[w].pc = "promote" =>
                          DigestsOf[w] \ req'[w].todo \subseteq files'
                    /\ req'[w].pc \in {"stamp", "record"} => DigestsOf[w] \subseteq files'
  BY DEF PromotedFilesStay
<1>2. CASE req'[w] = req[w]
  BY <1>1, <1>2 DEF PromotedFilesStay
<1>3. CASE RecheckFingerprint(w)
  BY <1>3, <1>a, RecheckEffect
<1>4. CASE PromoteBlob(w)
  <2>1. PICK d \in req[w].todo :
           /\ files' = files \cup {d}
           /\ req'[w].todo = req[w].todo \ {d}
           /\ req'[w].pc = IF req[w].todo = {d} THEN "stamp" ELSE "promote"
    BY <1>4, <1>a DEF PromoteBlob, Update, At, TypeOK, Request, Proc
  <2>2. DigestsOf[w] \ req[w].todo \subseteq files
    BY <1>4 DEF PromoteBlob, At, PromotedFilesStay
  <2>3. QED BY <2>1, <2>2
<1>5. CASE StampCompletion(w)
  <2>1. files' = files /\ req[w].pc = "stamp" /\ req'[w].pc = "record"
    BY <1>5, <1>a DEF StampCompletion, Update, At, TypeOK, Request, Proc
  <2>2. QED BY <2>1 DEF PromotedFilesStay
<1>6. CASE req'[w].pc \notin {"promote", "stamp", "record"}
  BY <1>6
<1>7. QED BY <1>2, <1>3, <1>4, <1>5, <1>6, <1>a, HowUploadsMove

\* No step takes a file away from a live snapshot, and a snapshot becomes live
\* with its files in place.
LEMMA StoredStep ==
    ASSUME MetadataInv, PromotedFilesStay, detached = {}, LiveSnapshotsStored,
           RepresentationsAgree', [Next]_vars
    PROVE  LiveSnapshotsStored'
<1>a. TypeOK
  BY DEF MetadataInv, LockInv
<1>b. ASSUME NEW s \in Upload, Live(s), NEW d \in DigestsOf[s], d \notin files' PROVE FALSE
  <2>1. d \in files /\ HasRow(d) /\ Referenced(d)
    BY <1>b DEF LiveSnapshotsStored, Referenced
  <2>2. ASSUME NEW g \in Collector, UnlinkBlob(g), d = req[g].digest PROVE FALSE
    BY <2>1, <2>2 DEF UnlinkBlob, At, MetadataInv, CollectorOwnsWriter
  <2>3. ASSUME NEW u \in Upload, CleanupUnlink(u), d = req[u].digest PROVE FALSE
    BY <2>1, <2>3 DEF CleanupUnlink, MetadataInv, CleanupUnreferenced
  <2>4. QED BY <1>a, <1>b, <2>1, <2>2, <2>3, FilesVanish
<1>c. ASSUME NEW s \in Upload, Live(s)', NEW d \in DigestsOf[s] PROVE HasRow(d)'
  BY <1>c, ManifestTypes, NamesAssumption DEF RepresentationsAgree, HasRow
<1>1. ASSUME NEW s \in Upload, Live(s)', ~Live(s) PROVE DigestsOf[s] \subseteq files'
  <2>1. PICK u \in Upload : RecordCompletion(u)
    <3>1. \A p \in Deleter : ~CommitDeletion(p)
      BY <1>1, <1>a, DeletionEffect DEF Live
    <3>2. snapshot' # snapshot
      BY <1>1 DEF Live
    <3>3. QED
      BY <1>a, <3>1, <3>2, RowsChange DEF SkipCandidate, CommitCollection,
         RecoverCandidates
  <2>2. u = s
    BY <1>1, <1>a, <2>1, RecordEffect DEF Live
  <2>3. QED BY <2>1, <2>2 DEF RecordCompletion, At, PromotedFilesStay
<1>2. QED BY <1>1, <1>b, <1>c DEF LiveSnapshotsStored

-----------------------------------------------------------------------------
(* The theorems *)

\* Every step keeps the metadata invariant.
LEMMA MetadataStep == MetadataInv /\ [Next]_vars => MetadataInv'
<1> SUFFICES ASSUME MetadataInv, [Next]_vars PROVE MetadataInv'
  OBVIOUS
<1>1. LockInv /\ TypeOK
  BY DEF MetadataInv, LockInv
<1>2. QED
  BY <1>1, LockStep, WriterStep, CleanupStep, RepresentationsStep, GuardedStep,
     OneLiveStep, DeadlineStep DEF MetadataInv

\* The empty archive satisfies the metadata invariant.
LEMMA MetadataInit == Init => MetadataInv
<1> SUFFICES ASSUME Init PROVE MetadataInv
  OBVIOUS
<1>1. LockInv
  BY LockInit
<1>2. \A p \in Proc : req[p].pc = "idle"
  BY DEF Init, Idle
<1>3. /\ \A s \in Upload : ~Live(s)
      /\ \A d \in Digest : ~HasRow(d)
  BY DEF Init, Live, AbsentSnapshot, HasRow, NoRow
<1>4. CollectorOwnsWriter
  BY <1>2, NamesAssumption DEF Init, CollectorOwnsWriter, Proc
<1>5. CleanupUnreferenced /\ GuardedTargetIsLive
  BY <1>2 DEF CleanupUnreferenced, GuardedTargetIsLive, At, Proc
<1>6. RepresentationsAgree /\ OneLivePerFingerprint /\ DeadlineIffUnreferenced
  BY <1>3 DEF RepresentationsAgree, OneLivePerFingerprint, LiveWith,
     DeadlineIffUnreferenced
<1>7. QED BY <1>1, <1>4, <1>5, <1>6 DEF MetadataInv

\* The metadata invariant holds in every reachable state, also when requests are
\* cancelled in the middle of an unlink.
THEOREM MetadataInvariant == Spec => []MetadataInv
BY MetadataInit, MetadataStep, PTL DEF Spec

\* The manifest of every live snapshot agrees with the blobs rows it shares,
\* whatever completions and collections run concurrently.
THEOREM RepresentationsSafe == Spec => []RepresentationsAgree
BY MetadataInvariant, PTL DEF MetadataInv

\* A completion that found its snapshot under the identity lock attaches to a
\* live snapshot.
THEOREM GuardedAttachSafe == Spec => []GuardedTargetIsLive
BY MetadataInvariant, PTL DEF MetadataInv

\* A semantic identity never has two live snapshots.
THEOREM IdentityUnique == Spec => []OneLivePerFingerprint
BY MetadataInvariant, PTL DEF MetadataInv

\* Every unreferenced blob awaits its deadline and no referenced one does.
THEOREM DeadlinesExact == Spec => []DeadlineIffUnreferenced
BY MetadataInvariant, PTL DEF MetadataInv

\* Without detached unlinks every step keeps the storage invariant.
LEMMA StorageStep ==
    ASSUME ~DetachedUnlink
    PROVE  StorageInv /\ [Next]_vars => StorageInv'
<1> SUFFICES ASSUME StorageInv, [Next]_vars PROVE StorageInv'
  OBVIOUS
<1>1. MetadataInv /\ MetadataInv' /\ LockInv /\ CleanupUnreferenced
  BY MetadataStep DEF StorageInv, MetadataInv
<1>2. detached' = {}
  <2>1. ASSUME NEW u \in Upload, BeginCompletion(u) PROVE detached' = {}
    BY <2>1 DEF BeginCompletion, StorageInv
  <2>2. ASSUME NEW u \in Upload, CheckRepresentations(u) PROVE detached' = {}
    BY <2>2 DEF CheckRepresentations, StorageInv
  <2>3. ASSUME NEW u \in Upload, LookupFingerprint(u) PROVE detached' = {}
    BY <2>3 DEF LookupFingerprint, StorageInv
  <2>4. ASSUME NEW u \in Upload, LockSnapshot(u) PROVE detached' = {}
    BY <2>4 DEF LockSnapshot, StorageInv
  <2>5. ASSUME NEW u \in Upload, GuardedLookup(u) PROVE detached' = {}
    BY <2>5 DEF GuardedLookup, StorageInv
  <2>6. ASSUME NEW u \in Upload, LockBlobs(u) PROVE detached' = {}
    BY <2>6 DEF LockBlobs, StorageInv
  <2>7. ASSUME NEW u \in Upload, RecheckFingerprint(u) PROVE detached' = {}
    BY <2>7 DEF RecheckFingerprint, StorageInv
  <2>8. ASSUME NEW u \in Upload, AttachToExisting(u) PROVE detached' = {}
    BY <2>8 DEF AttachToExisting, StorageInv
  <2>9. ASSUME NEW u \in Upload, PromoteBlob(u) PROVE detached' = {}
    BY <2>9 DEF PromoteBlob, StorageInv
  <2>10. ASSUME NEW u \in Upload, StampCompletion(u) PROVE detached' = {}
    BY <2>10 DEF StampCompletion, StorageInv
  <2>11. ASSUME NEW u \in Upload, RecordCompletion(u) PROVE detached' = {}
    BY <2>11 DEF RecordCompletion, StorageInv
  <2>12. ASSUME NEW u \in Upload, FetchWinner(u) PROVE detached' = {}
    BY <2>12 DEF FetchWinner, StorageInv
  <2>13. ASSUME NEW u \in Upload, CleanupCheck(u) PROVE detached' = {}
    BY <2>13 DEF CleanupCheck, StorageInv
  <2>14. ASSUME NEW u \in Upload, CleanupUnlink(u) PROVE detached' = {}
    BY <2>14 DEF CleanupUnlink, StorageInv
  <2>15. ASSUME NEW u \in Upload, CleanupDone(u) PROVE detached' = {}
    BY <2>15 DEF CleanupDone, StorageInv
  <2>16. ASSUME NEW u \in Upload, PromotionFails(u) PROVE detached' = {}
    BY <2>16 DEF PromotionFails, StorageInv
  <2>17. ASSUME NEW u \in Upload, RecordingFails(u) PROVE detached' = {}
    BY <2>17 DEF RecordingFails, StorageInv
  <2>18. ASSUME NEW p \in Deleter, RequestDeletion(p) PROVE detached' = {}
    BY <2>18 DEF RequestDeletion, StorageInv
  <2>19. ASSUME NEW p \in Deleter, DeletionLocksSnapshot(p) PROVE detached' = {}
    BY <2>19 DEF DeletionLocksSnapshot, StorageInv
  <2>20. ASSUME NEW p \in Deleter, DeletionRechecks(p) PROVE detached' = {}
    BY <2>20 DEF DeletionRechecks, StorageInv
  <2>21. ASSUME NEW p \in Deleter, DeletionLocksBlobs(p) PROVE detached' = {}
    BY <2>21 DEF DeletionLocksBlobs, StorageInv
  <2>22. ASSUME NEW p \in Deleter, StampDeletion(p) PROVE detached' = {}
    BY <2>22 DEF StampDeletion, StorageInv
  <2>23. ASSUME NEW p \in Deleter, CommitDeletion(p) PROVE detached' = {}
    BY <2>23 DEF CommitDeletion, StorageInv
  <2>24. ASSUME NEW g \in Collector, BeginCollection(g) PROVE detached' = {}
    BY <2>24 DEF BeginCollection, StorageInv
  <2>25. ASSUME NEW g \in Collector, LockCandidate(g) PROVE detached' = {}
    BY <2>25 DEF LockCandidate, StorageInv
  <2>26. ASSUME NEW g \in Collector, SkipCandidate(g) PROVE detached' = {}
    BY <2>26 DEF SkipCandidate, StorageInv
  <2>27. ASSUME NEW g \in Collector, DeleteRow(g) PROVE detached' = {}
    BY <2>27 DEF DeleteRow, StorageInv
  <2>28. ASSUME NEW g \in Collector, UnlinkBlob(g) PROVE detached' = {}
    BY <2>28 DEF UnlinkBlob, StorageInv
  <2>29. ASSUME NEW g \in Collector, CommitCollection(g) PROVE detached' = {}
    BY <2>29 DEF CommitCollection, StorageInv
  <2>30. ASSUME NEW g \in Collector, FinishCollection(g) PROVE detached' = {}
    BY <2>30 DEF FinishCollection, StorageInv
  <2>31. ASSUME NEW q \in Proc, Abandon(q) PROVE detached' = {}
    BY <2>31 DEF Abandon, StorageInv
  <2>32. ASSUME NEW q \in Proc, AbandonDuringUnlink(q) PROVE detached' = {}
    BY <2>32 DEF AbandonDuringUnlink, StorageInv
  <2>33. CASE DetachedUnlinkRuns
    BY <2>33 DEF DetachedUnlinkRuns, StorageInv
  <2>34. CASE Crash
    BY <2>34 DEF Crash, StorageInv
  <2>35. CASE RecoverContext
    BY <2>35 DEF RecoverContext, StorageInv
  <2>36. CASE RecoverCandidates
    BY <2>36 DEF RecoverCandidates, StorageInv
  <2>37. CASE SweepFile
    BY <2>37 DEF SweepFile, StorageInv
  <2>38. CASE Serve
    BY <2>38 DEF Serve, StorageInv
  <2>39. CASE Tick
    BY <2>39 DEF Tick, StorageInv
  <2>40. CASE UNCHANGED vars
    BY <2>40 DEF vars, StorageInv
  <2> QED
    BY <2>1, <2>2, <2>3, <2>4, <2>5, <2>6, <2>7, <2>8, <2>9, <2>10, <2>11,
       <2>12, <2>13, <2>14, <2>15, <2>16, <2>17, <2>18, <2>19, <2>20, <2>21,
       <2>22, <2>23, <2>24, <2>25, <2>26, <2>27, <2>28, <2>29, <2>30, <2>31,
       <2>32, <2>33, <2>34, <2>35, <2>36, <2>37, <2>38, <2>39, <2>40 DEF Next,
       CompletionStep, DeletionStep, CollectionStep
<1>3. PromotedFilesStay'
  BY <1>1, PromotedStep DEF StorageInv
<1>4. LiveSnapshotsStored'
  BY <1>1, StoredStep DEF StorageInv, MetadataInv
<1>5. QED BY <1>1, <1>2, <1>3, <1>4 DEF StorageInv

\* Every blob of every live snapshot keeps its row and its file, for all
\* interleavings of completions, deletions, collections, failures, crashes and
\* recoveries in which no unlink outlives its request.
THEOREM NoLiveBlobLost == ~DetachedUnlink => (Spec => []LiveSnapshotsStored)
<1> SUFFICES ASSUME ~DetachedUnlink PROVE Spec => []LiveSnapshotsStored
  OBVIOUS
<1>1. Init => StorageInv
  <2> SUFFICES ASSUME Init PROVE StorageInv
    OBVIOUS
  <2>1. MetadataInv
    BY MetadataInit
  <2>2. PromotedFilesStay
    BY DEF Init, Idle, PromotedFilesStay, Proc
  <2>3. LiveSnapshotsStored
    BY DEF Init, Live, AbsentSnapshot, LiveSnapshotsStored
  <2>4. QED BY <2>1, <2>2, <2>3 DEF Init, StorageInv
<1>2. StorageInv => LiveSnapshotsStored
  BY DEF StorageInv
<1>3. QED BY <1>1, <1>2, StorageStep, PTL DEF Spec

-----------------------------------------------------------------------------
(* The rows of the snapshots, field by field *)

\* What record_completed_upload writes into the snapshots table.
LEMMA RecordRows ==
    ASSUME TypeOK, NEW u \in Upload, RecordCompletion(u)
    PROVE  \/ UNCHANGED <<snapshot, blob, latest>>
           \/ \E prior \in PriorTombstone(FingerprintOf[u]) :
                 /\ LiveWith(FingerprintOf[u]) = {}
                 /\ snapshot'[u].state = "live"
                 /\ snapshot'[u].completedAt = req[u].now
                 /\ snapshot'[u].from = prior
                 /\ snapshot'[u].rearchived = None
                 /\ \A s \in Upload \ {u} :
                       /\ snapshot'[s].state = snapshot[s].state
                       /\ snapshot'[s].completedAt = snapshot[s].completedAt
                       /\ snapshot'[s].deletedAt = snapshot[s].deletedAt
                       /\ snapshot'[s].tombstone = snapshot[s].tombstone
                       /\ snapshot'[s].from = snapshot[s].from
                       /\ snapshot'[s].rearchived =
                             IF s = prior /\ snapshot[s].rearchived = None
                             THEN u ELSE snapshot[s].rearchived
                 /\ blob' = BlobsWith(u)
                 /\ latest' = [latest EXCEPT ![SessionOf[FingerprintOf[u]]] =
                                 IF Supersedes(u, req[u].now, @) THEN u ELSE @]
<1>1. CASE LiveWith(FingerprintOf[u]) # {}
  BY <1>1 DEF RecordCompletion
<1>2. CASE LiveWith(FingerprintOf[u]) = {}
  <2>1. PICK prior \in PriorTombstone(FingerprintOf[u]) :
           snapshot' = SnapshotsWith(u, prior)
    BY <1>2 DEF RecordCompletion
  <2>2. snapshot'[u] = [AbsentSnapshot EXCEPT !.state = "live",
                             !.completedAt = req[u].now, !.from = prior]
    BY <2>1 DEF SnapshotsWith
  <2>3. /\ snapshot'[u].state = "live"
        /\ snapshot'[u].completedAt = req[u].now
        /\ snapshot'[u].from = prior
        /\ snapshot'[u].rearchived = None
    BY <2>2 DEF AbsentSnapshot
  <2>4. ASSUME NEW s \in Upload \ {u}
        PROVE  /\ snapshot'[s].state = snapshot[s].state
               /\ snapshot'[s].completedAt = snapshot[s].completedAt
               /\ snapshot'[s].deletedAt = snapshot[s].deletedAt
               /\ snapshot'[s].tombstone = snapshot[s].tombstone
               /\ snapshot'[s].from = snapshot[s].from
               /\ snapshot'[s].rearchived =
                     IF s = prior /\ snapshot[s].rearchived = None
                     THEN u ELSE snapshot[s].rearchived
    <3>1. snapshot[s] \in SnapshotRow
      BY DEF TypeOK
    <3>2. snapshot'[s] = IF s = prior /\ snapshot[s].rearchived = None
                           THEN [snapshot[s] EXCEPT !.rearchived = u] ELSE snapshot[s]
      BY <2>1 DEF SnapshotsWith
    <3> QED BY <3>1, <3>2 DEF SnapshotRow
  <2>5. /\ blob' = BlobsWith(u)
        /\ latest' = [latest EXCEPT ![SessionOf[FingerprintOf[u]]] =
                        IF Supersedes(u, req[u].now, @) THEN u ELSE @]
    BY <1>2 DEF RecordCompletion
  <2> QED BY <1>2, <2>3, <2>4, <2>5
<1> QED BY <1>1, <1>2

\* What delete_snapshot writes: the tombstone of one live snapshot.
LEMMA DeletionRows ==
    ASSUME TypeOK, NEW p \in Deleter, CommitDeletion(p)
    PROVE  \E s \in Upload :
              /\ s = req[p].target
              /\ \/ UNCHANGED <<snapshot, blob, latest>>
                 \/ /\ Live(s)
                    /\ snapshot'[s].state = "deleted"
                    /\ snapshot'[s].completedAt = snapshot[s].completedAt
                    /\ snapshot'[s].deletedAt = req[p].now
                    /\ snapshot'[s].tombstone =
                          1 + Cardinality({t \in Upload : Deleted(t)})
                    /\ snapshot'[s].from = snapshot[s].from
                    /\ snapshot'[s].rearchived = snapshot[s].rearchived
                    /\ \A t \in Upload \ {s} : snapshot'[t] = snapshot[t]
                    /\ blob' = BlobsWithout(s, req[p].now)
                    /\ \E t \in Newest(LiveIn(SessionOf[FingerprintOf[s]]) \ {s}) :
                          latest' = [latest EXCEPT ![SessionOf[FingerprintOf[s]]] = t]
<1>1. PICK s \in Upload : s = req[p].target
  BY DEF CommitDeletion, At, TypeOK, Request, TargetPC, DeletionPC, Proc
<1>2. CASE ~Live(s)
  BY <1>1, <1>2 DEF CommitDeletion
<1>3. CASE Live(s)
  <2> PICK n : n = 1 + Cardinality({t \in Upload : Deleted(t)})
    OBVIOUS
  <2> PICK r : r = [snapshot[s] EXCEPT !.state = "deleted", !.deletedAt = req[p].now,
                                       !.tombstone = n]
    OBVIOUS
  <2>1. snapshot \in [Upload -> SnapshotRow] /\ snapshot[s] \in SnapshotRow
    BY DEF TypeOK
  <2>2. snapshot' = [snapshot EXCEPT ![s].state = "deleted",
                        ![s].deletedAt = req[p].now, ![s].tombstone = n]
    BY <1>1, <1>3 DEF CommitDeletion
  <2>3. /\ snapshot'[s] = r /\ \A t \in Upload \ {s} : snapshot'[t] = snapshot[t]
    BY <2>1, <2>2
  <2>4. /\ r.state = "deleted" /\ r.completedAt = snapshot[s].completedAt
        /\ r.deletedAt = req[p].now /\ r.tombstone = n
        /\ r.from = snapshot[s].from /\ r.rearchived = snapshot[s].rearchived
    BY <2>1 DEF SnapshotRow
  <2>5. /\ blob' = BlobsWithout(s, req[p].now)
        /\ \E t \in Newest(LiveIn(SessionOf[FingerprintOf[s]]) \ {s}) :
              latest' = [latest EXCEPT ![SessionOf[FingerprintOf[s]]] = t]
    BY <1>1, <1>3 DEF CommitDeletion
  <2> QED BY <1>1, <1>3, <2>3, <2>4, <2>5
<1> QED BY <1>2, <1>3

-----------------------------------------------------------------------------
(* The latest context of a session *)

\* Which steps write snapshots or the latest context.
LEMMA LatestChange ==
    ASSUME [Next]_vars
    PROVE  \/ UNCHANGED <<snapshot, latest>>
           \/ \E u \in Upload : AttachToExisting(u) \/ RecordCompletion(u)
           \/ \E p \in Deleter : CommitDeletion(p)
           \/ RecoverContext
<1> DEFINE Goal == \/ UNCHANGED <<snapshot, latest>>
                   \/ \E u \in Upload : AttachToExisting(u) \/ RecordCompletion(u)
                   \/ \E p \in Deleter : CommitDeletion(p)
                   \/ RecoverContext
<1>1. ASSUME NEW u \in Upload, BeginCompletion(u) PROVE Goal
  BY <1>1 DEF BeginCompletion, database
<1>2. ASSUME NEW u \in Upload, CheckRepresentations(u) PROVE Goal
  BY <1>2 DEF CheckRepresentations, database
<1>3. ASSUME NEW u \in Upload, LookupFingerprint(u) PROVE Goal
  BY <1>3 DEF LookupFingerprint, database
<1>4. ASSUME NEW u \in Upload, LockSnapshot(u) PROVE Goal
  BY <1>4 DEF LockSnapshot, database
<1>5. ASSUME NEW u \in Upload, GuardedLookup(u) PROVE Goal
  BY <1>5 DEF GuardedLookup, database
<1>6. ASSUME NEW u \in Upload, LockBlobs(u) PROVE Goal
  BY <1>6 DEF LockBlobs, database
<1>7. ASSUME NEW u \in Upload, RecheckFingerprint(u) PROVE Goal
  BY <1>7 DEF RecheckFingerprint, database
<1>8. ASSUME NEW u \in Upload, AttachToExisting(u) PROVE Goal
  BY <1>8
<1>9. ASSUME NEW u \in Upload, PromoteBlob(u) PROVE Goal
  BY <1>9 DEF PromoteBlob, database
<1>10. ASSUME NEW u \in Upload, StampCompletion(u) PROVE Goal
  BY <1>10 DEF StampCompletion, database
<1>11. ASSUME NEW u \in Upload, RecordCompletion(u) PROVE Goal
  BY <1>11
<1>12. ASSUME NEW u \in Upload, FetchWinner(u) PROVE Goal
  BY <1>12 DEF FetchWinner, database
<1>13. ASSUME NEW u \in Upload, CleanupCheck(u) PROVE Goal
  BY <1>13 DEF CleanupCheck, database
<1>14. ASSUME NEW u \in Upload, CleanupUnlink(u) PROVE Goal
  BY <1>14 DEF CleanupUnlink, database
<1>15. ASSUME NEW u \in Upload, CleanupDone(u) PROVE Goal
  BY <1>15 DEF CleanupDone, database
<1>16. ASSUME NEW u \in Upload, PromotionFails(u) PROVE Goal
  BY <1>16 DEF PromotionFails, database
<1>17. ASSUME NEW u \in Upload, RecordingFails(u) PROVE Goal
  BY <1>17 DEF RecordingFails, database
<1>18. ASSUME NEW p \in Deleter, RequestDeletion(p) PROVE Goal
  BY <1>18 DEF RequestDeletion, database
<1>19. ASSUME NEW p \in Deleter, DeletionLocksSnapshot(p) PROVE Goal
  BY <1>19 DEF DeletionLocksSnapshot, database
<1>20. ASSUME NEW p \in Deleter, DeletionRechecks(p) PROVE Goal
  BY <1>20 DEF DeletionRechecks, database
<1>21. ASSUME NEW p \in Deleter, DeletionLocksBlobs(p) PROVE Goal
  BY <1>21 DEF DeletionLocksBlobs, database
<1>22. ASSUME NEW p \in Deleter, StampDeletion(p) PROVE Goal
  BY <1>22 DEF StampDeletion, database
<1>23. ASSUME NEW p \in Deleter, CommitDeletion(p) PROVE Goal
  BY <1>23
<1>24. ASSUME NEW g \in Collector, BeginCollection(g) PROVE Goal
  BY <1>24 DEF BeginCollection, database
<1>25. ASSUME NEW g \in Collector, LockCandidate(g) PROVE Goal
  BY <1>25 DEF LockCandidate, database
<1>26. ASSUME NEW g \in Collector, SkipCandidate(g) PROVE Goal
  BY <1>26 DEF SkipCandidate, database
<1>27. ASSUME NEW g \in Collector, DeleteRow(g) PROVE Goal
  BY <1>27 DEF DeleteRow, database
<1>28. ASSUME NEW g \in Collector, UnlinkBlob(g) PROVE Goal
  BY <1>28 DEF UnlinkBlob, database
<1>29. ASSUME NEW g \in Collector, CommitCollection(g) PROVE Goal
  BY <1>29 DEF CommitCollection, database
<1>30. ASSUME NEW g \in Collector, FinishCollection(g) PROVE Goal
  BY <1>30 DEF FinishCollection, database
<1>31. ASSUME NEW q \in Proc, Abandon(q) PROVE Goal
  BY <1>31 DEF Abandon, database
<1>32. ASSUME NEW q \in Proc, AbandonDuringUnlink(q) PROVE Goal
  BY <1>32 DEF AbandonDuringUnlink, database
<1>33. CASE DetachedUnlinkRuns
  BY <1>33 DEF DetachedUnlinkRuns, database
<1>34. CASE Crash
  BY <1>34 DEF Crash, database
<1>35. CASE RecoverContext
  BY <1>35
<1>36. CASE RecoverCandidates
  BY <1>36 DEF RecoverCandidates, database
<1>37. CASE SweepFile
  BY <1>37 DEF SweepFile, database
<1>38. CASE Serve
  BY <1>38 DEF Serve, database
<1>39. CASE Tick
  BY <1>39 DEF Tick, database
<1>40. CASE UNCHANGED vars
  BY <1>40 DEF vars, database
<1> QED
  BY <1>1, <1>2, <1>3, <1>4, <1>5, <1>6, <1>7, <1>8, <1>9, <1>10, <1>11,
     <1>12, <1>13, <1>14, <1>15, <1>16, <1>17, <1>18, <1>19, <1>20, <1>21,
     <1>22, <1>23, <1>24, <1>25, <1>26, <1>27, <1>28, <1>29, <1>30, <1>31,
     <1>32, <1>33, <1>34, <1>35, <1>36, <1>37, <1>38, <1>39, <1>40 DEF Next,
     CompletionStep, DeletionStep, CollectionStep

\* The newest of a set stays the newest while completion times stay.
LEMMA NewestKept ==
    ASSUME NEW S, \A s \in S : snapshot'[s].completedAt = snapshot[s].completedAt
    PROVE  \A x : x \in Newest(S)' <=> x \in Newest(S)
BY DEF Newest, Later

\* A newest snapshot that another one supersedes, or does not.
LEMMA NewestExtended ==
    ASSUME TypeOK, TypeOK', NEW S \in SUBSET Upload, NEW u \in Upload \ S,
           NEW t \in Newest(S), NEW at, at = snapshot'[u].completedAt,
           \A s \in S : snapshot'[s].completedAt = snapshot[s].completedAt
    PROVE  (IF Supersedes(u, at, t) THEN u ELSE t) \in Newest(S \cup {u})'
<1>0. /\ \A s \in Upload : s \in Nat
      /\ \A s \in S : snapshot[s].completedAt \in Nat
      /\ at \in Nat /\ None \notin Upload
  BY ConstantsAssumption, NamesAssumption DEF TypeOK, SnapshotRow
<1>1. CASE S = {}
  <2>1. t = None
    BY <1>1 DEF Newest
  <2> QED BY <1>1, <2>1 DEF Newest, Supersedes
<1>2. CASE S # {}
  <2>1. t \in S /\ \A x \in S \ {t} : Later(t, x)
    BY <1>2 DEF Newest
  <2>2. CASE Supersedes(u, at, t)
    <3>1. ASSUME NEW x \in S PROVE Later(u, x)'
      <4>1. at > snapshot[t].completedAt \/ (at = snapshot[t].completedAt /\ u > t)
        BY <1>0, <2>1, <2>2 DEF Supersedes
      <4>2. x = t \/ Later(t, x)
        BY <2>1
      <4> QED BY <1>0, <2>1, <4>1, <4>2 DEF Later
    <3> QED BY <2>2, <3>1 DEF Newest
  <2>3. CASE ~Supersedes(u, at, t)
    <3>1. Later(t, u)'
      BY <1>0, <2>1, <2>3 DEF Supersedes, Later
    <3>2. \A x \in S \ {t} : Later(t, x)'
      BY <2>1 DEF Later
    <3> QED BY <2>1, <2>3, <3>1, <3>2 DEF Newest
  <2> QED BY <2>2, <2>3
<1> QED BY <1>1, <1>2

\* Every commit leaves the projection of each session at its newest snapshot.
LEMMA LatestStep ==
    ASSUME LockInv, LatestIsNewestLive, [Next]_vars
    PROVE  LatestIsNewestLive'
<1>0. TypeOK /\ TypeOK' /\ latest \in [Session -> Upload \cup {None}]
  BY TypeStep DEF LockInv, TypeOK
<1>a. \A c \in Session : LiveIn(c) \in SUBSET Upload
  BY DEF LiveIn
<1>1. CASE UNCHANGED <<snapshot, latest>>
  <2>1. ASSUME NEW e \in Session PROVE latest'[e] \in Newest(LiveIn(e))'
    <3> PICK R : R = LiveIn(e)
      OBVIOUS
    <3>1. LiveIn(e)' = R
      BY <1>1 DEF LiveIn, Live
    <3>2. latest[e] \in Newest(R)
      BY DEF LatestIsNewestLive
    <3>3. latest'[e] \in Newest(R)'
      BY <1>1, <3>2, NewestKept
    <3> QED BY <3>1, <3>3 DEF Newest, Later
  <2> QED BY <2>1 DEF LatestIsNewestLive
<1>2. ASSUME NEW u \in Upload, AttachToExisting(u) PROVE LatestIsNewestLive'
  <2> PICK v : v = req[u].target
    OBVIOUS
  <2> PICK c : c = SessionOf[FingerprintOf[u]]
    OBVIOUS
  <2>1. /\ snapshot' = snapshot /\ v \in Upload /\ FingerprintOf[v] = FingerprintOf[u]
    BY <1>0, <1>2 DEF AttachToExisting, TypeOK, Request, TargetPC, LockInv,
                      RequestsConsistent, Proc
  <2>2. \/ latest' = latest
        \/ /\ Live(v)
           /\ latest' = [latest EXCEPT ![c] =
                 IF Supersedes(v, snapshot[v].completedAt, @) THEN v ELSE @]
    BY <1>2 DEF AttachToExisting
  <2>3. c \in Session
    BY ManifestTypes
  <2>4. Live(v) => ~Supersedes(v, snapshot[v].completedAt, latest[c])
    <3> SUFFICES ASSUME Live(v) PROVE ~Supersedes(v, snapshot[v].completedAt, latest[c])
      OBVIOUS
    <3>1. v \in LiveIn(c)
      BY <2>1 DEF LiveIn
    <3> PICK t : t = latest[c]
      OBVIOUS
    <3>2. t \in LiveIn(c) /\ \A x \in LiveIn(c) \ {t} : Later(t, x)
      BY <2>3, <3>1 DEF LatestIsNewestLive, Newest
    <3>3. /\ v \in Nat /\ t \in Nat /\ t # None
          /\ snapshot[v].completedAt \in Nat /\ snapshot[t].completedAt \in Nat
      BY <1>0, <2>1, <3>2, ConstantsAssumption, NamesAssumption
         DEF LiveIn, TypeOK, SnapshotRow
    <3>4. v = t \/ Later(t, v)
      BY <3>1, <3>2
    <3> QED BY <3>3, <3>4 DEF Supersedes, Later
  <2>5. latest' = latest
    BY <1>0, <2>2, <2>3, <2>4
  <2> QED BY <1>1, <2>1, <2>5
<1>3. ASSUME NEW u \in Upload, RecordCompletion(u) PROVE LatestIsNewestLive'
  <2>1. CASE UNCHANGED <<snapshot, latest>>
    BY <1>1, <2>1
  <2>2. CASE /\ LiveWith(FingerprintOf[u]) = {}
             /\ snapshot'[u].state = "live"
             /\ snapshot'[u].completedAt = req[u].now
             /\ \A s \in Upload \ {u} :
                   /\ snapshot'[s].state = snapshot[s].state
                   /\ snapshot'[s].completedAt = snapshot[s].completedAt
             /\ latest' = [latest EXCEPT ![SessionOf[FingerprintOf[u]]] =
                             IF Supersedes(u, req[u].now, @) THEN u ELSE @]
    <3> PICK c : c = SessionOf[FingerprintOf[u]]
      OBVIOUS
    <3>1. c \in Session /\ ~Live(u)
      BY <2>2, ManifestTypes DEF LiveWith
    <3>2. LiveIn(c)' = LiveIn(c) \cup {u} /\ u \notin LiveIn(c)
      BY <2>2, <3>1 DEF LiveIn, Live
    <3>3. latest'[c] = IF Supersedes(u, req[u].now, latest[c]) THEN u ELSE latest[c]
      BY <1>0, <2>2, <3>1
    <3> PICK S : S = LiveIn(c)
      OBVIOUS
    <3>4. latest'[c] \in Newest(S \cup {u})'
      <4>1. latest[c] \in Newest(S)
        BY <3>1 DEF LatestIsNewestLive
      <4>2. \A s \in S : snapshot'[s].completedAt = snapshot[s].completedAt
        BY <1>a, <2>2, <3>1, <3>2
      <4> QED BY <1>0, <1>a, <2>2, <3>1, <3>2, <3>3, <4>1, <4>2, NewestExtended
    <3>5. latest'[c] \in Newest(LiveIn(c))'
      BY <3>2, <3>4 DEF Newest, Later
    <3>6. ASSUME NEW e \in Session, e # c PROVE latest'[e] \in Newest(LiveIn(e))'
      <4>1. LiveIn(e)' = LiveIn(e) /\ u \notin LiveIn(e)
        BY <2>2, <3>6 DEF LiveIn, Live
      <4>2. latest'[e] = latest[e]
        BY <1>0, <2>2, <3>6
      <4> PICK R : R = LiveIn(e)
        OBVIOUS
      <4>3. latest'[e] \in Newest(R)'
        BY <1>a, <2>2, <4>1, <4>2, NewestKept DEF LatestIsNewestLive
      <4> QED BY <4>1, <4>3 DEF Newest, Later
    <3> QED BY <3>5, <3>6 DEF LatestIsNewestLive
  <2> QED BY <1>0, <1>3, <2>1, <2>2, RecordRows
<1>4. ASSUME NEW p \in Deleter, CommitDeletion(p) PROVE LatestIsNewestLive'
  <2>1. CASE UNCHANGED <<snapshot, latest>>
    BY <1>1, <2>1
  <2>2. ASSUME NEW s \in Upload, snapshot'[s].state = "deleted",
               snapshot'[s].completedAt = snapshot[s].completedAt,
               \A t \in Upload \ {s} : snapshot'[t] = snapshot[t],
               NEW t \in Newest(LiveIn(SessionOf[FingerprintOf[s]]) \ {s}),
               latest' = [latest EXCEPT ![SessionOf[FingerprintOf[s]]] = t]
        PROVE  LatestIsNewestLive'
    <3> PICK c : c = SessionOf[FingerprintOf[s]]
      OBVIOUS
    <3>1. c \in Session
      BY ManifestTypes
    <3>2. /\ LiveIn(c)' = LiveIn(c) \ {s}
          /\ \A e \in Session \ {c} : LiveIn(e)' = LiveIn(e)
      BY <2>2 DEF LiveIn, Live
    <3>3. \A x \in Upload : snapshot'[x].completedAt = snapshot[x].completedAt
      BY <2>2
    <3>4. ASSUME NEW e \in Session PROVE latest'[e] \in Newest(LiveIn(e))'
      <4> PICK R : R = IF e = c THEN LiveIn(c) \ {s} ELSE LiveIn(e)
        OBVIOUS
      <4>1. latest'[e] \in Newest(R)
        BY <1>0, <2>2, <3>1 DEF LatestIsNewestLive
      <4>2. \A x \in R : snapshot'[x].completedAt = snapshot[x].completedAt
        BY <1>a, <3>1, <3>3
      <4>3. latest'[e] \in Newest(R)'
        BY <4>1, <4>2, NewestKept
      <4>4. LiveIn(e)' = R
        BY <3>2
      <4> QED BY <4>3, <4>4 DEF Newest, Later
    <3> QED BY <3>4 DEF LatestIsNewestLive
  <2> QED BY <1>0, <1>4, <2>1, <2>2, DeletionRows
<1>5. CASE RecoverContext
  BY <1>5 DEF RecoverContext, LatestIsNewestLive, Newest, Later, LiveIn, Live
<1> QED BY <1>1, <1>2, <1>3, <1>4, <1>5, LatestChange

\* The session list always names the newest live snapshot of each session,
\* whatever the order of clock readings, commits, deletions and recoveries.
THEOREM LatestExact == Spec => []LatestIsNewestLive
<1>1. Init => LatestIsNewestLive
  BY DEF Init, LatestIsNewestLive, Newest, LiveIn, Live, AbsentSnapshot
<1>2. LockInv /\ LatestIsNewestLive /\ [Next]_vars => LatestIsNewestLive'
  BY LatestStep
<1> QED BY <1>1, <1>2, LockInvariant, PTL DEF Spec

-----------------------------------------------------------------------------
(* Rearchived identities *)

\* A tombstone that is found is one of the identity.
LEMMA PriorIsTombstone ==
    ASSUME NEW f, NEW prior \in PriorTombstone(f)
    PROVE  IF \E s \in Upload : Deleted(s) /\ FingerprintOf[s] = f
             THEN prior \in Upload /\ Deleted(prior) /\ FingerprintOf[prior] = f
             ELSE prior = None
BY DEF PriorTombstone

\* record_completed_upload gives every snapshot of an identity but its first a
\* tombstone to continue.
THEOREM OnlyFirstWithout == Spec => []OnlyFirstHasNoTombstone
<1>1. Init => OnlyFirstHasNoTombstone
  BY DEF Init, OnlyFirstHasNoTombstone, AbsentSnapshot
<1>2. ASSUME TypeOK, OnlyFirstHasNoTombstone, [Next]_vars
      PROVE  OnlyFirstHasNoTombstone'
  <2>1. CASE UNCHANGED snapshot
    BY <1>2, <2>1 DEF OnlyFirstHasNoTombstone
  <2>2. ASSUME NEW u \in Upload, RecordCompletion(u) PROVE OnlyFirstHasNoTombstone'
    <3>1. CASE ~UNCHANGED snapshot
      <4>1. PICK prior \in PriorTombstone(FingerprintOf[u]) :
              /\ LiveWith(FingerprintOf[u]) = {} /\ snapshot'[u].from = prior
              /\ \A s \in Upload \ {u} :
                    /\ snapshot'[s].state = snapshot[s].state
                    /\ snapshot'[s].from = snapshot[s].from
        BY <1>2, <2>2, <3>1, RecordRows
      <4>2. ASSUME NEW t \in Upload \ {u}, FingerprintOf[t] = FingerprintOf[u],
                   snapshot'[t].state # "absent"
            PROVE  snapshot'[u].from # None
        <5>1. Deleted(t)
          BY <1>2, <4>1, <4>2 DEF LiveWith, Live, Deleted, TypeOK, SnapshotRow
        <5>2. prior \in Upload
          BY <4>2, <5>1, PriorIsTombstone
        <5> QED BY <4>1, <5>2, NamesAssumption
      <4> QED BY <1>2, <4>1, <4>2 DEF OnlyFirstHasNoTombstone
    <3> QED BY <2>1, <3>1
  <2>3. ASSUME NEW p \in Deleter, CommitDeletion(p) PROVE OnlyFirstHasNoTombstone'
    <3>1. CASE ~UNCHANGED snapshot
      <4>1. \A t \in Upload : /\ snapshot'[t].from = snapshot[t].from
                              /\ snapshot'[t].state # "absent" =>
                                    snapshot[t].state # "absent"
        BY <1>2, <2>3, <3>1, DeletionRows DEF Live
      <4> QED BY <1>2, <4>1 DEF OnlyFirstHasNoTombstone
    <3> QED BY <2>1, <3>1
  <2> QED BY <1>2, <2>1, <2>2, <2>3, RowsChange
          DEF SkipCandidate, CommitCollection, RecoverCandidates
<1> QED BY <1>1, <1>2, TypeCorrect, PTL DEF Spec

-----------------------------------------------------------------------------
(* The clock, and the requests that read it *)

\* The clock never goes back.
LEMMA ClockGrows ==
    ASSUME TypeOK, [Next]_vars
    PROVE  clock \in Nat /\ clock' \in Nat /\ clock <= clock'
<1>0. clock \in Nat
  BY DEF TypeOK
<1>1. ASSUME NEW u \in Upload,
             \/ BeginCompletion(u) \/ CheckRepresentations(u) \/ LookupFingerprint(u)
             \/ LockSnapshot(u) \/ GuardedLookup(u) \/ LockBlobs(u)
             \/ RecheckFingerprint(u) \/ AttachToExisting(u)
      PROVE  clock' = clock
  BY <1>1 DEF BeginCompletion, CheckRepresentations, LookupFingerprint, LockSnapshot,
     GuardedLookup, LockBlobs, RecheckFingerprint, AttachToExisting, environment
<1>2. ASSUME NEW u \in Upload,
             \/ PromoteBlob(u) \/ StampCompletion(u) \/ RecordCompletion(u)
             \/ FetchWinner(u) \/ CleanupCheck(u) \/ CleanupUnlink(u)
             \/ CleanupDone(u) \/ PromotionFails(u) \/ RecordingFails(u)
      PROVE  clock' = clock
  BY <1>2 DEF PromoteBlob, StampCompletion, RecordCompletion, FetchWinner,
     CleanupCheck, CleanupUnlink, CleanupDone, PromotionFails, RecordingFails,
     environment
<1>3. ASSUME NEW p \in Deleter, RequestDeletion(p) \/ DeletionStep(p)
      PROVE  clock' = clock
  BY <1>3 DEF RequestDeletion, DeletionStep, DeletionLocksSnapshot,
     DeletionRechecks, DeletionLocksBlobs, StampDeletion, CommitDeletion,
     environment
<1>4. ASSUME NEW g \in Collector, BeginCollection(g) \/ CollectionStep(g)
      PROVE  clock' = clock
  BY <1>4 DEF BeginCollection, CollectionStep, LockCandidate, SkipCandidate,
     DeleteRow, UnlinkBlob, CommitCollection, FinishCollection, environment
<1>5. ASSUME NEW q \in Proc, Abandon(q) \/ AbandonDuringUnlink(q)
      PROVE  clock' = clock
  BY <1>5 DEF Abandon, AbandonDuringUnlink, environment
<1>6. CASE \/ DetachedUnlinkRuns \/ Crash \/ RecoverContext \/ RecoverCandidates
           \/ SweepFile \/ Serve \/ UNCHANGED vars
  <2>1. clock' = clock
    BY <1>6 DEF DetachedUnlinkRuns, Crash, RecoverContext, RecoverCandidates,
       SweepFile, Serve, environment, vars
  <2> QED BY <1>0, <2>1
<1>7. CASE Tick
  BY <1>0, <1>7 DEF Tick
<1> QED
  BY <1>0, <1>1, <1>2, <1>3, <1>4, <1>5, <1>6, <1>7 DEF Next, CompletionStep

\* How the request of a deletion changes.
LEMMA HowDeletersMove ==
    ASSUME TypeOK, [Next]_vars, NEW p \in Deleter
    PROVE  \/ req'[p] = req[p] /\ held[p] \subseteq held'[p]
           \/ req'[p].pc = "idle"
           \/ /\ req'[p].pc = "delLockSnapshot"
              /\ snapshot' = snapshot /\ Live(req'[p].target)
           \/ /\ req[p].pc \in DeletionPC
              /\ req'[p].target = req[p].target /\ snapshot' = snapshot
              /\ req'[p].pc \in {"delRecheck", "delLockBlobs", "delStamp"}
              /\ req'[p].pc = "delStamp" =>
                    BlobLocks(DigestsOf[req[p].target]) \subseteq held'[p]
           \/ /\ req[p].pc = "delStamp" /\ req'[p].pc = "delCommit"
              /\ req'[p].target = req[p].target /\ req'[p].now = clock
              /\ held' = held /\ snapshot' = snapshot
<1> DEFINE Goal ==
       \/ req'[p] = req[p] /\ held[p] \subseteq held'[p]
       \/ req'[p].pc = "idle"
       \/ /\ req'[p].pc = "delLockSnapshot"
          /\ snapshot' = snapshot /\ Live(req'[p].target)
       \/ /\ req[p].pc \in DeletionPC
          /\ req'[p].target = req[p].target /\ snapshot' = snapshot
          /\ req'[p].pc \in {"delRecheck", "delLockBlobs", "delStamp"}
          /\ req'[p].pc = "delStamp" =>
                BlobLocks(DigestsOf[req[p].target]) \subseteq held'[p]
       \/ /\ req[p].pc = "delStamp" /\ req'[p].pc = "delCommit"
          /\ req'[p].target = req[p].target /\ req'[p].now = clock
          /\ held' = held /\ snapshot' = snapshot
<1>0. /\ p \in Proc /\ req \in [Proc -> Request] /\ req[p] \in Request
      /\ held \in [Proc -> SUBSET Nat]
      /\ p \notin Upload /\ p \notin Collector
  BY NamesAssumption DEF TypeOK, Proc
<1>1. ASSUME NEW q \in Proc \ {p}, StepOf(q) PROVE Goal
  BY <1>0, <1>1, OthersUntouched
<1>2. ASSUME StepOf(p) PROVE Goal
  <2>1. CASE RequestDeletion(p)
    <3>1. PICK s \in Upload : /\ Live(s) /\ snapshot' = snapshot
                              /\ req'[p] = [req[p] EXCEPT !.pc = "delLockSnapshot",
                                                          !.target = s]
      BY <1>0, <2>1 DEF RequestDeletion, Update, database
    <3>2. req'[p].pc = "delLockSnapshot" /\ req'[p].target = s
      BY <1>0, <3>1 DEF Request
    <3> QED BY <3>1, <3>2
  <2>2. CASE DeletionLocksSnapshot(p)
    <3>1. /\ req'[p] = [req[p] EXCEPT !.pc = "delRecheck"]
          /\ snapshot' = snapshot /\ req[p].pc \in DeletionPC
      BY <1>0, <2>2 DEF DeletionLocksSnapshot, GoTo, Update, database, At, DeletionPC
    <3> QED BY <1>0, <3>1 DEF Request
  <2>3. CASE DeletionRechecks(p)
    <3>1. CASE Live(req[p].target)
      <4>1. /\ req'[p] = [req[p] EXCEPT !.pc = "delLockBlobs"]
            /\ snapshot' = snapshot /\ req[p].pc \in DeletionPC
        BY <1>0, <2>3, <3>1 DEF DeletionRechecks, GoTo, Update, database, At,
           DeletionPC
      <4> QED BY <1>0, <4>1 DEF Request
    <3>2. CASE ~Live(req[p].target)
      BY <1>0, <2>3, <3>2 DEF DeletionRechecks, Finish, Update, Idle
    <3> QED BY <3>1, <3>2
  <2>4. CASE DeletionLocksBlobs(p)
    <3>1. PICK l \in Nat :
            /\ held'[p] = held[p] \cup {l}
            /\ req'[p] = [req[p] EXCEPT !.pc =
                  IF BlobLocks(DigestsOf[req[p].target]) \subseteq held[p] \cup {l}
                    THEN "delStamp" ELSE @]
            /\ snapshot' = snapshot /\ req[p].pc = "delLockBlobs"
            /\ req[p].target \in Upload
      <4>1. req[p].pc = "delLockBlobs" /\ req[p].target \in Upload
        BY <1>0, <2>4 DEF DeletionLocksBlobs, At, Request, TargetPC, DeletionPC
      <4>2. BlobLocks(DigestsOf[req[p].target]) \subseteq Nat
        BY <4>1, ConstantsAssumption DEF BlobLocks
      <4> QED BY <1>0, <2>4, <4>1, <4>2 DEF DeletionLocksBlobs, AcquireNextBlobLock,
              Acquire, Update, database
    <3>2. /\ req'[p].target = req[p].target /\ req[p].pc \in DeletionPC
          /\ req'[p].pc \in {"delLockBlobs", "delStamp"}
          /\ req'[p].pc = "delStamp" =>
                BlobLocks(DigestsOf[req[p].target]) \subseteq held'[p]
      BY <1>0, <3>1 DEF Request, DeletionPC
    <3> QED BY <3>1, <3>2
  <2>5. CASE StampDeletion(p)
    <3>1. /\ req'[p] = [req[p] EXCEPT !.pc = "delCommit", !.now = clock]
          /\ snapshot' = snapshot /\ held' = held /\ req[p].pc = "delStamp"
      BY <1>0, <2>5 DEF StampDeletion, Update, database, At
    <3> QED BY <1>0, <3>1 DEF Request
  <2>6. CASE CommitDeletion(p)
    BY <1>0, <2>6 DEF CommitDeletion, Finish, Update, Idle
  <2>7. CASE Abandon(p) \/ AbandonDuringUnlink(p)
    BY <1>0, <2>7 DEF Abandon, AbandonDuringUnlink, Finish, Update, Idle
  <2> QED BY <1>0, <1>2, <2>1, <2>2, <2>3, <2>4, <2>5, <2>6, <2>7
          DEF StepOf, DeletionStep
<1>3. CASE Crash
  BY <1>0, <1>3 DEF Crash, Idle
<1>4. CASE \/ DetachedUnlinkRuns \/ RecoverContext \/ RecoverCandidates
           \/ SweepFile \/ Serve \/ Tick \/ UNCHANGED vars
  BY <1>4 DEF DetachedUnlinkRuns, RecoverContext, RecoverCandidates, SweepFile,
     Serve, Tick, vars
<1> QED BY <1>1, <1>2, <1>3, <1>4 DEF Next, StepOf, Proc

\* How the request of a collection changes.
LEMMA HowCollectorsMove ==
    ASSUME TypeOK, [Next]_vars, NEW g \in Collector
    PROVE  \/ req'[g] = req[g]
           \/ req'[g].pc = "idle"
           \/ req'[g].pc = "gcNext" /\ req'[g].now = clock
           \/ /\ req[g].pc # "idle" /\ req'[g].pc \in {"gcNext", "gcCheck"}
              /\ req'[g].now = req[g].now
           \/ /\ req[g].pc = "gcCheck" /\ req'[g].pc = "gcUnlink" /\ Collectable(g)
              /\ req'[g].now = req[g].now /\ req'[g].digest = req[g].digest
              /\ UNCHANGED <<snapshot, blob>>
           \/ /\ req[g].pc = "gcUnlink" /\ req'[g].pc = "gcCommit"
              /\ req'[g].now = req[g].now /\ req'[g].digest = req[g].digest
              /\ UNCHANGED <<snapshot, blob>>
<1> DEFINE Goal ==
       \/ req'[g] = req[g]
       \/ req'[g].pc = "idle"
       \/ req'[g].pc = "gcNext" /\ req'[g].now = clock
       \/ /\ req[g].pc # "idle" /\ req'[g].pc \in {"gcNext", "gcCheck"}
          /\ req'[g].now = req[g].now
       \/ /\ req[g].pc = "gcCheck" /\ req'[g].pc = "gcUnlink" /\ Collectable(g)
          /\ req'[g].now = req[g].now /\ req'[g].digest = req[g].digest
          /\ UNCHANGED <<snapshot, blob>>
       \/ /\ req[g].pc = "gcUnlink" /\ req'[g].pc = "gcCommit"
          /\ req'[g].now = req[g].now /\ req'[g].digest = req[g].digest
          /\ UNCHANGED <<snapshot, blob>>
<1>0. /\ g \in Proc /\ req \in [Proc -> Request] /\ req[g] \in Request
      /\ g \notin Upload /\ g \notin Deleter
  BY NamesAssumption DEF TypeOK, Proc
<1>1. ASSUME NEW q \in Proc \ {g}, StepOf(q) PROVE Goal
  BY <1>0, <1>1, OthersUntouched
<1>2. ASSUME StepOf(g) PROVE Goal
  <2>1. CASE BeginCollection(g)
    <3>1. PICK S : req'[g] = [req[g] EXCEPT !.pc = "gcNext", !.todo = S, !.now = clock]
      BY <1>0, <2>1 DEF BeginCollection, Update
    <3> QED BY <1>0, <3>1 DEF Request
  <2>2. CASE LockCandidate(g)
    <3>1. PICK d : /\ req'[g] = [req[g] EXCEPT !.pc = "gcCheck", !.digest = d,
                                              !.todo = @ \ {d}]
                   /\ req[g].pc # "idle"
      BY <1>0, <2>2 DEF LockCandidate, Update, At
    <3> QED BY <1>0, <3>1 DEF Request
  <2>3. CASE SkipCandidate(g)
    <3>1. /\ req'[g] = [req[g] EXCEPT !.pc = "gcNext", !.digest = None]
          /\ req[g].pc # "idle"
      BY <1>0, <2>3 DEF SkipCandidate, Update, At
    <3> QED BY <1>0, <3>1 DEF Request
  <2>4. CASE DeleteRow(g)
    <3>1. /\ req'[g] = [req[g] EXCEPT !.pc = "gcUnlink"]
          /\ req[g].pc = "gcCheck" /\ Collectable(g) /\ UNCHANGED <<snapshot, blob>>
      BY <1>0, <2>4 DEF DeleteRow, GoTo, Update, At
    <3>2. /\ req'[g].pc = "gcUnlink" /\ req'[g].now = req[g].now
          /\ req'[g].digest = req[g].digest
      BY <1>0, <3>1 DEF Request
    <3> QED BY <3>1, <3>2
  <2>5. CASE UnlinkBlob(g)
    <3>1. /\ req'[g] = [req[g] EXCEPT !.pc = "gcCommit"]
          /\ req[g].pc = "gcUnlink" /\ UNCHANGED <<snapshot, blob>>
      BY <1>0, <2>5 DEF UnlinkBlob, GoTo, Update, At, database
    <3>2. /\ req'[g].pc = "gcCommit" /\ req'[g].now = req[g].now
          /\ req'[g].digest = req[g].digest
      BY <1>0, <3>1 DEF Request
    <3> QED BY <3>1, <3>2
  <2>6. CASE CommitCollection(g)
    <3>1. /\ req'[g] = [req[g] EXCEPT !.pc = "gcNext", !.digest = None]
          /\ req[g].pc # "idle"
      BY <1>0, <2>6 DEF CommitCollection, Update, At
    <3> QED BY <1>0, <3>1 DEF Request
  <2>7. CASE FinishCollection(g)
    BY <1>0, <2>7 DEF FinishCollection, Finish, Update, Idle
  <2>8. CASE Abandon(g) \/ AbandonDuringUnlink(g)
    BY <1>0, <2>8 DEF Abandon, AbandonDuringUnlink, Finish, Update, Idle
  <2> QED BY <1>0, <1>2, <2>1, <2>2, <2>3, <2>4, <2>5, <2>6, <2>7, <2>8
          DEF StepOf, CollectionStep
<1>3. CASE Crash
  BY <1>0, <1>3 DEF Crash, Idle
<1>4. CASE \/ DetachedUnlinkRuns \/ RecoverContext \/ RecoverCandidates
           \/ SweepFile \/ Serve \/ Tick \/ UNCHANGED vars
  BY <1>4 DEF DetachedUnlinkRuns, RecoverContext, RecoverCandidates, SweepFile,
     Serve, Tick, vars
<1> QED BY <1>1, <1>2, <1>3, <1>4 DEF Next, StepOf, Proc

\* A deletion that is about to read the clock, or has read it, holds the stripe
\* of every blob it releases.
DeletersHoldBlobs ==
    \A p \in Deleter : req[p].pc \in {"delStamp", "delCommit"} =>
        BlobLocks(DigestsOf[req[p].target]) \subseteq held[p]

\* No reading of the clock, and no deletion time, is ahead of the clock.
TimesPast ==
    /\ \A s \in Upload : Deleted(s) => snapshot[s].deletedAt <= clock
    /\ \A p \in Deleter : req[p].pc = "delCommit" => req[p].now <= clock
    /\ \A g \in Collector : req[g].pc # "idle" => req[g].now <= clock

\* delete_snapshot reads the clock under the blob locks.
LEMMA DeletersHoldStep ==
    ASSUME TypeOK, DeletersHoldBlobs, [Next]_vars
    PROVE  DeletersHoldBlobs'
<1> SUFFICES ASSUME NEW p \in Deleter, req'[p].pc \in {"delStamp", "delCommit"}
             PROVE  BlobLocks(DigestsOf[req'[p].target]) \subseteq held'[p]
  BY DEF DeletersHoldBlobs, BlobLocks
<1>1. CASE req'[p] = req[p] /\ held[p] \subseteq held'[p]
  BY <1>1 DEF DeletersHoldBlobs
<1>2. CASE /\ req'[p].target = req[p].target /\ req'[p].pc = "delStamp"
           /\ BlobLocks(DigestsOf[req[p].target]) \subseteq held'[p]
  BY <1>2
<1>3. CASE /\ req[p].pc = "delStamp"
           /\ req'[p].target = req[p].target /\ held' = held
  BY <1>3 DEF DeletersHoldBlobs
<1> QED BY <1>1, <1>2, <1>3, HowDeletersMove

\* Time moves forward, so what was read of it stays in the past.
LEMMA TimesStep ==
    ASSUME TypeOK, TimesPast, [Next]_vars
    PROVE  TimesPast'
<1>0. /\ clock \in Nat /\ clock' \in Nat /\ clock <= clock'
      /\ TypeOK'
  BY ClockGrows, TypeStep
<1>a. /\ \A p \in Proc : req[p].now \in Nat
      /\ \A s \in Upload : snapshot[s].deletedAt \in Nat
  BY DEF TypeOK, Request, SnapshotRow
<1>1. ASSUME NEW s \in Upload, Deleted(s)' PROVE snapshot'[s].deletedAt <= clock'
  <2>1. CASE Deleted(s) /\ snapshot'[s].deletedAt = snapshot[s].deletedAt
    BY <1>0, <1>a, <2>1 DEF TimesPast
  <2>2. CASE UNCHANGED snapshot
    BY <1>1, <2>1, <2>2 DEF Deleted
  <2>3. ASSUME NEW u \in Upload, RecordCompletion(u), ~UNCHANGED snapshot
        PROVE  Deleted(s) /\ snapshot'[s].deletedAt = snapshot[s].deletedAt
    BY <1>1, <2>3, RecordRows DEF Deleted
  <2>4. ASSUME NEW p \in Deleter, CommitDeletion(p), ~UNCHANGED snapshot
        PROVE  snapshot'[s].deletedAt <= clock'
    <3>1. PICK t \in Upload : /\ snapshot'[t].deletedAt = req[p].now
                              /\ \A r \in Upload \ {t} : snapshot'[r] = snapshot[r]
      BY <2>4, DeletionRows
    <3>2. req[p].now <= clock
      BY <2>4 DEF CommitDeletion, At, TimesPast
    <3>3. CASE s = t
      BY <1>0, <1>a, <3>1, <3>2, <3>3 DEF Proc
    <3>4. CASE s # t
      BY <1>1, <2>1, <3>1, <3>4 DEF Deleted
    <3> QED BY <3>3, <3>4
  <2> QED BY <2>1, <2>2, <2>3, <2>4, RowsChange
          DEF SkipCandidate, CommitCollection, RecoverCandidates
<1>2. ASSUME NEW p \in Deleter, req'[p].pc = "delCommit" PROVE req'[p].now <= clock'
  <2>1. CASE req'[p] = req[p]
    BY <1>0, <1>a, <1>2, <2>1 DEF TimesPast, Proc
  <2>2. CASE req'[p].now = clock
    BY <1>0, <2>2
  <2> QED BY <1>2, <2>1, <2>2, HowDeletersMove
<1>3. ASSUME NEW g \in Collector, req'[g].pc # "idle" PROVE req'[g].now <= clock'
  <2>1. CASE req[g].pc # "idle" /\ req'[g].now = req[g].now
    BY <1>0, <1>a, <2>1 DEF TimesPast, Proc
  <2>2. CASE req'[g].now = clock
    BY <1>0, <2>2
  <2> QED BY <1>3, <2>1, <2>2, HowCollectorsMove
<1> QED BY <1>1, <1>2, <1>3 DEF TimesPast

-----------------------------------------------------------------------------
(* The grace period *)

\* A deadline leaves its grace to every tombstoned snapshot that used the
\* blob, and a row went away only when they all had it.
DeadlinesKept ==
    \A d \in Digest, s \in Upload : Deleted(s) /\ d \in DigestsOf[s] =>
        /\ HasRow(d) /\ blob[d].eligible # None =>
              snapshot[s].deletedAt + Grace <= blob[d].eligible
        /\ ~HasRow(d) => snapshot[s].deletedAt + Grace <= clock

\* A deletion about to commit is the last one of the blobs it releases.
DeletersLast ==
    \A p \in Deleter, s \in Upload :
        /\ req[p].pc = "delCommit" /\ Deleted(s)
        /\ DigestsOf[s] \cap DigestsOf[req[p].target] # {}
        => snapshot[s].deletedAt <= req[p].now

\* What a collector unlinks is still past its deadline.
CollectsEligible ==
    \A g \in Collector : req[g].pc \in {"gcUnlink", "gcCommit"} =>
        EligibleAt(req[g].digest, req[g].now)

GraceInv == DeletersHoldBlobs /\ TimesPast /\ DeadlinesKept /\ DeletersLast
              /\ CollectsEligible

\* A live snapshot's blobs have their rows.
LEMMA LiveHasRow ==
    ASSUME MetadataInv, NEW s \in Upload, Live(s), NEW d \in DigestsOf[s]
    PROVE  HasRow(d)
BY ManifestTypes, NamesAssumption, ConstantsAssumption
   DEF MetadataInv, RepresentationsAgree, HasRow

\* Deletions that share a blob exclude each other.
LEMMA DeletersLastStep ==
    ASSUME MetadataInv, GraceInv, [Next]_vars
    PROVE  DeletersLast'
<1> SUFFICES ASSUME NEW p \in Deleter, NEW s \in Upload,
                    req'[p].pc = "delCommit", Deleted(s)',
                    DigestsOf[s] \cap DigestsOf[req'[p].target] # {}
             PROVE  snapshot'[s].deletedAt <= req'[p].now
  BY DEF DeletersLast
<1>0. TypeOK /\ LocksExclusive
  BY DEF MetadataInv, LockInv
<1>1. CASE Deleted(s) /\ snapshot'[s].deletedAt = snapshot[s].deletedAt
  <2>1. CASE req'[p] = req[p]
    BY <1>1, <2>1 DEF GraceInv, DeletersLast
  <2>2. CASE req'[p].now = clock
    BY <1>1, <2>2 DEF GraceInv, TimesPast
  <2> QED BY <1>0, <2>1, <2>2, HowDeletersMove
<1>2. CASE UNCHANGED snapshot
  BY <1>1, <1>2 DEF Deleted
<1>3. ASSUME NEW u \in Upload, RecordCompletion(u), ~UNCHANGED snapshot
      PROVE  Deleted(s) /\ snapshot'[s].deletedAt = snapshot[s].deletedAt
  BY <1>0, <1>3, RecordRows DEF Deleted
<1>4. ASSUME NEW q \in Deleter, CommitDeletion(q), ~UNCHANGED snapshot
      PROVE  Deleted(s) /\ snapshot'[s].deletedAt = snapshot[s].deletedAt
  <2>1. PICK t \in Upload : /\ t = req[q].target
                            /\ \A r \in Upload \ {t} : snapshot'[r] = snapshot[r]
    BY <1>0, <1>4, DeletionRows
  <2>2. CASE s # t
    BY <2>1, <2>2 DEF Deleted
  <2>3. CASE s = t
    <3>1. req'[q].pc = "idle"
      BY <1>0, <1>4 DEF CommitDeletion, Finish, Update, Idle, TypeOK, Proc
    <3>2. q # p /\ p \in Proc /\ q \in Proc
      BY <3>1 DEF Proc
    <3>3. req'[p] = req[p]
      BY <1>0, <1>4, <3>2, OthersUntouched DEF StepOf, DeletionStep
    <3>4. PICK d : d \in DigestsOf[s] /\ d \in DigestsOf[req[p].target]
      BY <3>3
    <3>5. BlobStripe[d] \in held[q]
      BY <1>4, <2>1, <2>3, <3>4 DEF GraceInv, DeletersHoldBlobs, CommitDeletion, At,
         BlobLocks
    <3>6. BlobStripe[d] \in held[p]
      BY <3>3, <3>4 DEF GraceInv, DeletersHoldBlobs, BlobLocks
    <3> QED BY <1>0, <3>2, <3>5, <3>6 DEF LocksExclusive
  <2> QED BY <2>2, <2>3
<1> QED BY <1>0, <1>1, <1>2, <1>3, <1>4, RowsChange
        DEF SkipCandidate, CommitCollection, RecoverCandidates

\* Nothing touches the row that a collector's open transaction deletes.
LEMMA CollectsStep ==
    ASSUME MetadataInv, CollectsEligible, [Next]_vars
    PROVE  CollectsEligible'
<1> SUFFICES ASSUME NEW g \in Collector, req'[g].pc \in {"gcUnlink", "gcCommit"}
             PROVE  EligibleAt(req[g].digest, req[g].now)'
  BY DEF CollectsEligible
<1>0. TypeOK /\ CollectorOwnsWriter /\ None \notin Collector
      /\ (server # "up" => \A p \in Proc : req[p].pc = "idle") /\ g \in Proc
  BY NamesAssumption DEF MetadataInv, LockInv, RequestsConsistent, Proc
<1>1. CASE req'[g] = req[g]
  <2>1. writer = g /\ EligibleAt(req[g].digest, req[g].now)
    BY <1>0, <1>1 DEF CollectorOwnsWriter, CollectsEligible
  <2>2. \A u \in Upload : ~RecordCompletion(u)
    BY <1>0, <2>1 DEF RecordCompletion
  <2>3. \A p \in Deleter : ~CommitDeletion(p)
    BY <1>0, <2>1 DEF CommitDeletion
  <2>4. \A h \in Collector : ~SkipCandidate(h)
    BY <1>0, <2>1 DEF SkipCandidate
  <2>5. ~RecoverCandidates
    BY <1>0, <1>1 DEF RecoverCandidates
  <2>6. ASSUME NEW h \in Collector, CommitCollection(h) PROVE FALSE
    <3>1. h = g
      BY <1>0, <2>1, <2>6 DEF CommitCollection, At, CollectorOwnsWriter
    <3>2. req'[g] = [req[g] EXCEPT !.pc = "gcNext", !.digest = None]
      BY <1>0, <2>6, <3>1 DEF CommitCollection, Update, TypeOK
    <3>3. req'[g].pc = "gcNext"
      BY <1>0, <3>2 DEF TypeOK, Request
    <3> QED BY <3>3
  <2>7. blob' = blob
    BY <1>0, <2>2, <2>3, <2>4, <2>5, <2>6, RowsChange
  <2> QED BY <1>1, <2>1, <2>7 DEF EligibleAt, HasRow
<1>2. CASE /\ EligibleAt(req[g].digest, req[g].now)
           /\ req'[g].now = req[g].now /\ req'[g].digest = req[g].digest
           /\ blob' = blob
  BY <1>2 DEF EligibleAt, HasRow
<1>3. CASE /\ req[g].pc = "gcUnlink"
           /\ req'[g].now = req[g].now /\ req'[g].digest = req[g].digest
           /\ blob' = blob
  BY <1>2, <1>3 DEF CollectsEligible
<1> QED BY <1>0, <1>1, <1>2, <1>3, HowCollectorsMove DEF Collectable

\* Every write of a deadline is at least the grace period after the deletions
\* it stands for, and a row is only deleted past its deadline.
LEMMA DeadlinesKeptStep ==
    ASSUME MetadataInv, GraceInv, [Next]_vars
    PROVE  DeadlinesKept'
<1> SUFFICES ASSUME NEW d \in Digest, NEW s \in Upload, Deleted(s)', d \in DigestsOf[s]
             PROVE  /\ HasRow(d)' /\ blob'[d].eligible # None =>
                          snapshot'[s].deletedAt + Grace <= blob'[d].eligible
                    /\ ~HasRow(d)' => snapshot'[s].deletedAt + Grace <= clock'
  BY DEF DeadlinesKept
<1>0. /\ TypeOK /\ TypeOK' /\ clock \in Nat /\ clock' \in Nat /\ clock <= clock'
      /\ DeadlinesKept /\ TimesPast
  BY TypeStep, ClockGrows DEF MetadataInv, LockInv, GraceInv
<1>a. /\ Grace \in Nat /\ None \notin Rep
      /\ snapshot[s].deletedAt \in Nat /\ snapshot'[s].deletedAt \in Nat
      /\ blob[d].eligible \in Nat \cup {None}
      /\ blob'[d].eligible \in Nat \cup {None}
      /\ \A p \in Proc : req[p].now \in Nat
  BY <1>0, ConstantsAssumption, NamesAssumption
     DEF TypeOK, SnapshotRow, BlobRow, Request
<1>b. ASSUME Deleted(s), snapshot'[s].deletedAt = snapshot[s].deletedAt
      PROVE  /\ HasRow(d) /\ blob[d].eligible # None =>
                   snapshot'[s].deletedAt + Grace <= blob[d].eligible
             /\ ~HasRow(d) => snapshot'[s].deletedAt + Grace <= clock'
  BY <1>0, <1>a, <1>b DEF DeadlinesKept
<1>c. ASSUME Deleted(s), snapshot'[s].deletedAt = snapshot[s].deletedAt,
             HasRow(d)' <=> HasRow(d), blob'[d].eligible \in {None, blob[d].eligible}
      PROVE  /\ HasRow(d)' /\ blob'[d].eligible # None =>
                   snapshot'[s].deletedAt + Grace <= blob'[d].eligible
             /\ ~HasRow(d)' => snapshot'[s].deletedAt + Grace <= clock'
  BY <1>b, <1>c
<1> DEFINE Goal == /\ HasRow(d)' /\ blob'[d].eligible # None =>
                         snapshot'[s].deletedAt + Grace <= blob'[d].eligible
                   /\ ~HasRow(d)' => snapshot'[s].deletedAt + Grace <= clock'
<1>1. CASE UNCHANGED <<snapshot, blob>>
  BY <1>1, <1>c DEF Deleted, HasRow
<1>2. ASSUME NEW u \in Upload, RecordCompletion(u), ~UNCHANGED <<snapshot, blob>>
      PROVE  Goal
  <2>1. /\ Deleted(s) /\ snapshot'[s].deletedAt = snapshot[s].deletedAt
        /\ blob' = BlobsWith(u)
    BY <1>0, <1>2, RecordRows DEF Deleted
  <2>2. CASE d \in DigestsOf[u]
    <3>1. blob'[d] = [rep |-> IF HasRow(d) THEN blob[d].rep ELSE RepOf[u][d],
                      eligible |-> None]
      BY <2>1, <2>2 DEF BlobsWith
    <3>2. RepOf[u][d] \in Rep
      BY ConstantsAssumption
    <3>3. HasRow(d)' /\ blob'[d].eligible = None
      BY <1>a, <3>1, <3>2 DEF HasRow
    <3> QED BY <3>3
  <2>3. CASE d \notin DigestsOf[u]
    <3>1. blob'[d] = blob[d]
      BY <2>1, <2>3 DEF BlobsWith
    <3> QED BY <1>c, <2>1, <3>1 DEF HasRow
  <2> QED BY <2>2, <2>3
<1>3. ASSUME NEW p \in Deleter, CommitDeletion(p), ~UNCHANGED <<snapshot, blob>>
      PROVE  Goal
  <2>1. PICK t \in Upload : /\ t = req[p].target /\ Live(t)
                            /\ snapshot'[t].deletedAt = req[p].now
                            /\ \A r \in Upload \ {t} : snapshot'[r] = snapshot[r]
                            /\ blob' = BlobsWithout(t, req[p].now)
    BY <1>0, <1>3, DeletionRows
  <2>2. CASE d \in DigestsOf[t]
    <3>1. HasRow(d) /\ req[p].now \in Nat
      BY <1>a, <2>1, <2>2, LiveHasRow DEF Proc
    <3>2. /\ blob'[d].rep = blob[d].rep
          /\ blob'[d].eligible \in {None, req[p].now + Grace}
      BY <1>0, <2>1, <2>2 DEF BlobsWithout, TypeOK, BlobRow
    <3>3. snapshot'[s].deletedAt <= req[p].now
      <4>1. CASE s = t
        BY <2>1, <3>1, <4>1
      <4>2. CASE s # t
        <5>1. snapshot'[s] = snapshot[s] /\ Deleted(s)
          BY <2>1, <4>2 DEF Deleted
        <5>2. req[p].pc = "delCommit" /\ DigestsOf[s] \cap DigestsOf[t] # {}
          BY <1>3, <2>2 DEF CommitDeletion, At
        <5> QED BY <2>1, <5>1, <5>2 DEF GraceInv, DeletersLast
      <4> QED BY <4>1, <4>2
    <3>4. HasRow(d)'
      BY <3>1, <3>2 DEF HasRow
    <3> QED BY <1>a, <3>1, <3>2, <3>3, <3>4
  <2>3. CASE d \notin DigestsOf[t]
    <3>1. blob'[d] = blob[d]
      BY <2>1, <2>3 DEF BlobsWithout
    <3>2. snapshot'[s] = snapshot[s] /\ Deleted(s)
      BY <2>1, <2>3 DEF Deleted
    <3> QED BY <1>c, <3>1, <3>2 DEF HasRow
  <2> QED BY <2>2, <2>3
<1>4. ASSUME NEW g \in Collector, SkipCandidate(g) PROVE Goal
  <2>1. snapshot' = snapshot
    BY <1>4 DEF SkipCandidate
  <2>2. /\ blob'[d].rep = blob[d].rep
        /\ blob'[d].eligible \in {None, blob[d].eligible}
    BY <1>0, <1>4 DEF SkipCandidate, TypeOK, BlobRow
  <2> QED BY <1>c, <2>1, <2>2 DEF HasRow, Deleted
<1>5. ASSUME NEW g \in Collector, CommitCollection(g) PROVE Goal
  <2>1. /\ snapshot' = snapshot /\ g \in Proc
        /\ blob' = [blob EXCEPT ![req[g].digest] = NoRow]
    BY <1>5 DEF CommitCollection, Proc
  <2>2. Deleted(s) /\ snapshot'[s].deletedAt = snapshot[s].deletedAt
    BY <2>1 DEF Deleted
  <2>3. CASE d = req[g].digest
    <3>1. ~HasRow(d)'
      BY <1>0, <2>1, <2>3 DEF NoRow, HasRow, TypeOK
    <3>2. EligibleAt(d, req[g].now) /\ req[g].now <= clock
      BY <1>0, <1>5, <2>3 DEF CommitCollection, At, GraceInv, CollectsEligible,
         TimesPast
    <3>3. HasRow(d) /\ blob[d].eligible \in Nat /\ blob[d].eligible # None
          /\ blob[d].eligible <= req[g].now
      BY <1>a, <3>2 DEF EligibleAt
    <3>4. snapshot'[s].deletedAt + Grace <= blob[d].eligible
      BY <1>b, <2>2, <3>3
    <3> QED BY <1>0, <1>a, <2>1, <3>1, <3>2, <3>3, <3>4
  <2>4. CASE d # req[g].digest
    <3>1. blob'[d] = blob[d]
      BY <1>0, <2>1, <2>4 DEF TypeOK
    <3> QED BY <1>c, <2>2, <3>1 DEF HasRow
  <2> QED BY <2>3, <2>4
<1>6. CASE RecoverCandidates
  <2>1. Deleted(s) /\ snapshot'[s].deletedAt = snapshot[s].deletedAt
    BY <1>6 DEF RecoverCandidates, Deleted
  <2>2. blob'[d] = IF ~HasRow(d) THEN blob[d]
                   ELSE IF Referenced(d) THEN [blob[d] EXCEPT !.eligible = None]
                   ELSE IF blob[d].eligible = None
                        THEN [blob[d] EXCEPT !.eligible = clock + Grace]
                   ELSE blob[d]
    BY <1>6 DEF RecoverCandidates
  <2>3. /\ blob'[d].rep = blob[d].rep
        /\ blob'[d].eligible \in {None, blob[d].eligible, clock + Grace}
    BY <1>0, <2>2 DEF TypeOK, BlobRow
  <2>4. CASE blob'[d].eligible \in {None, blob[d].eligible}
    BY <1>c, <2>1, <2>3, <2>4 DEF HasRow
  <2>5. CASE blob'[d].eligible = clock + Grace
    <3>1. snapshot'[s].deletedAt <= clock
      BY <1>0, <2>1 DEF TimesPast
    <3>2. snapshot'[s].deletedAt + Grace <= clock + Grace
      BY <1>0, <1>a, <3>1
    <3>3. ~HasRow(d)' => snapshot'[s].deletedAt + Grace <= clock'
      BY <1>b, <2>1, <2>3 DEF HasRow
    <3> QED BY <2>5, <3>2, <3>3
  <2> QED BY <2>3, <2>4, <2>5
<1> QED BY <1>0, <1>1, <1>2, <1>3, <1>4, <1>5, <1>6, RowsChange

\* A blob's file is removed only a full grace period after the last deletion
\* that released it, whoever removes it: collector, cleanup or recovery.
THEOREM GraceSafe == ~DetachedUnlink => (Spec => GraceIsHonoured)
<1> SUFFICES ASSUME ~DetachedUnlink PROVE Spec => GraceIsHonoured
  OBVIOUS
<1> DEFINE A == \A d \in files \ files' : \A s \in Upload :
                   d \in DigestsOf[s] =>
                      ~Live(s) /\ (Deleted(s) => snapshot[s].deletedAt + Grace <= clock)
<1>1. Init => StorageInv /\ GraceInv
  <2> SUFFICES ASSUME Init PROVE StorageInv /\ GraceInv
    OBVIOUS
  <2>1. MetadataInv
    BY MetadataInit
  <2>2. \A s \in Upload : ~Live(s) /\ ~Deleted(s)
    BY DEF Init, Live, Deleted, AbsentSnapshot
  <2>3. \A p \in Proc : req[p].pc = "idle"
    BY DEF Init, Idle
  <2>4. StorageInv
    BY <2>1, <2>2, <2>3 DEF Init, PromotedFilesStay, LiveSnapshotsStored, StorageInv,
       Proc
  <2>5. GraceInv
    BY <2>2, <2>3 DEF GraceInv, DeletersHoldBlobs, TimesPast, DeadlinesKept,
       DeletersLast, CollectsEligible, Proc
  <2> QED BY <2>4, <2>5
<1>2. StorageInv /\ GraceInv /\ [Next]_vars => StorageInv' /\ GraceInv'
  <2> SUFFICES ASSUME StorageInv, GraceInv, [Next]_vars PROVE StorageInv' /\ GraceInv'
    OBVIOUS
  <2>1. MetadataInv /\ TypeOK /\ StorageInv'
    BY StorageStep DEF StorageInv, MetadataInv, LockInv
  <2>2. DeletersHoldBlobs' /\ TimesPast'
    BY <2>1, DeletersHoldStep, TimesStep DEF GraceInv
  <2>3. DeadlinesKept' /\ DeletersLast' /\ CollectsEligible'
    BY <2>1, DeadlinesKeptStep, DeletersLastStep, CollectsStep DEF GraceInv
  <2> QED BY <2>1, <2>2, <2>3 DEF GraceInv
<1>3. StorageInv /\ GraceInv /\ [Next]_vars => A
  <2> SUFFICES ASSUME StorageInv, GraceInv, [Next]_vars,
                      NEW d \in files \ files', NEW s \in Upload, d \in DigestsOf[s]
               PROVE  /\ ~Live(s)
                      /\ Deleted(s) => snapshot[s].deletedAt + Grace <= clock
    OBVIOUS
  <2>0. MetadataInv /\ TypeOK /\ detached = {} /\ d \in Digest /\ clock \in Nat
    BY DEF StorageInv, MetadataInv, LockInv, TypeOK
  <2>1. CASE ~HasRow(d)
    <3>1. ~Live(s)
      BY <2>0, <2>1, LiveHasRow
    <3> QED BY <2>0, <2>1, <3>1 DEF GraceInv, DeadlinesKept
  <2>2. ASSUME NEW g \in Collector, UnlinkBlob(g), d = req[g].digest
        PROVE  /\ ~Live(s)
               /\ Deleted(s) => snapshot[s].deletedAt + Grace <= clock
    <3>1. req[g].pc = "gcUnlink" /\ g \in Proc
      BY <2>2 DEF UnlinkBlob, At, Proc
    <3>2. ~Referenced(d)
      BY <2>0, <2>2, <3>1 DEF MetadataInv, CollectorOwnsWriter
    <3>3. ~Live(s)
      BY <3>2 DEF Referenced
    <3>4. EligibleAt(d, req[g].now) /\ req[g].now <= clock
      BY <2>2, <3>1 DEF GraceInv, CollectsEligible, TimesPast
    <3>5. /\ req[g].now \in Nat /\ snapshot[s].deletedAt \in Nat
          /\ blob[d].eligible \in Nat \cup {None} /\ Grace \in Nat
      BY <2>0, <3>1, ConstantsAssumption DEF TypeOK, Request, SnapshotRow, BlobRow
    <3>6. ASSUME Deleted(s) PROVE snapshot[s].deletedAt + Grace <= clock
      <4>1. snapshot[s].deletedAt + Grace <= blob[d].eligible
        BY <2>0, <3>4, <3>6 DEF GraceInv, DeadlinesKept, EligibleAt
      <4>2. blob[d].eligible \in Nat /\ blob[d].eligible <= req[g].now
        BY <3>4, <3>5 DEF EligibleAt
      <4> QED BY <2>0, <3>4, <3>5, <4>1, <4>2
    <3> QED BY <3>3, <3>6
  <2>3. ASSUME NEW u \in Upload, CleanupUnlink(u), d = req[u].digest
        PROVE  ~HasRow(d)
    BY <2>0, <2>3 DEF CleanupUnlink, MetadataInv, CleanupUnreferenced
  <2> QED BY <2>0, <2>1, <2>2, <2>3, FilesVanish
<1> QED BY <1>1, <1>2, <1>3, PTL DEF Spec, GraceIsHonoured
=============================================================================
