--------------------------- MODULE ArchiveProofs ---------------------------
(***************************************************************************)
(* Proofs about Archive, for every set of uploads, manifests, stripes,     *)
(* deleters and collectors: its types, and the striped locks.  They        *)
(* exclude each other, and every request holds, at each of its steps, the  *)
(* stripes its handler has taken by then: LockInv, from which everything   *)
(* else about concurrent requests follows.                                 *)
(***************************************************************************)
EXTENDS Archive, FiniteSetTheorems, WellFoundedInduction, TLAPS

-----------------------------------------------------------------------------
(* Facts about the constants *)

\* Every lock stripe is a number.
LEMMA StripeTypes ==
    /\ \A u \in Upload : UploadStripe[u] \in Nat
    /\ \A f \in Fingerprint : SnapshotStripe[f] \in Nat
    /\ \A d \in Digest : BlobStripe[d] \in Nat
BY ConstantsAssumption

\* What a manifest consists of.
LEMMA ManifestTypes ==
    \A u \in Upload :
        /\ FingerprintOf[u] \in Fingerprint
        /\ SessionOf[FingerprintOf[u]] \in Session
        /\ DigestsOf[u] \subseteq Digest
        /\ \A d \in Digest : RepOf[u][d] \in Rep
BY ConstantsAssumption

\* The tombstone ids are numbers: finitely many uploads are ever deleted.
LEMMA TombstoneType == 1 + Cardinality({t \in Upload : Deleted(t)}) \in Nat
<1>1. IsFiniteSet({t \in Upload : Deleted(t)})
  BY ConstantsAssumption, FS_Subset
<1>2. QED BY <1>1, FS_CardinalityType

-----------------------------------------------------------------------------
(* Type correctness *)

\* A handler's step that assigns well-typed local state keeps every request's
\* type, and touches no other request.
LEMMA UpdateType ==
    ASSUME req \in [Proc -> Request], NEW p \in Proc, NEW r \in Request,
           Update(p, r)
    PROVE  /\ req' \in [Proc -> Request]
           /\ req'[p] = r
           /\ \A q \in Proc \ {p} : req'[q] = req[q]
BY DEF Update

\* The local states the handlers assign are well typed when their fields are.
LEMMA RequestWith ==
    ASSUME NEW r \in Request, NEW pc \in PC,
           NEW T \in SUBSET Digest, NEW C \in SUBSET Digest,
           NEW e \in Digest \cup {None}, NEW n \in Nat,
           pc \in DigestPC => e \in Digest,
           pc \in TargetPC => r.target \in Upload
    PROVE  /\ [r EXCEPT !.todo = T, !.digest = e, !.pc = pc] \in Request
           /\ [r EXCEPT !.pc = pc, !.todo = T, !.digest = e] \in Request
           /\ [r EXCEPT !.pc = pc, !.digest = e, !.todo = T] \in Request
           /\ [r EXCEPT !.pc = pc, !.digest = e] \in Request
           /\ [r EXCEPT !.digest = e, !.pc = pc] \in Request
           /\ pc \notin DigestPC =>
                 /\ [r EXCEPT !.pc = pc] \in Request
                 /\ [r EXCEPT !.pc = pc, !.now = n] \in Request
                 /\ [r EXCEPT !.pc = pc, !.todo = T] \in Request
                 /\ [r EXCEPT !.pc = pc, !.todo = T, !.now = n] \in Request
                 /\ [r EXCEPT !.pc = pc, !.todo = T, !.created = C] \in Request
                 /\ [r EXCEPT !.created = C, !.todo = T, !.pc = pc] \in Request
BY DEF Request

\* The same for a step that chooses a snapshot.
LEMMA RequestWithSnapshot ==
    ASSUME NEW r \in Request, NEW pc \in PC \ DigestPC, NEW s \in Upload,
           NEW T \in SUBSET Digest
    PROVE  /\ [r EXCEPT !.pc = pc, !.target = s] \in Request
           /\ [r EXCEPT !.pc = pc, !.target = s, !.todo = T] \in Request
           /\ pc \notin TargetPC => [r EXCEPT !.pc = pc, !.seen = s] \in Request
BY DEF Request

\* A handler that returns leaves an idle request that holds no lock.
LEMMA FinishType ==
    ASSUME TypeOK, NEW p \in Proc, Finish(p)
    PROVE  /\ req' \in [Proc -> Request]
           /\ held' \in [Proc -> SUBSET Nat]
           /\ req'[p] = Idle
           /\ held'[p] = {}
           /\ \A q \in Proc \ {p} : req'[q] = req[q] /\ held'[q] = held[q]
<1>1. Idle \in Request
  BY DEF Idle, Request, PC, DigestPC, TargetPC, DeletionPC
<1>2. req' = [req EXCEPT ![p] = Idle] /\ held' = [held EXCEPT ![p] = {}]
  BY DEF Finish, Update
<1>3. QED BY <1>1, <1>2 DEF TypeOK

\* Taking a stripe adds it to the holder's set only.
LEMMA AcquireType ==
    ASSUME TypeOK, NEW p \in Proc, NEW l \in Nat, Acquire(p, l)
    PROVE  /\ held' \in [Proc -> SUBSET Nat]
           /\ held'[p] = held[p] \cup {l}
           /\ \A q \in Proc \ {p} : held'[q] = held[q]
BY DEF TypeOK, Acquire

\* Every handler step, crash and recovery step keeps the type of every variable.
LEMMA TypeStep == TypeOK /\ [Next]_vars => TypeOK'
<1> SUFFICES ASSUME TypeOK, [Next]_vars PROVE TypeOK'
  OBVIOUS
<1> USE DEF Proc
<1>a. req \in [Proc -> Request] /\ \A p \in Proc : req[p] \in Request
  BY DEF TypeOK
<1>c. \A r \in Request :
         /\ r.seen \in Upload \cup {None}
         /\ r.target \in Upload \cup {None}
         /\ r.todo \in SUBSET Digest
         /\ r.created \in SUBSET Digest
         /\ r.digest \in Digest \cup {None}
         /\ r.now \in Nat
         /\ r.pc \in PC
         /\ r.pc \in DigestPC => r.digest \in Digest
         /\ r.pc \in TargetPC => r.target \in Upload
  BY DEF Request
<1>d. clock \in Nat
  BY DEF TypeOK
<1>b. ASSUME NEW p \in Proc, NEW pc \in PC, GoTo(p, pc),
             pc \in DigestPC => req[p].digest \in Digest,
             pc \in TargetPC => req[p].target \in Upload
      PROVE  req' \in [Proc -> Request]
  <2>1. [req[p] EXCEPT !.pc = pc] \in Request
    BY <1>a, <1>b DEF Request
  <2>2. QED BY <1>a, <1>b, <2>1, UpdateType DEF GoTo
<1>1. ASSUME NEW u \in Upload, BeginCompletion(u) PROVE TypeOK'
  <2>1. req' \in [Proc -> Request]
    BY <1>1, <1>a, <1>b DEF BeginCompletion, PC, DigestPC, TargetPC,
       CompletionPC, DeletionPC, GcPC
  <2>2. QED
    BY <1>1, <2>1, StripeTypes, ManifestTypes DEF TypeOK, BeginCompletion,
       database, environment, Acquire
<1>2. ASSUME NEW u \in Upload, CheckRepresentations(u) PROVE TypeOK'
  <2>1. CASE Finish(u)
    BY <1>2, <2>1, FinishType DEF CheckRepresentations, TypeOK, database,
       environment
  <2>2. CASE UNCHANGED held /\ (GoTo(u, "lookup") \/ GoTo(u, "recheckLookup"))
    <3>1. req' \in [Proc -> Request]
      BY <1>b, <2>2 DEF PC, DigestPC, TargetPC, CompletionPC, DeletionPC
    <3>2. QED
      BY <1>2, <2>2, <3>1 DEF CheckRepresentations, TypeOK, database,
         environment
  <2>3. QED BY <1>2, <2>1, <2>2 DEF CheckRepresentations
<1>3. ASSUME NEW u \in Upload, LookupFingerprint(u) PROVE TypeOK'
  <2>1. ASSUME NEW s \in LiveWith(FingerprintOf[u]),
               Update(u, [req[u] EXCEPT !.pc = "lockSnapshot", !.seen = s])
        PROVE  req' \in [Proc -> Request]
    <3>1. [req[u] EXCEPT !.pc = "lockSnapshot", !.seen = s] \in Request
      BY <1>a, <1>c, <2>1, RequestWithSnapshot DEF LiveWith, PC, DigestPC,
         TargetPC, CompletionPC, DeletionPC, GcPC
    <3>2. QED BY <1>a, <2>1, <3>1, UpdateType
  <2>2. ASSUME GoTo(u, "lockBlobs") PROVE req' \in [Proc -> Request]
    BY <1>b, <2>2 DEF PC, DigestPC, TargetPC, CompletionPC, DeletionPC
  <2>3. req' \in [Proc -> Request]
    BY <1>3, <2>1, <2>2 DEF LookupFingerprint
  <2>4. held' \in [Proc -> SUBSET Nat]
    BY <1>3 DEF LookupFingerprint, TypeOK
  <2>5. QED
    BY <1>3, <2>3, <2>4 DEF LookupFingerprint, TypeOK, database, environment
<1>4. ASSUME NEW u \in Upload, LockSnapshot(u) PROVE TypeOK'
  <2>1. req' \in [Proc -> Request]
    BY <1>4, <1>a, <1>b DEF LockSnapshot, PC, DigestPC, TargetPC, CompletionPC,
       DeletionPC, GcPC
  <2>2. QED
    BY <1>4, <2>1, StripeTypes, ManifestTypes DEF TypeOK, LockSnapshot,
       database, environment, Acquire
<1>5. ASSUME NEW u \in Upload, GuardedLookup(u) PROVE TypeOK'
  <2>1. ASSUME NEW s \in LiveWith(FingerprintOf[u]),
               Update(u, [req[u] EXCEPT !.pc = "attachGuarded", !.target = s])
        PROVE  req' \in [Proc -> Request]
    <3>1. [req[u] EXCEPT !.pc = "attachGuarded", !.target = s] \in Request
      BY <1>a, <1>c, <2>1, RequestWithSnapshot DEF LiveWith, PC, DigestPC,
         TargetPC, CompletionPC, DeletionPC, GcPC
    <3>2. QED BY <1>a, <2>1, <3>1, UpdateType
  <2>2. ASSUME GoTo(u, "lockBlobs") PROVE req' \in [Proc -> Request]
    BY <1>b, <2>2 DEF PC, DigestPC, TargetPC, CompletionPC, DeletionPC
  <2>3. req' \in [Proc -> Request]
    BY <1>5, <2>1, <2>2 DEF GuardedLookup
  <2>4. held' \in [Proc -> SUBSET Nat]
    BY <1>5 DEF GuardedLookup, TypeOK
  <2>5. QED
    BY <1>5, <2>3, <2>4 DEF GuardedLookup, TypeOK, database, environment
<1>6. ASSUME NEW u \in Upload, LockBlobs(u) PROVE TypeOK'
  <2>1. PICK l \in BlobLocks(DigestsOf[u]) \ held[u] :
           /\ Acquire(u, l)
           /\ Update(u, [req[u] EXCEPT !.pc =
                     IF BlobLocks(DigestsOf[u]) \subseteq held[u] \cup {l}
                     THEN "recheckBlobs" ELSE @])
    BY <1>6 DEF LockBlobs, AcquireNextBlobLock
  <2>2. req' \in [Proc -> Request]
    <3>1. ASSUME NEW pc \in PC, pc \notin DigestPC,
                 pc \in TargetPC => req[u].target \in Upload
          PROVE  [req[u] EXCEPT !.pc = pc] \in Request
      BY <1>a, <1>c, <3>1, RequestWith
    <3>2. QED
      BY <1>6, <1>a, <2>1, <3>1, UpdateType DEF LockBlobs, At, PC, DigestPC,
         TargetPC, CompletionPC, DeletionPC, GcPC
  <2>3. l \in Nat
    BY StripeTypes, ManifestTypes DEF BlobLocks
  <2>4. QED
    BY <1>6, <2>1, <2>2, <2>3, AcquireType DEF LockBlobs, TypeOK, database,
       environment
<1>7. ASSUME NEW u \in Upload, RecheckFingerprint(u) PROVE TypeOK'
  <2>1. ASSUME NEW s \in LiveWith(FingerprintOf[u]),
               Update(u, [req[u] EXCEPT !.pc = "attachRechecked", !.target = s])
        PROVE  req' \in [Proc -> Request]
    <3>1. [req[u] EXCEPT !.pc = "attachRechecked", !.target = s] \in Request
      BY <1>a, <1>c, <2>1, RequestWithSnapshot DEF LiveWith, PC, DigestPC,
         TargetPC, CompletionPC, DeletionPC, GcPC
    <3>2. QED BY <1>a, <2>1, <3>1, UpdateType
  <2>2. ASSUME Update(u, [req[u] EXCEPT !.pc = "promote", !.todo = DigestsOf[u]])
        PROVE  req' \in [Proc -> Request]
    <3>1. [req[u] EXCEPT !.pc = "promote", !.todo = DigestsOf[u]] \in Request
      BY <1>a, <1>c, ManifestTypes, RequestWith DEF PC, DigestPC, TargetPC,
         CompletionPC, DeletionPC, GcPC
    <3>2. QED BY <1>a, <2>2, <3>1, UpdateType
  <2>3. req' \in [Proc -> Request]
    BY <1>7, <2>1, <2>2 DEF RecheckFingerprint
  <2>4. held' \in [Proc -> SUBSET Nat]
    BY <1>7 DEF RecheckFingerprint, TypeOK
  <2>5. QED
    BY <1>7, <2>3, <2>4 DEF RecheckFingerprint, TypeOK, database, environment
<1>8. ASSUME NEW u \in Upload, AttachToExisting(u) PROVE TypeOK'
  <2>1. /\ latest' \in [Session -> Upload \cup {None}]
        /\ capture' \in [Upload -> Upload \cup {None}]
    BY <1>8, <1>a DEF AttachToExisting, TypeOK, Request
  <2>2. CASE Finish(u)
    BY <1>8, <2>1, <2>2, FinishType DEF AttachToExisting, TypeOK, database,
       environment
  <2>3. CASE /\ UNCHANGED held
             /\ Update(u, [req[u] EXCEPT !.pc = "cleanup",
                                         !.todo = req[u].created])
    <3>1. [req[u] EXCEPT !.pc = "cleanup", !.todo = req[u].created] \in Request
      BY <1>a, <1>c, RequestWith DEF PC, DigestPC, TargetPC, CompletionPC,
         DeletionPC
    <3>2. req' \in [Proc -> Request]
      BY <1>a, <2>3, <3>1, UpdateType
    <3>3. QED
      BY <1>8, <2>1, <2>3, <3>2 DEF AttachToExisting, TypeOK, database,
         environment
  <2>4. QED BY <1>8, <2>2, <2>3 DEF AttachToExisting
<1>9. ASSUME NEW u \in Upload, PromoteBlob(u) PROVE TypeOK'
  <2>1. PICK d \in req[u].todo :
           files' = files \cup {d} /\ Update(u, [req[u] EXCEPT
              !.created = IF d \in files THEN @ ELSE @ \cup {d},
              !.todo = @ \ {d},
              !.pc = IF req[u].todo = {d} THEN "stamp" ELSE @])
    BY <1>9 DEF PromoteBlob
  <2>2. d \in Digest
    BY <1>a, <1>c
  <2>3. ASSUME NEW pc \in PC \ (DigestPC \cup TargetPC), NEW C \in SUBSET Digest,
               NEW T \in SUBSET Digest
        PROVE  [req[u] EXCEPT !.created = C, !.todo = T, !.pc = pc] \in Request
    BY <1>a, <1>c, RequestWith
  <2>4. {req[u].pc, "stamp"} \subseteq PC \ (DigestPC \cup TargetPC)
    BY <1>9 DEF PromoteBlob, At, PC, DigestPC, TargetPC, CompletionPC,
       DeletionPC, GcPC
  <2>5. req[u].created \in SUBSET Digest /\ req[u].todo \in SUBSET Digest
    BY <1>a, <1>c
  <2>6. req' \in [Proc -> Request]
    BY <1>a, <2>1, <2>2, <2>3, <2>4, <2>5, UpdateType
  <2>7. QED
    BY <1>9, <2>1, <2>2, <2>6 DEF PromoteBlob, TypeOK, database, environment
<1>10. ASSUME NEW u \in Upload, StampCompletion(u) PROVE TypeOK'
  <2>1. [req[u] EXCEPT !.pc = "record", !.now = clock] \in Request
    BY <1>a, <1>c, <1>d, RequestWith DEF PC, DigestPC, TargetPC, CompletionPC,
       DeletionPC, GcPC
  <2>2. req' \in [Proc -> Request]
    BY <1>10, <1>a, <2>1, UpdateType DEF StampCompletion
  <2>3. QED
    BY <1>10, <2>2 DEF TypeOK, StampCompletion, database, environment
<1>11. ASSUME NEW u \in Upload, RecordCompletion(u) PROVE TypeOK'
  <2>1. CASE GoTo(u, "loser") /\ UNCHANGED <<snapshot, blob, capture, latest, held>>
    <3>1. req' \in [Proc -> Request]
      BY <1>b, <2>1 DEF PC, DigestPC, TargetPC, CompletionPC, DeletionPC
    <3>2. QED
      BY <1>11, <2>1, <3>1 DEF RecordCompletion, TypeOK, environment
  <2>2. CASE Finish(u) /\ LiveWith(FingerprintOf[u]) = {}
    <3>1. PICK prior \in Upload \cup {None} : snapshot' = SnapshotsWith(u, prior)
      BY <1>11, <2>1, <2>2 DEF RecordCompletion, PriorTombstone
    <3>2. snapshot' \in [Upload -> SnapshotRow]
      <4>1. req[u].now \in Nat
        BY <1>a, <1>c
      <4>2. [AbsentSnapshot EXCEPT !.state = "live", !.completedAt = req[u].now,
                                   !.from = prior] \in SnapshotRow
        BY <4>1 DEF AbsentSnapshot, SnapshotRow
      <4>3. \A s \in Upload : [snapshot[s] EXCEPT !.rearchived = u] \in SnapshotRow
        BY DEF TypeOK, SnapshotRow
      <4>4. QED BY <3>1, <4>2, <4>3 DEF SnapshotsWith, TypeOK
    <3>3. blob' \in [Digest -> BlobRow]
      BY <1>11, <2>2, ManifestTypes DEF RecordCompletion, BlobsWith, BlobRow,
         TypeOK
    <3>4. capture' \in [Upload -> Upload \cup {None}]
      BY <1>11, <2>2 DEF RecordCompletion, TypeOK
    <3>5. latest' \in [Session -> Upload \cup {None}]
      BY <1>11, <2>2 DEF RecordCompletion, TypeOK
    <3>6. QED
      BY <1>11, <2>2, <3>2, <3>3, <3>4, <3>5, FinishType
         DEF RecordCompletion, TypeOK, environment
  <2>3. QED BY <1>11, <2>1, <2>2 DEF RecordCompletion
<1>12. ASSUME NEW u \in Upload, FetchWinner(u) PROVE TypeOK'
  <2>1. ASSUME NEW s \in LiveWith(FingerprintOf[u]),
               Update(u, [req[u] EXCEPT !.pc = "loserCleanup", !.target = s,
                                  !.todo = req[u].created])
        PROVE  req' \in [Proc -> Request]
    <3>1. [req[u] EXCEPT !.pc = "loserCleanup", !.target = s,
                                  !.todo = req[u].created] \in Request
      BY <1>a, <1>c, <2>1, RequestWithSnapshot DEF LiveWith, PC, DigestPC,
         TargetPC, CompletionPC, DeletionPC, GcPC
    <3>2. QED BY <1>a, <2>1, <3>1, UpdateType
  <2>2. ASSUME Update(u, [req[u] EXCEPT !.pc = "cleanup", !.todo = req[u].created])
        PROVE  req' \in [Proc -> Request]
    <3>1. [req[u] EXCEPT !.pc = "cleanup", !.todo = req[u].created] \in Request
      BY <1>a, <1>c, RequestWith DEF PC, DigestPC, TargetPC, CompletionPC,
         DeletionPC, GcPC
    <3>2. QED BY <1>a, <2>2, <3>1, UpdateType
  <2>3. req' \in [Proc -> Request]
    BY <1>12, <2>1, <2>2 DEF FetchWinner
  <2>4. held' \in [Proc -> SUBSET Nat]
    BY <1>12 DEF FetchWinner, TypeOK
  <2>5. QED BY <1>12, <2>3, <2>4 DEF FetchWinner, TypeOK, database, environment
<1>13. ASSUME NEW u \in Upload, CleanupCheck(u) PROVE TypeOK'
  <2>1. PICK d \in req[u].todo, e \in Digest \cup {None}, pc \in PC :
           /\ Update(u, [req[u] EXCEPT !.todo = @ \ {d}, !.digest = e, !.pc = pc])
           /\ pc \in DigestPC => e \in Digest
           /\ pc \in TargetPC => req[u].pc = "loserCleanup"
    <3>1. PICK d \in req[u].todo : Update(u, [req[u] EXCEPT
             !.todo = @ \ {d},
             !.digest = IF HasRow(d) THEN @ ELSE d,
             !.pc = IF HasRow(d) THEN @
                    ELSE IF @ = "cleanup" THEN "cleanupUnlink" ELSE "loserUnlink"])
      BY <1>13 DEF CleanupCheck
    <3>2. d \in Digest /\ req[u].digest \in Digest \cup {None}
      BY <1>a, <1>c
    <3>3. CASE HasRow(d)
      <4>1. Update(u, [req[u] EXCEPT !.todo = @ \ {d}, !.digest = req[u].digest,
                                     !.pc = req[u].pc])
        BY <3>1, <3>3
      <4>2. /\ req[u].pc \in PC \ DigestPC
            /\ req[u].pc \in TargetPC => req[u].pc = "loserCleanup"
        BY <1>13 DEF CleanupCheck, PC, DigestPC, TargetPC, CompletionPC,
           DeletionPC
      <4>3. QED BY <3>2, <4>1, <4>2
    <3>4. CASE ~HasRow(d)
      <4>1. PICK pc \in {"cleanupUnlink", "loserUnlink"} :
               /\ Update(u, [req[u] EXCEPT !.todo = @ \ {d}, !.digest = d,
                                           !.pc = pc])
               /\ pc = "loserUnlink" => req[u].pc = "loserCleanup"
        BY <1>13, <3>1, <3>4 DEF CleanupCheck
      <4>2. pc \in PC /\ (pc \in TargetPC => req[u].pc = "loserCleanup")
        BY <4>1 DEF PC, TargetPC, CompletionPC, DeletionPC
      <4>3. QED BY <3>2, <4>1, <4>2
    <3>5. QED BY <3>3, <3>4
  <2>2. pc \in TargetPC => req[u].target \in Upload
    BY <1>a, <1>c, <2>1 DEF TargetPC
  <2>3. req[u].todo \ {d} \in SUBSET Digest
    BY <1>a, <1>c
  <2>4. [req[u] EXCEPT !.todo = @ \ {d}, !.digest = e, !.pc = pc] \in Request
    BY <1>a, <1>c, <2>1, <2>2, <2>3, RequestWith
  <2>5. req' \in [Proc -> Request]
    BY <1>a, <2>1, <2>4, UpdateType
  <2>6. QED
    BY <1>13, <2>5 DEF CleanupCheck, TypeOK, database, environment
<1>14. ASSUME NEW u \in Upload, CleanupUnlink(u) PROVE TypeOK'
  <2>1. PICK pc \in {"cleanup", "loserCleanup"} :
           /\ Update(u, [req[u] EXCEPT !.digest = None, !.pc = pc])
           /\ pc = "loserCleanup" => req[u].pc = "loserUnlink"
    BY <1>14 DEF CleanupUnlink
  <2>2. pc \in PC \ DigestPC /\ (pc \in TargetPC => req[u].target \in Upload)
    BY <1>a, <1>c, <2>1 DEF PC, DigestPC, TargetPC, CompletionPC, DeletionPC
  <2>3. [req[u] EXCEPT !.digest = None, !.pc = pc] \in Request
    BY <1>a, <1>c, <2>2, RequestWith
  <2>4. req' \in [Proc -> Request]
    BY <1>a, <2>1, <2>3, UpdateType
  <2>5. QED
    BY <1>14, <2>4 DEF CleanupUnlink, TypeOK, database, environment
<1>15. ASSUME NEW u \in Upload, CleanupDone(u) PROVE TypeOK'
  <2>1. CASE Finish(u)
    BY <1>15, <2>1, FinishType DEF CleanupDone, TypeOK, database, environment
  <2>2. CASE GoTo(u, "attachLoser") /\ UNCHANGED held
    <3>1. req' \in [Proc -> Request]
      <4>1. CASE At(u, "loserCleanup")
        BY <1>a, <1>b, <1>c, <2>2, <4>1 DEF At, PC, DigestPC, TargetPC,
           CompletionPC, DeletionPC, GcPC
      <4>2. CASE Finish(u)
        BY <4>2, FinishType
      <4>3. QED BY <1>15, <4>1, <4>2 DEF CleanupDone
    <3>2. QED
      BY <1>15, <2>2, <3>1 DEF CleanupDone, TypeOK, database, environment
  <2>3. QED BY <1>15, <2>1, <2>2 DEF CleanupDone
<1>16. ASSUME NEW u \in Upload, PromotionFails(u) PROVE TypeOK'
  <2>1. PICK d \in req[u].todo :
           /\ files' \in {files, files \cup {d}}
           /\ Update(u, [req[u] EXCEPT !.pc = "cleanup",
                                       !.todo = req[u].created \cup {d},
                                       !.created = @ \cup {d}])
    BY <1>16 DEF PromotionFails
  <2>2. d \in Digest
    BY <1>a, <1>c
  <2>3. [req[u] EXCEPT !.pc = "cleanup", !.todo = req[u].created \cup {d},
                       !.created = @ \cup {d}] \in Request
    <3>1. req[u].created \cup {d} \in SUBSET Digest
      BY <1>a, <1>c, <2>2
    <3>2. "cleanup" \in PC \ (DigestPC \cup TargetPC)
      BY DEF PC, DigestPC, TargetPC, CompletionPC, DeletionPC
    <3>3. QED BY <1>a, <1>c, <3>1, <3>2, RequestWith
  <2>4. req' \in [Proc -> Request]
    BY <1>a, <2>1, <2>3, UpdateType
  <2>5. QED
    BY <1>16, <2>1, <2>2, <2>4 DEF PromotionFails, TypeOK, database,
       environment
<1>17. ASSUME NEW u \in Upload, RecordingFails(u) PROVE TypeOK'
  <2>1. [req[u] EXCEPT !.pc = "cleanup", !.todo = req[u].created,
                       !.digest = None] \in Request
    BY <1>a, <1>c, <1>d, RequestWith DEF PC, DigestPC, TargetPC, CompletionPC,
       DeletionPC, GcPC
  <2>2. req' \in [Proc -> Request]
    BY <1>17, <1>a, <2>1, UpdateType DEF RecordingFails
  <2>3. QED
    BY <1>17, <2>2 DEF TypeOK, RecordingFails, database, environment
<1>18. ASSUME NEW p \in Deleter, RequestDeletion(p) PROVE TypeOK'
  <2>1. PICK s \in Upload :
           Update(p, [req[p] EXCEPT !.pc = "delLockSnapshot", !.target = s])
    BY <1>18 DEF RequestDeletion
  <2>2. [req[p] EXCEPT !.pc = "delLockSnapshot", !.target = s] \in Request
    BY <1>a, <1>c, RequestWithSnapshot DEF PC, DigestPC, TargetPC,
       CompletionPC, DeletionPC, GcPC
  <2>3. req' \in [Proc -> Request]
    BY <1>a, <2>1, <2>2, UpdateType
  <2>4. QED
    BY <1>18, <2>3 DEF RequestDeletion, TypeOK, database, environment
<1>19. ASSUME NEW p \in Deleter, DeletionLocksSnapshot(p) PROVE TypeOK'
  <2>1. req[p].target \in Upload
    BY <1>19, <1>a, <1>c DEF DeletionLocksSnapshot, At, TargetPC, DeletionPC
  <2>2. req' \in [Proc -> Request]
    BY <1>19, <1>b, <2>1 DEF DeletionLocksSnapshot, PC, DigestPC, TargetPC,
       DeletionPC
  <2>3. QED
    BY <1>19, <2>1, <2>2, StripeTypes, ManifestTypes, AcquireType
       DEF DeletionLocksSnapshot, TypeOK, database, environment
<1>20. ASSUME NEW p \in Deleter, DeletionRechecks(p) PROVE TypeOK'
  <2>1. CASE Finish(p)
    BY <1>20, <2>1, FinishType DEF DeletionRechecks, TypeOK, database,
       environment
  <2>2. CASE GoTo(p, "delLockBlobs") /\ UNCHANGED held
    <3>1. req' \in [Proc -> Request]
      BY <1>20, <1>a, <1>b, <1>c, <2>2 DEF DeletionRechecks, Finish, Update,
         At, PC, DigestPC, TargetPC, CompletionPC, DeletionPC, GcPC
    <3>2. QED
      BY <1>20, <2>2, <3>1 DEF DeletionRechecks, TypeOK, database, environment
  <2>3. QED BY <1>20, <2>1, <2>2 DEF DeletionRechecks
<1>21. ASSUME NEW p \in Deleter, DeletionLocksBlobs(p) PROVE TypeOK'
  <2>0. req[p].target \in Upload
    BY <1>21, <1>a, <1>c DEF DeletionLocksBlobs, At, TargetPC, DeletionPC
  <2>1. PICK l \in BlobLocks(DigestsOf[req[p].target]) \ held[p] :
           /\ Acquire(p, l)
           /\ Update(p, [req[p] EXCEPT !.pc =
                     IF BlobLocks(DigestsOf[req[p].target]) \subseteq held[p] \cup {l}
                     THEN "delStamp" ELSE @])
    BY <1>21 DEF DeletionLocksBlobs, AcquireNextBlobLock
  <2>2. req' \in [Proc -> Request]
    <3>1. ASSUME NEW pc \in PC, pc \notin DigestPC,
                 pc \in TargetPC => req[p].target \in Upload
          PROVE  [req[p] EXCEPT !.pc = pc] \in Request
      BY <1>a, <1>c, <3>1, RequestWith
    <3>2. {"delLockBlobs", "delStamp"} \subseteq PC \ DigestPC
      BY DEF PC, DigestPC, DeletionPC
    <3>3. QED
      BY <1>21, <1>a, <2>0, <2>1, <3>1, <3>2, UpdateType DEF
         DeletionLocksBlobs, At
  <2>3. l \in Nat
    BY <2>0, StripeTypes, ManifestTypes DEF BlobLocks
  <2>4. QED
    BY <1>21, <2>1, <2>2, <2>3, AcquireType DEF DeletionLocksBlobs, TypeOK,
       database,
       environment
<1>22. ASSUME NEW p \in Deleter, StampDeletion(p) PROVE TypeOK'
  <2>0. req[p].target \in Upload
    BY <1>22, <1>a, <1>c DEF StampDeletion, At, TargetPC, DeletionPC
  <2>1. [req[p] EXCEPT !.pc = "delCommit", !.now = clock] \in Request
    BY <1>a, <1>c, <1>d, <2>0, RequestWith DEF PC, DigestPC, TargetPC,
       CompletionPC, DeletionPC, GcPC
  <2>2. req' \in [Proc -> Request]
    BY <1>22, <1>a, <2>1, UpdateType DEF StampDeletion
  <2>3. QED
    BY <1>22, <2>2 DEF TypeOK, StampDeletion, database, environment
<1>23. ASSUME NEW p \in Deleter, CommitDeletion(p) PROVE TypeOK'
  <2>1. CASE ~Live(req[p].target)
    BY <1>23, <2>1, FinishType DEF CommitDeletion, TypeOK, environment
  <2>2. CASE Live(req[p].target)
    <3>1. snapshot' \in [Upload -> SnapshotRow]
      BY <1>23, <1>a, <2>2, TombstoneType DEF CommitDeletion, TypeOK,
         SnapshotRow, Request
    <3>2. req[p].now + Grace \in Nat
      BY <1>a, ConstantsAssumption DEF Request
    <3>3. blob' \in [Digest -> BlobRow]
      BY <1>23, <2>2, <3>2 DEF CommitDeletion, BlobsWithout, BlobRow, TypeOK
    <3>4. latest' \in [Session -> Upload \cup {None}]
      BY <1>23, <2>2 DEF CommitDeletion, Newest, LiveIn, TypeOK
    <3>5. QED
      BY <1>23, <3>1, <3>3, <3>4, FinishType DEF CommitDeletion, TypeOK,
         environment
  <2>3. QED BY <2>1, <2>2
<1>24. ASSUME NEW g \in Collector, BeginCollection(g) PROVE TypeOK'
  <2>1. PICK S \in SUBSET Digest :
           Update(g, [req[g] EXCEPT !.pc = "gcNext", !.todo = S, !.now = clock])
    BY <1>24 DEF BeginCollection
  <2>2. [req[g] EXCEPT !.pc = "gcNext", !.todo = S, !.now = clock] \in Request
    BY <1>a, <1>c, <1>d, RequestWith DEF PC, DigestPC, TargetPC, CompletionPC,
       DeletionPC, GcPC
  <2>3. req' \in [Proc -> Request]
    BY <1>a, <2>1, <2>2, UpdateType
  <2>4. QED
    BY <1>24, <2>3 DEF BeginCollection, TypeOK, database, environment
<1>25. ASSUME NEW g \in Collector, LockCandidate(g) PROVE TypeOK'
  <2>1. PICK d \in req[g].todo : 
         /\ Acquire(g, BlobStripe[d])
         /\ Update(g, [req[g] EXCEPT !.pc = "gcCheck", !.digest = d, !.todo = @ \ {d}])
    BY <1>25 DEF LockCandidate
  <2>2. d \in Digest /\ BlobStripe[d] \in Nat
    BY <1>a, <1>c, StripeTypes
  <2>3. [req[g] EXCEPT !.pc = "gcCheck", !.digest = d, !.todo = @ \ {d}] \in Request
    BY <1>a, <1>c, <2>2, RequestWith DEF PC, DigestPC, TargetPC, CompletionPC,
       DeletionPC, GcPC
  <2>4. req' \in [Proc -> Request]
    BY <1>a, <2>1, <2>3, UpdateType
  <2>5. held' \in [Proc -> SUBSET Nat]
    BY <2>1, <2>2, AcquireType
  <2>6. QED
    BY <1>25, <2>4, <2>5 DEF LockCandidate, TypeOK, database, environment
<1>26. ASSUME NEW g \in Collector, SkipCandidate(g) PROVE TypeOK'
  <2>1. [req[g] EXCEPT !.pc = "gcNext", !.digest = None] \in Request
    BY <1>a, <1>c, RequestWith DEF PC, DigestPC, TargetPC, CompletionPC,
       DeletionPC, GcPC
  <2>2. req' \in [Proc -> Request]
    BY <1>26, <1>a, <2>1, UpdateType DEF SkipCandidate
  <2>3. blob' \in [Digest -> BlobRow]
    BY <1>26 DEF SkipCandidate, TypeOK, BlobRow
  <2>4. QED
    BY <1>26, <2>2, <2>3 DEF SkipCandidate, TypeOK, environment
<1>27. ASSUME NEW g \in Collector, DeleteRow(g) PROVE TypeOK'
  <2>1. req[g].digest \in Digest
    BY <1>27, <1>a DEF DeleteRow, At, Request, DigestPC
  <2>2. req' \in [Proc -> Request]
    BY <1>27, <1>b, <2>1 DEF DeleteRow, PC, DigestPC, TargetPC, CompletionPC,
       DeletionPC, GcPC
  <2>3. QED BY <1>27, <2>2 DEF DeleteRow, TypeOK, environment
<1>28. ASSUME NEW g \in Collector, UnlinkBlob(g) PROVE TypeOK'
  <2>1. req[g].digest \in Digest
    BY <1>28, <1>a DEF UnlinkBlob, At, Request, DigestPC
  <2>2. req' \in [Proc -> Request]
    BY <1>28, <1>b, <2>1 DEF UnlinkBlob, PC, DigestPC, TargetPC, CompletionPC,
       DeletionPC, GcPC
  <2>3. QED BY <1>28, <2>2 DEF UnlinkBlob, TypeOK, database, environment
<1>29. ASSUME NEW g \in Collector, CommitCollection(g) PROVE TypeOK'
  <2>1. [req[g] EXCEPT !.pc = "gcNext", !.digest = None] \in Request
    BY <1>a, <1>c, RequestWith DEF PC, DigestPC, TargetPC, CompletionPC,
       DeletionPC, GcPC
  <2>2. req' \in [Proc -> Request]
    BY <1>29, <1>a, <2>1, UpdateType DEF CommitCollection
  <2>3. blob' \in [Digest -> BlobRow]
    BY <1>29 DEF CommitCollection, TypeOK, BlobRow, NoRow
  <2>4. QED
    BY <1>29, <2>2, <2>3 DEF CommitCollection, TypeOK, environment
<1>30. ASSUME NEW g \in Collector, FinishCollection(g) PROVE TypeOK'
  BY <1>30, FinishType DEF FinishCollection, TypeOK, database, environment
<1>31. ASSUME NEW q \in Proc, Abandon(q) PROVE TypeOK'
  BY <1>31, FinishType DEF Abandon, TypeOK, environment
<1>32. ASSUME NEW q \in Proc, AbandonDuringUnlink(q) PROVE TypeOK'
  <2>1. req[q].digest \in Digest
    BY <1>32, <1>a DEF AbandonDuringUnlink, Request, DigestPC
  <2>2. QED
    BY <1>32, <2>1, FinishType DEF AbandonDuringUnlink, TypeOK, environment
<1>33. CASE DetachedUnlinkRuns
  BY <1>33 DEF DetachedUnlinkRuns, TypeOK, database, environment
<1>34. CASE Crash
  <2>1. Idle \in Request
    BY DEF Idle, Request, PC, DigestPC, TargetPC, DeletionPC
  <2>2. QED BY <1>34, <2>1 DEF Crash, TypeOK
<1>35. CASE RecoverContext
  BY <1>35 DEF RecoverContext, TypeOK, database, environment
<1>36. CASE RecoverCandidates
  <2>1. clock + Grace \in Nat
    BY ConstantsAssumption DEF TypeOK
  <2>2. \A d \in Digest : blob'[d] \in BlobRow
    BY <1>36, <2>1 DEF RecoverCandidates, TypeOK, BlobRow
  <2>3. QED BY <1>36, <2>2 DEF RecoverCandidates, TypeOK
<1>37. CASE SweepFile
  BY <1>37 DEF SweepFile, TypeOK, database, environment
<1>38. CASE Serve
  BY <1>38 DEF Serve, TypeOK, database, environment
<1>39. CASE Tick
  BY <1>39 DEF Tick, TypeOK, database, environment
<1>40. CASE UNCHANGED vars
  BY <1>40 DEF vars, TypeOK
<1> QED
  BY <1>1, <1>2, <1>3, <1>4, <1>5, <1>6, <1>7, <1>8, <1>9, <1>10, <1>11,
     <1>12, <1>13, <1>14, <1>15, <1>16, <1>17, <1>18, <1>19, <1>20,
     <1>21, <1>22, <1>23, <1>24, <1>25, <1>26, <1>27, <1>28, <1>29,
     <1>30, <1>31, <1>32, <1>33, <1>34, <1>35, <1>36, <1>37, <1>38,
     <1>39, <1>40 DEF Next, CompletionStep, DeletionStep, CollectionStep

\* The empty archive is well typed.
LEMMA InitType == Init => TypeOK
<1> SUFFICES ASSUME Init PROVE TypeOK
  OBVIOUS
<1>1. AbsentSnapshot \in SnapshotRow
  BY DEF AbsentSnapshot, SnapshotRow
<1>2. NoRow \in BlobRow
  BY DEF NoRow, BlobRow
<1>3. Idle \in Request
  BY DEF Idle, Request, PC, DigestPC, TargetPC, DeletionPC
<1>4. QED BY <1>1, <1>2, <1>3 DEF Init, TypeOK

\* Every variable has its type in every reachable state; in particular a request
\* that unlinks knows its digest and one that attaches or deletes its snapshot.
THEOREM TypeCorrect == Spec => []TypeOK
BY InitType, TypeStep, PTL DEF Spec

-----------------------------------------------------------------------------
(* What the steps with several outcomes leave in the request *)

\* The unguarded lookup moves on to the identity lock or to the blob locks.
LEMMA LookupEffect ==
    ASSUME TypeOK, NEW u \in Upload, LookupFingerprint(u)
    PROVE  /\ req'[u].pc \in {"lockSnapshot", "lockBlobs"}
           /\ req'[u].todo = req[u].todo
           /\ req'[u].created = req[u].created
<1>1. u \in Proc /\ req \in [Proc -> Request]
  BY DEF Proc, TypeOK
<1>2. CASE \E s \in LiveWith(FingerprintOf[u]) :
             Update(u, [req[u] EXCEPT !.pc = "lockSnapshot", !.seen = s])
  BY <1>1, <1>2 DEF Update, Request
<1>3. CASE GoTo(u, "lockBlobs")
  BY <1>1, <1>3 DEF Update, Request, GoTo
<1>4. QED BY <1>2, <1>3 DEF LookupFingerprint

\* The guarded lookup attaches to a snapshot that is live now, or moves on.
LEMMA GuardedEffect ==
    ASSUME TypeOK, NEW u \in Upload, GuardedLookup(u)
    PROVE  /\ req'[u].pc \in {"attachGuarded", "lockBlobs"}
           /\ req'[u].todo = req[u].todo
           /\ req'[u].created = req[u].created
           /\ req'[u].pc = "attachGuarded" =>
                 /\ held' = held
                 /\ req'[u].target \in LiveWith(FingerprintOf[u])
<1>1. u \in Proc /\ req \in [Proc -> Request]
  BY DEF Proc, TypeOK
<1>2. CASE /\ UNCHANGED held
          /\ \E s \in LiveWith(FingerprintOf[u]) :
             Update(u, [req[u] EXCEPT !.pc = "attachGuarded", !.target = s])
  BY <1>1, <1>2 DEF Update, Request
<1>3. CASE GoTo(u, "lockBlobs")
  BY <1>1, <1>3 DEF Update, Request, GoTo
<1>4. QED BY <1>2, <1>3 DEF GuardedLookup

\* The recheck attaches to a snapshot that is live now, or promotes it all.
LEMMA RecheckEffect ==
    ASSUME TypeOK, NEW u \in Upload, RecheckFingerprint(u)
    PROVE  /\ req'[u].pc \in {"attachRechecked", "promote"}
           /\ req'[u].todo \in {req[u].todo, DigestsOf[u]}
           /\ req'[u].created = req[u].created
           /\ req'[u].pc = "attachRechecked" =>
                 req'[u].target \in LiveWith(FingerprintOf[u])
           /\ req'[u].pc = "promote" => req'[u].todo = DigestsOf[u]
<1>1. u \in Proc /\ req \in [Proc -> Request]
  BY DEF Proc, TypeOK
<1>2. CASE \E s \in LiveWith(FingerprintOf[u]) :
             Update(u, [req[u] EXCEPT !.pc = "attachRechecked", !.target = s])
  BY <1>1, <1>2 DEF Update, Request
<1>3. CASE Update(u, [req[u] EXCEPT !.pc = "promote", !.todo = DigestsOf[u]])
  BY <1>1, <1>3 DEF Update, Request
<1>4. QED BY <1>2, <1>3 DEF RecheckFingerprint

\* A loser cleans up what it created, the winner in hand if it is still live.
LEMMA FetchEffect ==
    ASSUME TypeOK, NEW u \in Upload, FetchWinner(u)
    PROVE  /\ req'[u].pc \in {"loserCleanup", "cleanup"}
           /\ req'[u].todo = req[u].created
           /\ req'[u].created = req[u].created
           /\ req'[u].pc = "loserCleanup" =>
                 req'[u].target \in LiveWith(FingerprintOf[u])
<1>1. u \in Proc /\ req \in [Proc -> Request]
  BY DEF Proc, TypeOK
<1>2. CASE \E s \in LiveWith(FingerprintOf[u]) :
             Update(u, [req[u] EXCEPT !.pc = "loserCleanup", !.target = s,
                                      !.todo = req[u].created])
  BY <1>1, <1>2 DEF Update, Request
<1>3. CASE Update(u, [req[u] EXCEPT !.pc = "cleanup",
                                    !.todo = req[u].created])
  BY <1>1, <1>3 DEF Update, Request
<1>4. QED BY <1>2, <1>3 DEF FetchWinner

\* An attachment ends the request, or sends a loser to its cleanup.
LEMMA AttachEffect ==
    ASSUME TypeOK, NEW u \in Upload, AttachToExisting(u)
    PROVE  /\ req'[u].pc \in {"idle", "cleanup"}
           /\ req'[u].todo \in {{}, req[u].created}
           /\ req'[u].created \in {{}, req[u].created}
           /\ req'[u].pc = "cleanup" => held' = held /\ req[u].pc = "attachLoser"
<1>1. u \in Proc /\ req \in [Proc -> Request]
  BY DEF Proc, TypeOK
<1>2. CASE Finish(u)
  BY <1>1, <1>2 DEF Update, Request, Finish, Idle, At
<1>3. CASE /\ UNCHANGED held /\ At(u, "attachLoser")
             /\ Update(u, [req[u] EXCEPT !.pc = "cleanup",
                                         !.todo = req[u].created])
  BY <1>1, <1>3 DEF Update, Request, Finish, Idle, At
<1>4. QED BY <1>2, <1>3 DEF AttachToExisting

-----------------------------------------------------------------------------
(* The locks *)

\* All the locks there are.
Stripes ==
    {UploadStripe[u] : u \in Upload} \cup {SnapshotStripe[f] : f \in Fingerprint}
       \cup {BlobStripe[d] : d \in Digest}

\* A step releases stripes, or one request takes one free stripe.
LEMMA HeldStep ==
    ASSUME TypeOK, [Next]_vars
    PROVE  \/ \A q \in Proc : held'[q] \subseteq held[q]
           \/ \E p \in Proc, l \in Stripes : Acquire(p, l)
<1> DEFINE Goal == \/ \A q \in Proc : held'[q] \subseteq held[q]
                   \/ \E p \in Proc, l \in Stripes : Acquire(p, l)
<1>1. ASSUME NEW u \in Upload, BeginCompletion(u) PROVE Goal
  BY <1>1, ManifestTypes DEF Stripes, BeginCompletion, TypeOK, Proc
<1>2. ASSUME NEW u \in Upload, CheckRepresentations(u) PROVE Goal
  BY <1>2 DEF CheckRepresentations, TypeOK, Finish
<1>3. ASSUME NEW u \in Upload, LookupFingerprint(u) PROVE Goal
  BY <1>3 DEF LookupFingerprint, TypeOK
<1>4. ASSUME NEW u \in Upload, LockSnapshot(u) PROVE Goal
  BY <1>4, ManifestTypes DEF Stripes, LockSnapshot, TypeOK, Proc
<1>5. ASSUME NEW u \in Upload, GuardedLookup(u) PROVE Goal
  BY <1>5 DEF GuardedLookup, TypeOK, Finish
<1>6. ASSUME NEW u \in Upload, LockBlobs(u) PROVE Goal
  BY <1>6, ManifestTypes DEF Stripes, LockBlobs, AcquireNextBlobLock,
     BlobLocks, TypeOK, Proc
<1>7. ASSUME NEW u \in Upload, RecheckFingerprint(u) PROVE Goal
  BY <1>7 DEF RecheckFingerprint, TypeOK
<1>8. ASSUME NEW u \in Upload, AttachToExisting(u) PROVE Goal
  BY <1>8 DEF AttachToExisting, TypeOK, Finish
<1>9. ASSUME NEW u \in Upload, PromoteBlob(u) PROVE Goal
  BY <1>9 DEF PromoteBlob, TypeOK
<1>10. ASSUME NEW u \in Upload, StampCompletion(u) PROVE Goal
  BY <1>10 DEF StampCompletion, TypeOK
<1>11. ASSUME NEW u \in Upload, RecordCompletion(u) PROVE Goal
  BY <1>11 DEF RecordCompletion, TypeOK, Finish
<1>12. ASSUME NEW u \in Upload, FetchWinner(u) PROVE Goal
  BY <1>12 DEF FetchWinner, TypeOK
<1>13. ASSUME NEW u \in Upload, CleanupCheck(u) PROVE Goal
  BY <1>13 DEF CleanupCheck, TypeOK
<1>14. ASSUME NEW u \in Upload, CleanupUnlink(u) PROVE Goal
  BY <1>14 DEF CleanupUnlink, TypeOK
<1>15. ASSUME NEW u \in Upload, CleanupDone(u) PROVE Goal
  BY <1>15 DEF CleanupDone, TypeOK, Finish
<1>16. ASSUME NEW u \in Upload, PromotionFails(u) PROVE Goal
  BY <1>16 DEF PromotionFails, TypeOK
<1>17. ASSUME NEW u \in Upload, RecordingFails(u) PROVE Goal
  BY <1>17 DEF RecordingFails, TypeOK
<1>18. ASSUME NEW p \in Deleter, RequestDeletion(p) PROVE Goal
  BY <1>18 DEF RequestDeletion, TypeOK
<1>19. ASSUME NEW p \in Deleter, DeletionLocksSnapshot(p) PROVE Goal
  BY <1>19, ManifestTypes DEF Stripes, DeletionLocksSnapshot, At, TargetPC,
     DeletionPC, Request, TypeOK, Proc
<1>20. ASSUME NEW p \in Deleter, DeletionRechecks(p) PROVE Goal
  BY <1>20 DEF DeletionRechecks, TypeOK, Finish
<1>21. ASSUME NEW p \in Deleter, DeletionLocksBlobs(p) PROVE Goal
  BY <1>21, ManifestTypes DEF Stripes, DeletionLocksBlobs,
     AcquireNextBlobLock, BlobLocks, At, TargetPC, DeletionPC, Request, TypeOK,
     Proc
<1>22. ASSUME NEW p \in Deleter, StampDeletion(p) PROVE Goal
  BY <1>22 DEF StampDeletion, TypeOK
<1>23. ASSUME NEW p \in Deleter, CommitDeletion(p) PROVE Goal
  BY <1>23 DEF CommitDeletion, TypeOK, Finish
<1>24. ASSUME NEW g \in Collector, BeginCollection(g) PROVE Goal
  BY <1>24 DEF BeginCollection, TypeOK
<1>25. ASSUME NEW g \in Collector, LockCandidate(g) PROVE Goal
  BY <1>25, ManifestTypes DEF Stripes, LockCandidate, Request, TypeOK, Proc
<1>26. ASSUME NEW g \in Collector, SkipCandidate(g) PROVE Goal
  BY <1>26 DEF SkipCandidate, TypeOK
<1>27. ASSUME NEW g \in Collector, DeleteRow(g) PROVE Goal
  BY <1>27 DEF DeleteRow, TypeOK
<1>28. ASSUME NEW g \in Collector, UnlinkBlob(g) PROVE Goal
  BY <1>28 DEF UnlinkBlob, TypeOK
<1>29. ASSUME NEW g \in Collector, CommitCollection(g) PROVE Goal
  BY <1>29 DEF CommitCollection, TypeOK
<1>30. ASSUME NEW g \in Collector, FinishCollection(g) PROVE Goal
  BY <1>30 DEF FinishCollection, TypeOK, Finish
<1>31. ASSUME NEW q \in Proc, Abandon(q) PROVE Goal
  BY <1>31 DEF Abandon, TypeOK, Finish
<1>32. ASSUME NEW q \in Proc, AbandonDuringUnlink(q) PROVE Goal
  BY <1>32 DEF AbandonDuringUnlink, TypeOK, Finish
<1>33. CASE DetachedUnlinkRuns
  BY <1>33 DEF DetachedUnlinkRuns, TypeOK
<1>34. CASE Crash
  BY <1>34 DEF Crash, TypeOK
<1>35. CASE RecoverContext
  BY <1>35 DEF RecoverContext, TypeOK
<1>36. CASE RecoverCandidates
  BY <1>36 DEF RecoverCandidates, TypeOK
<1>37. CASE SweepFile
  BY <1>37 DEF SweepFile, TypeOK
<1>38. CASE Serve
  BY <1>38 DEF Serve, TypeOK
<1>39. CASE Tick
  BY <1>39 DEF Tick, TypeOK
<1>40. CASE UNCHANGED vars
  BY <1>40 DEF vars, TypeOK
<1> QED
  BY <1>1, <1>2, <1>3, <1>4, <1>5, <1>6, <1>7, <1>8, <1>9, <1>10, <1>11,
     <1>12, <1>13, <1>14, <1>15, <1>16, <1>17, <1>18, <1>19, <1>20, <1>21,
     <1>22, <1>23, <1>24, <1>25, <1>26, <1>27, <1>28, <1>29, <1>30, <1>31,
     <1>32, <1>33, <1>34, <1>35, <1>36, <1>37, <1>38, <1>39, <1>40 DEF Next,
     CompletionStep, DeletionStep, CollectionStep

\* No two requests hold one stripe.
LEMMA ExclusiveStep == TypeOK /\ LocksExclusive /\ [Next]_vars => LocksExclusive'
<1> SUFFICES ASSUME TypeOK, LocksExclusive, [Next]_vars PROVE LocksExclusive'
  OBVIOUS
<1>1. CASE \A q \in Proc : held'[q] \subseteq held[q]
  BY <1>1 DEF LocksExclusive
<1>2. ASSUME NEW p \in Proc, NEW l \in Stripes, Acquire(p, l) PROVE LocksExclusive'
  BY <1>2, AcquireType, StripeTypes DEF LocksExclusive, Acquire, Free, Stripes
<1>3. QED BY <1>1, <1>2, HeldStep

\* A step of the request p.
StepOf(p) ==
    \/ /\ p \in Upload
       /\ BeginCompletion(p) \/ CompletionStep(p) \/ PromotionFails(p) \/ RecordingFails(p)
    \/ p \in Deleter /\ (RequestDeletion(p) \/ DeletionStep(p))
    \/ p \in Collector /\ (BeginCollection(p) \/ CollectionStep(p))
    \/ Abandon(p) \/ AbandonDuringUnlink(p)

\* A request's step leaves the other requests and their locks alone.
LEMMA OthersUntouched ==
    ASSUME TypeOK, NEW p \in Proc, StepOf(p)
    PROVE  \A q \in Proc \ {p} : req'[q] = req[q] /\ held'[q] = held[q]
<1> DEFINE Goal == \A q \in Proc \ {p} : req'[q] = req[q] /\ held'[q] = held[q]
<1>1. CASE BeginCompletion(p)
  BY <1>1 DEF BeginCompletion, Update, GoTo, Acquire, TypeOK
<1>2. CASE CheckRepresentations(p)
  BY <1>2 DEF CheckRepresentations, Update, GoTo, Finish, TypeOK
<1>3. CASE LookupFingerprint(p)
  BY <1>3 DEF LookupFingerprint, Update, GoTo, TypeOK
<1>4. CASE LockSnapshot(p)
  BY <1>4 DEF LockSnapshot, Update, GoTo, Acquire, TypeOK
<1>5. CASE GuardedLookup(p)
  BY <1>5 DEF GuardedLookup, Update, GoTo, Finish, TypeOK
<1>6. CASE LockBlobs(p)
  BY <1>6 DEF LockBlobs, Update, Acquire, AcquireNextBlobLock, TypeOK
<1>7. CASE RecheckFingerprint(p)
  BY <1>7 DEF RecheckFingerprint, Update, TypeOK
<1>8. CASE AttachToExisting(p)
  BY <1>8 DEF AttachToExisting, Update, Finish, TypeOK
<1>9. CASE PromoteBlob(p)
  BY <1>9 DEF PromoteBlob, Update, TypeOK
<1>10. CASE StampCompletion(p)
  BY <1>10 DEF StampCompletion, Update, TypeOK
<1>11. CASE RecordCompletion(p)
  BY <1>11 DEF RecordCompletion, Update, GoTo, Finish, TypeOK
<1>12. CASE FetchWinner(p)
  BY <1>12 DEF FetchWinner, Update, TypeOK
<1>13. CASE CleanupCheck(p)
  BY <1>13 DEF CleanupCheck, Update, TypeOK
<1>14. CASE CleanupUnlink(p)
  BY <1>14 DEF CleanupUnlink, Update, TypeOK
<1>15. CASE CleanupDone(p)
  BY <1>15 DEF CleanupDone, Update, GoTo, Finish, TypeOK
<1>16. CASE PromotionFails(p)
  BY <1>16 DEF PromotionFails, Update, TypeOK
<1>17. CASE RecordingFails(p)
  BY <1>17 DEF RecordingFails, Update, TypeOK
<1>18. CASE RequestDeletion(p)
  BY <1>18 DEF RequestDeletion, Update, TypeOK
<1>19. CASE DeletionLocksSnapshot(p)
  BY <1>19 DEF DeletionLocksSnapshot, Update, GoTo, Acquire, TypeOK
<1>20. CASE DeletionRechecks(p)
  BY <1>20 DEF DeletionRechecks, Update, GoTo, Finish, TypeOK
<1>21. CASE DeletionLocksBlobs(p)
  BY <1>21 DEF DeletionLocksBlobs, Update, Acquire, AcquireNextBlobLock, TypeOK
<1>22. CASE StampDeletion(p)
  BY <1>22 DEF StampDeletion, Update, TypeOK
<1>23. CASE CommitDeletion(p)
  BY <1>23 DEF CommitDeletion, Update, Finish, TypeOK
<1>24. CASE BeginCollection(p)
  BY <1>24 DEF BeginCollection, Update, TypeOK
<1>25. CASE LockCandidate(p)
  BY <1>25 DEF LockCandidate, Update, Acquire, TypeOK
<1>26. CASE SkipCandidate(p)
  BY <1>26 DEF SkipCandidate, Update, TypeOK
<1>27. CASE DeleteRow(p)
  BY <1>27 DEF DeleteRow, Update, GoTo, TypeOK
<1>28. CASE UnlinkBlob(p)
  BY <1>28 DEF UnlinkBlob, Update, GoTo, TypeOK
<1>29. CASE CommitCollection(p)
  BY <1>29 DEF CommitCollection, Update, TypeOK
<1>30. CASE FinishCollection(p)
  BY <1>30 DEF FinishCollection, Update, Finish, TypeOK
<1>31. CASE Abandon(p)
  BY <1>31 DEF Abandon, Update, Finish, TypeOK
<1>32. CASE AbandonDuringUnlink(p)
  BY <1>32 DEF AbandonDuringUnlink, Update, Finish, TypeOK
<1> QED
  BY <1>1, <1>2, <1>3, <1>4, <1>5, <1>6, <1>7, <1>8, <1>9, <1>10, <1>11,
     <1>12, <1>13, <1>14, <1>15, <1>16, <1>17, <1>18, <1>19, <1>20, <1>21,
     <1>22, <1>23, <1>24, <1>25, <1>26, <1>27, <1>28, <1>29, <1>30, <1>31,
     <1>32 DEF StepOf, CompletionStep, DeletionStep, CollectionStep

\* Each handler keeps the stripes it took for as long as its steps rely on them.
LEMMA LocksHeldStep ==
    ASSUME LockInv, [Next]_vars PROVE LocksHeld'
<1>a. TypeOK /\ LocksHeld
  BY DEF LockInv
<1>1. ASSUME NEW u \in Upload, BeginCompletion(u) PROVE LocksHeld'
  <2>1. \A q \in Proc \ {u} : req'[q] = req[q] /\ held'[q] = held[q]
    BY <1>1, <1>a, OthersUntouched DEF StepOf, CompletionStep, Proc
  <2>2. /\ req'[u].pc \in AfterBlobLocks => BlobLocks(DigestsOf[u]) \subseteq held'[u]
        /\ req'[u].pc \in {"guardedLookup", "attachGuarded"} =>
              SnapshotStripe[FingerprintOf[u]] \in held'[u]
    BY <1>1, <1>a DEF BeginCompletion, Update, GoTo, Acquire, At, TypeOK,
       LocksHeld, AfterBlobLocks,
       Request, Proc
  <2>3. QED BY <1>a, <2>1, <2>2, NamesAssumption DEF LocksHeld, Proc
<1>2. ASSUME NEW u \in Upload, CheckRepresentations(u) PROVE LocksHeld'
  <2>1. \A q \in Proc \ {u} : req'[q] = req[q] /\ held'[q] = held[q]
    BY <1>2, <1>a, OthersUntouched DEF StepOf, CompletionStep, Proc
  <2>2. /\ req'[u].pc \in AfterBlobLocks => BlobLocks(DigestsOf[u]) \subseteq held'[u]
        /\ req'[u].pc \in {"guardedLookup", "attachGuarded"} =>
              SnapshotStripe[FingerprintOf[u]] \in held'[u]
    BY <1>2, <1>a DEF CheckRepresentations, Update, GoTo, Finish, Idle, At,
       TypeOK, LocksHeld, AfterBlobLocks,
       Request, Proc
  <2>3. QED BY <1>a, <2>1, <2>2, NamesAssumption DEF LocksHeld, Proc
<1>3. ASSUME NEW u \in Upload, LookupFingerprint(u) PROVE LocksHeld'
  <2>1. \A q \in Proc \ {u} : req'[q] = req[q] /\ held'[q] = held[q]
    BY <1>3, <1>a, OthersUntouched DEF StepOf, CompletionStep, Proc
  <2>2. req[u].pc \in {"lookup"}
    BY <1>3 DEF LookupFingerprint, At
  <2>3. /\ req'[u].pc \in AfterBlobLocks => BlobLocks(DigestsOf[u]) \subseteq held'[u]
        /\ req'[u].pc \in {"guardedLookup", "attachGuarded"} =>
              SnapshotStripe[FingerprintOf[u]] \in held'[u]
    BY <1>3, <1>a, <2>2, LookupEffect DEF LookupFingerprint, LocksHeld,
       AfterBlobLocks
  <2>4. QED BY <1>a, <2>1, <2>3, NamesAssumption DEF LocksHeld, Proc
<1>4. ASSUME NEW u \in Upload, LockSnapshot(u) PROVE LocksHeld'
  <2>1. \A q \in Proc \ {u} : req'[q] = req[q] /\ held'[q] = held[q]
    BY <1>4, <1>a, OthersUntouched DEF StepOf, CompletionStep, Proc
  <2>2. /\ req'[u].pc \in AfterBlobLocks => BlobLocks(DigestsOf[u]) \subseteq held'[u]
        /\ req'[u].pc \in {"guardedLookup", "attachGuarded"} =>
              SnapshotStripe[FingerprintOf[u]] \in held'[u]
    BY <1>4, <1>a DEF LockSnapshot, Update, GoTo, Acquire, At, TypeOK,
       LocksHeld, AfterBlobLocks,
       Request, Proc
  <2>3. QED BY <1>a, <2>1, <2>2, NamesAssumption DEF LocksHeld, Proc
<1>5. ASSUME NEW u \in Upload, GuardedLookup(u) PROVE LocksHeld'
  <2>1. \A q \in Proc \ {u} : req'[q] = req[q] /\ held'[q] = held[q]
    BY <1>5, <1>a, OthersUntouched DEF StepOf, CompletionStep, Proc
  <2>2. req[u].pc \in {"guardedLookup"}
    BY <1>5 DEF GuardedLookup, At
  <2>3. /\ req'[u].pc \in AfterBlobLocks => BlobLocks(DigestsOf[u]) \subseteq held'[u]
        /\ req'[u].pc \in {"guardedLookup", "attachGuarded"} =>
              SnapshotStripe[FingerprintOf[u]] \in held'[u]
    BY <1>5, <1>a, <2>2, GuardedEffect DEF GuardedLookup, LocksHeld,
       AfterBlobLocks
  <2>4. QED BY <1>a, <2>1, <2>3, NamesAssumption DEF LocksHeld, Proc
<1>6. ASSUME NEW u \in Upload, LockBlobs(u) PROVE LocksHeld'
  <2>1. \A q \in Proc \ {u} : req'[q] = req[q] /\ held'[q] = held[q]
    BY <1>6, <1>a, OthersUntouched DEF StepOf, CompletionStep, Proc
  <2>2. /\ req'[u].pc \in AfterBlobLocks => BlobLocks(DigestsOf[u]) \subseteq held'[u]
        /\ req'[u].pc \in {"guardedLookup", "attachGuarded"} =>
              SnapshotStripe[FingerprintOf[u]] \in held'[u]
    BY <1>6, <1>a DEF LockBlobs, Update, Acquire, AcquireNextBlobLock, At,
       TypeOK, LocksHeld, AfterBlobLocks,
       Request, Proc
  <2>3. QED BY <1>a, <2>1, <2>2, NamesAssumption DEF LocksHeld, Proc
<1>7. ASSUME NEW u \in Upload, RecheckFingerprint(u) PROVE LocksHeld'
  <2>1. \A q \in Proc \ {u} : req'[q] = req[q] /\ held'[q] = held[q]
    BY <1>7, <1>a, OthersUntouched DEF StepOf, CompletionStep, Proc
  <2>2. req[u].pc \in {"recheckLookup"}
    BY <1>7 DEF RecheckFingerprint, At
  <2>3. /\ req'[u].pc \in AfterBlobLocks => BlobLocks(DigestsOf[u]) \subseteq held'[u]
        /\ req'[u].pc \in {"guardedLookup", "attachGuarded"} =>
              SnapshotStripe[FingerprintOf[u]] \in held'[u]
    BY <1>7, <1>a, <2>2, RecheckEffect DEF RecheckFingerprint, LocksHeld,
       AfterBlobLocks
  <2>4. QED BY <1>a, <2>1, <2>3, NamesAssumption DEF LocksHeld, Proc
<1>8. ASSUME NEW u \in Upload, AttachToExisting(u) PROVE LocksHeld'
  <2>1. \A q \in Proc \ {u} : req'[q] = req[q] /\ held'[q] = held[q]
    BY <1>8, <1>a, OthersUntouched DEF StepOf, CompletionStep, Proc
  <2>2. req[u].pc \in {"attachGuarded", "attachRechecked", "attachLoser"}
    BY <1>8 DEF AttachToExisting, At
  <2>3. /\ req'[u].pc \in AfterBlobLocks => BlobLocks(DigestsOf[u]) \subseteq held'[u]
        /\ req'[u].pc \in {"guardedLookup", "attachGuarded"} =>
              SnapshotStripe[FingerprintOf[u]] \in held'[u]
    BY <1>8, <1>a, <2>2, AttachEffect DEF AttachToExisting, LocksHeld,
       AfterBlobLocks
  <2>4. QED BY <1>a, <2>1, <2>3, NamesAssumption DEF LocksHeld, Proc
<1>9. ASSUME NEW u \in Upload, PromoteBlob(u) PROVE LocksHeld'
  <2>1. \A q \in Proc \ {u} : req'[q] = req[q] /\ held'[q] = held[q]
    BY <1>9, <1>a, OthersUntouched DEF StepOf, CompletionStep, Proc
  <2>2. /\ req'[u].pc \in AfterBlobLocks => BlobLocks(DigestsOf[u]) \subseteq held'[u]
        /\ req'[u].pc \in {"guardedLookup", "attachGuarded"} =>
              SnapshotStripe[FingerprintOf[u]] \in held'[u]
    BY <1>9, <1>a DEF PromoteBlob, Update, At, TypeOK, LocksHeld,
       AfterBlobLocks,
       Request, Proc
  <2>3. QED BY <1>a, <2>1, <2>2, NamesAssumption DEF LocksHeld, Proc
<1>10. ASSUME NEW u \in Upload, StampCompletion(u) PROVE LocksHeld'
  <2>1. \A q \in Proc \ {u} : req'[q] = req[q] /\ held'[q] = held[q]
    BY <1>10, <1>a, OthersUntouched DEF StepOf, CompletionStep, Proc
  <2>2. /\ req'[u].pc \in AfterBlobLocks => BlobLocks(DigestsOf[u]) \subseteq held'[u]
        /\ req'[u].pc \in {"guardedLookup", "attachGuarded"} =>
              SnapshotStripe[FingerprintOf[u]] \in held'[u]
    BY <1>10, <1>a DEF StampCompletion, Update, At, TypeOK, LocksHeld,
       AfterBlobLocks,
       Request, Proc
  <2>3. QED BY <1>a, <2>1, <2>2, NamesAssumption DEF LocksHeld, Proc
<1>11. ASSUME NEW u \in Upload, RecordCompletion(u) PROVE LocksHeld'
  <2>1. \A q \in Proc \ {u} : req'[q] = req[q] /\ held'[q] = held[q]
    BY <1>11, <1>a, OthersUntouched DEF StepOf, CompletionStep, Proc
  <2>2. /\ req'[u].pc \in AfterBlobLocks => BlobLocks(DigestsOf[u]) \subseteq held'[u]
        /\ req'[u].pc \in {"guardedLookup", "attachGuarded"} =>
              SnapshotStripe[FingerprintOf[u]] \in held'[u]
    BY <1>11, <1>a DEF RecordCompletion, Update, GoTo, Finish, Idle, At,
       TypeOK, LocksHeld, AfterBlobLocks,
       Request, Proc
  <2>3. QED BY <1>a, <2>1, <2>2, NamesAssumption DEF LocksHeld, Proc
<1>12. ASSUME NEW u \in Upload, FetchWinner(u) PROVE LocksHeld'
  <2>1. \A q \in Proc \ {u} : req'[q] = req[q] /\ held'[q] = held[q]
    BY <1>12, <1>a, OthersUntouched DEF StepOf, CompletionStep, Proc
  <2>2. req[u].pc \in {"loser"}
    BY <1>12 DEF FetchWinner, At
  <2>3. /\ req'[u].pc \in AfterBlobLocks => BlobLocks(DigestsOf[u]) \subseteq held'[u]
        /\ req'[u].pc \in {"guardedLookup", "attachGuarded"} =>
              SnapshotStripe[FingerprintOf[u]] \in held'[u]
    BY <1>12, <1>a, <2>2, FetchEffect DEF FetchWinner, LocksHeld,
       AfterBlobLocks
  <2>4. QED BY <1>a, <2>1, <2>3, NamesAssumption DEF LocksHeld, Proc
<1>13. ASSUME NEW u \in Upload, CleanupCheck(u) PROVE LocksHeld'
  <2>1. \A q \in Proc \ {u} : req'[q] = req[q] /\ held'[q] = held[q]
    BY <1>13, <1>a, OthersUntouched DEF StepOf, CompletionStep, Proc
  <2>2. /\ req'[u].pc \in AfterBlobLocks => BlobLocks(DigestsOf[u]) \subseteq held'[u]
        /\ req'[u].pc \in {"guardedLookup", "attachGuarded"} =>
              SnapshotStripe[FingerprintOf[u]] \in held'[u]
    BY <1>13, <1>a DEF CleanupCheck, Update, At, TypeOK, LocksHeld,
       AfterBlobLocks,
       Request, Proc
  <2>3. QED BY <1>a, <2>1, <2>2, NamesAssumption DEF LocksHeld, Proc
<1>14. ASSUME NEW u \in Upload, CleanupUnlink(u) PROVE LocksHeld'
  <2>1. \A q \in Proc \ {u} : req'[q] = req[q] /\ held'[q] = held[q]
    BY <1>14, <1>a, OthersUntouched DEF StepOf, CompletionStep, Proc
  <2>2. /\ req'[u].pc \in AfterBlobLocks => BlobLocks(DigestsOf[u]) \subseteq held'[u]
        /\ req'[u].pc \in {"guardedLookup", "attachGuarded"} =>
              SnapshotStripe[FingerprintOf[u]] \in held'[u]
    BY <1>14, <1>a DEF CleanupUnlink, Update, At, TypeOK, LocksHeld,
       AfterBlobLocks,
       Request, Proc
  <2>3. QED BY <1>a, <2>1, <2>2, NamesAssumption DEF LocksHeld, Proc
<1>15. ASSUME NEW u \in Upload, CleanupDone(u) PROVE LocksHeld'
  <2>1. \A q \in Proc \ {u} : req'[q] = req[q] /\ held'[q] = held[q]
    BY <1>15, <1>a, OthersUntouched DEF StepOf, CompletionStep, Proc
  <2>2. /\ req'[u].pc \in AfterBlobLocks => BlobLocks(DigestsOf[u]) \subseteq held'[u]
        /\ req'[u].pc \in {"guardedLookup", "attachGuarded"} =>
              SnapshotStripe[FingerprintOf[u]] \in held'[u]
    BY <1>15, <1>a DEF CleanupDone, Update, GoTo, Finish, Idle, At, TypeOK,
       LocksHeld, AfterBlobLocks,
       Request, Proc
  <2>3. QED BY <1>a, <2>1, <2>2, NamesAssumption DEF LocksHeld, Proc
<1>16. ASSUME NEW u \in Upload, PromotionFails(u) PROVE LocksHeld'
  <2>1. \A q \in Proc \ {u} : req'[q] = req[q] /\ held'[q] = held[q]
    BY <1>16, <1>a, OthersUntouched DEF StepOf, CompletionStep, Proc
  <2>2. /\ req'[u].pc \in AfterBlobLocks => BlobLocks(DigestsOf[u]) \subseteq held'[u]
        /\ req'[u].pc \in {"guardedLookup", "attachGuarded"} =>
              SnapshotStripe[FingerprintOf[u]] \in held'[u]
    BY <1>16, <1>a DEF PromotionFails, Update, At, TypeOK, LocksHeld,
       AfterBlobLocks,
       Request, Proc
  <2>3. QED BY <1>a, <2>1, <2>2, NamesAssumption DEF LocksHeld, Proc
<1>17. ASSUME NEW u \in Upload, RecordingFails(u) PROVE LocksHeld'
  <2>1. \A q \in Proc \ {u} : req'[q] = req[q] /\ held'[q] = held[q]
    BY <1>17, <1>a, OthersUntouched DEF StepOf, CompletionStep, Proc
  <2>2. /\ req'[u].pc \in AfterBlobLocks => BlobLocks(DigestsOf[u]) \subseteq held'[u]
        /\ req'[u].pc \in {"guardedLookup", "attachGuarded"} =>
              SnapshotStripe[FingerprintOf[u]] \in held'[u]
    BY <1>17, <1>a DEF RecordingFails, Update, At, TypeOK, LocksHeld,
       AfterBlobLocks,
       Request, Proc
  <2>3. QED BY <1>a, <2>1, <2>2, NamesAssumption DEF LocksHeld, Proc
<1>18. ASSUME NEW p \in Deleter, RequestDeletion(p) PROVE LocksHeld'
  <2>1. \A q \in Proc \ {p} : req'[q] = req[q] /\ held'[q] = held[q]
    BY <1>18, <1>a, OthersUntouched DEF StepOf, DeletionStep, Proc
  <2>2. req'[p].pc \in DeletionPC \ {"delLockSnapshot"} =>
           SnapshotStripe[FingerprintOf[req'[p].target]] \in held'[p]
    BY <1>18, <1>a DEF RequestDeletion, Update, At, TypeOK, LocksHeld,
       DeletionPC,
       Request, Proc
  <2>3. QED BY <1>a, <2>1, <2>2, NamesAssumption DEF LocksHeld, Proc
<1>19. ASSUME NEW p \in Deleter, DeletionLocksSnapshot(p) PROVE LocksHeld'
  <2>1. \A q \in Proc \ {p} : req'[q] = req[q] /\ held'[q] = held[q]
    BY <1>19, <1>a, OthersUntouched DEF StepOf, DeletionStep, Proc
  <2>2. req'[p].pc \in DeletionPC \ {"delLockSnapshot"} =>
           SnapshotStripe[FingerprintOf[req'[p].target]] \in held'[p]
    BY <1>19, <1>a DEF DeletionLocksSnapshot, Update, GoTo, Acquire, At,
       TypeOK, LocksHeld, DeletionPC,
       Request, Proc
  <2>3. QED BY <1>a, <2>1, <2>2, NamesAssumption DEF LocksHeld, Proc
<1>20. ASSUME NEW p \in Deleter, DeletionRechecks(p) PROVE LocksHeld'
  <2>1. \A q \in Proc \ {p} : req'[q] = req[q] /\ held'[q] = held[q]
    BY <1>20, <1>a, OthersUntouched DEF StepOf, DeletionStep, Proc
  <2>2. req'[p].pc \in DeletionPC \ {"delLockSnapshot"} =>
           SnapshotStripe[FingerprintOf[req'[p].target]] \in held'[p]
    BY <1>20, <1>a DEF DeletionRechecks, Update, GoTo, Finish, Idle, At,
       TypeOK, LocksHeld, DeletionPC,
       Request, Proc
  <2>3. QED BY <1>a, <2>1, <2>2, NamesAssumption DEF LocksHeld, Proc
<1>21. ASSUME NEW p \in Deleter, DeletionLocksBlobs(p) PROVE LocksHeld'
  <2>1. \A q \in Proc \ {p} : req'[q] = req[q] /\ held'[q] = held[q]
    BY <1>21, <1>a, OthersUntouched DEF StepOf, DeletionStep, Proc
  <2>2. req'[p].pc \in DeletionPC \ {"delLockSnapshot"} =>
           SnapshotStripe[FingerprintOf[req'[p].target]] \in held'[p]
    BY <1>21, <1>a DEF DeletionLocksBlobs, Update, Acquire,
       AcquireNextBlobLock, At, TypeOK, LocksHeld, DeletionPC,
       Request, Proc
  <2>3. QED BY <1>a, <2>1, <2>2, NamesAssumption DEF LocksHeld, Proc
<1>22. ASSUME NEW p \in Deleter, StampDeletion(p) PROVE LocksHeld'
  <2>1. \A q \in Proc \ {p} : req'[q] = req[q] /\ held'[q] = held[q]
    BY <1>22, <1>a, OthersUntouched DEF StepOf, DeletionStep, Proc
  <2>2. req'[p].pc \in DeletionPC \ {"delLockSnapshot"} =>
           SnapshotStripe[FingerprintOf[req'[p].target]] \in held'[p]
    BY <1>22, <1>a DEF StampDeletion, Update, At, TypeOK, LocksHeld,
       DeletionPC,
       Request, Proc
  <2>3. QED BY <1>a, <2>1, <2>2, NamesAssumption DEF LocksHeld, Proc
<1>23. ASSUME NEW p \in Deleter, CommitDeletion(p) PROVE LocksHeld'
  <2>1. \A q \in Proc \ {p} : req'[q] = req[q] /\ held'[q] = held[q]
    BY <1>23, <1>a, OthersUntouched DEF StepOf, DeletionStep, Proc
  <2>2. req'[p].pc \in DeletionPC \ {"delLockSnapshot"} =>
           SnapshotStripe[FingerprintOf[req'[p].target]] \in held'[p]
    BY <1>23, <1>a DEF CommitDeletion, Update, Finish, Idle, At, TypeOK,
       LocksHeld, DeletionPC,
       Request, Proc
  <2>3. QED BY <1>a, <2>1, <2>2, NamesAssumption DEF LocksHeld, Proc
<1>24. ASSUME NEW g \in Collector, BeginCollection(g) PROVE LocksHeld'
  <2>1. \A q \in Proc \ {g} : req'[q] = req[q] /\ held'[q] = held[q]
    BY <1>24, <1>a, OthersUntouched DEF StepOf, CollectionStep, Proc
  <2>2. req'[g].pc \in {"gcCheck", "gcUnlink", "gcCommit"} =>
           BlobStripe[req'[g].digest] \in held'[g]
    BY <1>24, <1>a DEF BeginCollection, Update, At, TypeOK, LocksHeld, Request,
       Proc
  <2>3. QED BY <1>a, <2>1, <2>2, NamesAssumption DEF LocksHeld, Proc
<1>25. ASSUME NEW g \in Collector, LockCandidate(g) PROVE LocksHeld'
  <2>1. \A q \in Proc \ {g} : req'[q] = req[q] /\ held'[q] = held[q]
    BY <1>25, <1>a, OthersUntouched DEF StepOf, CollectionStep, Proc
  <2>2. req'[g].pc \in {"gcCheck", "gcUnlink", "gcCommit"} =>
           BlobStripe[req'[g].digest] \in held'[g]
    BY <1>25, <1>a DEF LockCandidate, Update, Acquire, At, TypeOK, LocksHeld,
       Request, Proc
  <2>3. QED BY <1>a, <2>1, <2>2, NamesAssumption DEF LocksHeld, Proc
<1>26. ASSUME NEW g \in Collector, SkipCandidate(g) PROVE LocksHeld'
  <2>1. \A q \in Proc \ {g} : req'[q] = req[q] /\ held'[q] = held[q]
    BY <1>26, <1>a, OthersUntouched DEF StepOf, CollectionStep, Proc
  <2>2. req'[g].pc \in {"gcCheck", "gcUnlink", "gcCommit"} =>
           BlobStripe[req'[g].digest] \in held'[g]
    BY <1>26, <1>a DEF SkipCandidate, Update, At, TypeOK, LocksHeld, Request,
       Proc
  <2>3. QED BY <1>a, <2>1, <2>2, NamesAssumption DEF LocksHeld, Proc
<1>27. ASSUME NEW g \in Collector, DeleteRow(g) PROVE LocksHeld'
  <2>1. \A q \in Proc \ {g} : req'[q] = req[q] /\ held'[q] = held[q]
    BY <1>27, <1>a, OthersUntouched DEF StepOf, CollectionStep, Proc
  <2>2. req'[g].pc \in {"gcCheck", "gcUnlink", "gcCommit"} =>
           BlobStripe[req'[g].digest] \in held'[g]
    BY <1>27, <1>a DEF DeleteRow, Update, GoTo, At, TypeOK, LocksHeld, Request,
       Proc
  <2>3. QED BY <1>a, <2>1, <2>2, NamesAssumption DEF LocksHeld, Proc
<1>28. ASSUME NEW g \in Collector, UnlinkBlob(g) PROVE LocksHeld'
  <2>1. \A q \in Proc \ {g} : req'[q] = req[q] /\ held'[q] = held[q]
    BY <1>28, <1>a, OthersUntouched DEF StepOf, CollectionStep, Proc
  <2>2. req'[g].pc \in {"gcCheck", "gcUnlink", "gcCommit"} =>
           BlobStripe[req'[g].digest] \in held'[g]
    BY <1>28, <1>a DEF UnlinkBlob, Update, GoTo, At, TypeOK, LocksHeld,
       Request, Proc
  <2>3. QED BY <1>a, <2>1, <2>2, NamesAssumption DEF LocksHeld, Proc
<1>29. ASSUME NEW g \in Collector, CommitCollection(g) PROVE LocksHeld'
  <2>1. \A q \in Proc \ {g} : req'[q] = req[q] /\ held'[q] = held[q]
    BY <1>29, <1>a, OthersUntouched DEF StepOf, CollectionStep, Proc
  <2>2. req'[g].pc \in {"gcCheck", "gcUnlink", "gcCommit"} =>
           BlobStripe[req'[g].digest] \in held'[g]
    BY <1>29, <1>a DEF CommitCollection, Update, At, TypeOK, LocksHeld,
       Request, Proc
  <2>3. QED BY <1>a, <2>1, <2>2, NamesAssumption DEF LocksHeld, Proc
<1>30. ASSUME NEW g \in Collector, FinishCollection(g) PROVE LocksHeld'
  <2>1. \A q \in Proc \ {g} : req'[q] = req[q] /\ held'[q] = held[q]
    BY <1>30, <1>a, OthersUntouched DEF StepOf, CollectionStep, Proc
  <2>2. req'[g].pc \in {"gcCheck", "gcUnlink", "gcCommit"} =>
           BlobStripe[req'[g].digest] \in held'[g]
    BY <1>30, <1>a DEF FinishCollection, Update, Finish, Idle, At, TypeOK,
       LocksHeld, Request, Proc
  <2>3. QED BY <1>a, <2>1, <2>2, NamesAssumption DEF LocksHeld, Proc
<1>31. ASSUME NEW q \in Proc, Abandon(q) PROVE LocksHeld'
  <2>1. \A p \in Proc \ {q} : req'[p] = req[p] /\ held'[p] = held[p]
    BY <1>31, <1>a, OthersUntouched DEF StepOf
  <2>2. req'[q].pc = "idle"
    BY <1>31, <1>a, FinishType DEF Abandon, Idle
  <2>3. QED
    BY <1>a, <2>1, <2>2 DEF LocksHeld, AfterBlobLocks, DeletionPC, Proc
<1>32. ASSUME NEW q \in Proc, AbandonDuringUnlink(q) PROVE LocksHeld'
  <2>1. \A p \in Proc \ {q} : req'[p] = req[p] /\ held'[p] = held[p]
    BY <1>32, <1>a, OthersUntouched DEF StepOf
  <2>2. req'[q].pc = "idle"
    BY <1>32, <1>a, FinishType DEF AbandonDuringUnlink, Idle
  <2>3. QED
    BY <1>a, <2>1, <2>2 DEF LocksHeld, AfterBlobLocks, DeletionPC, Proc
<1>33. CASE DetachedUnlinkRuns
  BY <1>33, <1>a DEF DetachedUnlinkRuns, LocksHeld
<1>34. CASE Crash
  BY <1>34 DEF Crash, Idle, LocksHeld, AfterBlobLocks, DeletionPC, Proc
<1>35. CASE RecoverContext
  BY <1>35, <1>a DEF RecoverContext, LocksHeld
<1>36. CASE RecoverCandidates
  BY <1>36, <1>a DEF RecoverCandidates, LocksHeld
<1>37. CASE SweepFile
  BY <1>37, <1>a DEF SweepFile, LocksHeld
<1>38. CASE Serve
  BY <1>38, <1>a DEF Serve, LocksHeld
<1>39. CASE Tick
  BY <1>39, <1>a DEF Tick, LocksHeld
<1>40. CASE UNCHANGED vars
  BY <1>40, <1>a DEF vars, LocksHeld
<1> QED
  BY <1>1, <1>2, <1>3, <1>4, <1>5, <1>6, <1>7, <1>8, <1>9, <1>10, <1>11,
     <1>12, <1>13, <1>14, <1>15, <1>16, <1>17, <1>18, <1>19, <1>20, <1>21,
     <1>22, <1>23, <1>24, <1>25, <1>26, <1>27, <1>28, <1>29, <1>30, <1>31,
     <1>32, <1>33, <1>34, <1>35, <1>36, <1>37, <1>38, <1>39, <1>40 DEF Next,
     CompletionStep, DeletionStep, CollectionStep

\* A completion remembers digests of its own manifest and snapshots of its own
\* identity, and no request survives a crash.
LEMMA ConsistentStep ==
    ASSUME LockInv, [Next]_vars PROVE RequestsConsistent'
<1>a. TypeOK /\ RequestsConsistent
  BY DEF LockInv
<1>1. ASSUME NEW u \in Upload, BeginCompletion(u) PROVE RequestsConsistent'
  <2>1. \A q \in Proc \ {u} : req'[q] = req[q]
    BY <1>1, <1>a, OthersUntouched DEF StepOf, CompletionStep, Proc
  <2>2. server = "up" /\ server' = server
    BY <1>1, <1>a DEF BeginCompletion, RequestsConsistent, environment, At,
       Proc
  <2>3. /\ req'[u].todo \subseteq DigestsOf[u]
        /\ req'[u].created \subseteq DigestsOf[u]
        /\ req'[u].pc \in TargetPC => FingerprintOf[req'[u].target] = FingerprintOf[u]
    BY <1>1, <1>a DEF BeginCompletion, Update, GoTo, Acquire, At, TypeOK,
       RequestsConsistent, TargetPC, DeletionPC, Request, Proc
  <2>4. QED BY <1>a, <2>1, <2>2, <2>3 DEF RequestsConsistent, Proc
<1>2. ASSUME NEW u \in Upload, CheckRepresentations(u) PROVE RequestsConsistent'
  <2>1. \A q \in Proc \ {u} : req'[q] = req[q]
    BY <1>2, <1>a, OthersUntouched DEF StepOf, CompletionStep, Proc
  <2>2. server = "up" /\ server' = server
    BY <1>2, <1>a DEF CheckRepresentations, RequestsConsistent, environment,
       At, Proc
  <2>3. /\ req'[u].todo \subseteq DigestsOf[u]
        /\ req'[u].created \subseteq DigestsOf[u]
        /\ req'[u].pc \in TargetPC => FingerprintOf[req'[u].target] = FingerprintOf[u]
    BY <1>2, <1>a DEF CheckRepresentations, Update, GoTo, Finish, Idle, At,
       TypeOK, RequestsConsistent, TargetPC, DeletionPC, Request, Proc
  <2>4. QED BY <1>a, <2>1, <2>2, <2>3 DEF RequestsConsistent, Proc
<1>3. ASSUME NEW u \in Upload, LookupFingerprint(u) PROVE RequestsConsistent'
  <2>1. \A q \in Proc \ {u} : req'[q] = req[q]
    BY <1>3, <1>a, OthersUntouched DEF StepOf, CompletionStep, Proc
  <2>2. server = "up" /\ server' = server
    BY <1>3, <1>a DEF LookupFingerprint, RequestsConsistent, environment, At,
       Proc
  <2>3. /\ req'[u].todo \subseteq DigestsOf[u]
        /\ req'[u].created \subseteq DigestsOf[u]
        /\ req'[u].pc \in TargetPC => FingerprintOf[req'[u].target] = FingerprintOf[u]
    BY <1>3, <1>a, LookupEffect DEF LookupFingerprint, RequestsConsistent,
       LiveWith, TargetPC, DeletionPC
  <2>4. QED BY <1>a, <2>1, <2>2, <2>3 DEF RequestsConsistent, Proc
<1>4. ASSUME NEW u \in Upload, LockSnapshot(u) PROVE RequestsConsistent'
  <2>1. \A q \in Proc \ {u} : req'[q] = req[q]
    BY <1>4, <1>a, OthersUntouched DEF StepOf, CompletionStep, Proc
  <2>2. server = "up" /\ server' = server
    BY <1>4, <1>a DEF LockSnapshot, RequestsConsistent, environment, At, Proc
  <2>3. /\ req'[u].todo \subseteq DigestsOf[u]
        /\ req'[u].created \subseteq DigestsOf[u]
        /\ req'[u].pc \in TargetPC => FingerprintOf[req'[u].target] = FingerprintOf[u]
    BY <1>4, <1>a DEF LockSnapshot, Update, GoTo, Acquire, At, TypeOK,
       RequestsConsistent, TargetPC, DeletionPC, Request, Proc
  <2>4. QED BY <1>a, <2>1, <2>2, <2>3 DEF RequestsConsistent, Proc
<1>5. ASSUME NEW u \in Upload, GuardedLookup(u) PROVE RequestsConsistent'
  <2>1. \A q \in Proc \ {u} : req'[q] = req[q]
    BY <1>5, <1>a, OthersUntouched DEF StepOf, CompletionStep, Proc
  <2>2. server = "up" /\ server' = server
    BY <1>5, <1>a DEF GuardedLookup, RequestsConsistent, environment, At, Proc
  <2>3. /\ req'[u].todo \subseteq DigestsOf[u]
        /\ req'[u].created \subseteq DigestsOf[u]
        /\ req'[u].pc \in TargetPC => FingerprintOf[req'[u].target] = FingerprintOf[u]
    BY <1>5, <1>a, GuardedEffect DEF GuardedLookup, RequestsConsistent,
       LiveWith, TargetPC, DeletionPC
  <2>4. QED BY <1>a, <2>1, <2>2, <2>3 DEF RequestsConsistent, Proc
<1>6. ASSUME NEW u \in Upload, LockBlobs(u) PROVE RequestsConsistent'
  <2>1. \A q \in Proc \ {u} : req'[q] = req[q]
    BY <1>6, <1>a, OthersUntouched DEF StepOf, CompletionStep, Proc
  <2>2. server = "up" /\ server' = server
    BY <1>6, <1>a DEF LockBlobs, RequestsConsistent, environment, At, Proc
  <2>3. /\ req'[u].todo \subseteq DigestsOf[u]
        /\ req'[u].created \subseteq DigestsOf[u]
        /\ req'[u].pc \in TargetPC => FingerprintOf[req'[u].target] = FingerprintOf[u]
    BY <1>6, <1>a DEF LockBlobs, Update, Acquire, AcquireNextBlobLock, At,
       TypeOK, RequestsConsistent, TargetPC, DeletionPC, Request, Proc
  <2>4. QED BY <1>a, <2>1, <2>2, <2>3 DEF RequestsConsistent, Proc
<1>7. ASSUME NEW u \in Upload, RecheckFingerprint(u) PROVE RequestsConsistent'
  <2>1. \A q \in Proc \ {u} : req'[q] = req[q]
    BY <1>7, <1>a, OthersUntouched DEF StepOf, CompletionStep, Proc
  <2>2. server = "up" /\ server' = server
    BY <1>7, <1>a DEF RecheckFingerprint, RequestsConsistent, environment, At,
       Proc
  <2>3. /\ req'[u].todo \subseteq DigestsOf[u]
        /\ req'[u].created \subseteq DigestsOf[u]
        /\ req'[u].pc \in TargetPC => FingerprintOf[req'[u].target] = FingerprintOf[u]
    BY <1>7, <1>a, RecheckEffect DEF RecheckFingerprint, RequestsConsistent,
       LiveWith, TargetPC, DeletionPC
  <2>4. QED BY <1>a, <2>1, <2>2, <2>3 DEF RequestsConsistent, Proc
<1>8. ASSUME NEW u \in Upload, AttachToExisting(u) PROVE RequestsConsistent'
  <2>1. \A q \in Proc \ {u} : req'[q] = req[q]
    BY <1>8, <1>a, OthersUntouched DEF StepOf, CompletionStep, Proc
  <2>2. server = "up" /\ server' = server
    BY <1>8, <1>a DEF AttachToExisting, RequestsConsistent, environment, At,
       Proc
  <2>3. /\ req'[u].todo \subseteq DigestsOf[u]
        /\ req'[u].created \subseteq DigestsOf[u]
        /\ req'[u].pc \in TargetPC => FingerprintOf[req'[u].target] = FingerprintOf[u]
    BY <1>8, <1>a, AttachEffect DEF AttachToExisting, RequestsConsistent,
       LiveWith, TargetPC, DeletionPC
  <2>4. QED BY <1>a, <2>1, <2>2, <2>3 DEF RequestsConsistent, Proc
<1>9. ASSUME NEW u \in Upload, PromoteBlob(u) PROVE RequestsConsistent'
  <2>1. \A q \in Proc \ {u} : req'[q] = req[q]
    BY <1>9, <1>a, OthersUntouched DEF StepOf, CompletionStep, Proc
  <2>2. server = "up" /\ server' = server
    BY <1>9, <1>a DEF PromoteBlob, RequestsConsistent, environment, At, Proc
  <2>3. /\ req'[u].todo \subseteq DigestsOf[u]
        /\ req'[u].created \subseteq DigestsOf[u]
        /\ req'[u].pc \in TargetPC => FingerprintOf[req'[u].target] = FingerprintOf[u]
    BY <1>9, <1>a DEF PromoteBlob, Update, At, TypeOK, RequestsConsistent,
       TargetPC, DeletionPC, Request, Proc
  <2>4. QED BY <1>a, <2>1, <2>2, <2>3 DEF RequestsConsistent, Proc
<1>10. ASSUME NEW u \in Upload, StampCompletion(u) PROVE RequestsConsistent'
  <2>1. \A q \in Proc \ {u} : req'[q] = req[q]
    BY <1>10, <1>a, OthersUntouched DEF StepOf, CompletionStep, Proc
  <2>2. server = "up" /\ server' = server
    BY <1>10, <1>a DEF StampCompletion, RequestsConsistent, environment, At,
       Proc
  <2>3. /\ req'[u].todo \subseteq DigestsOf[u]
        /\ req'[u].created \subseteq DigestsOf[u]
        /\ req'[u].pc \in TargetPC => FingerprintOf[req'[u].target] = FingerprintOf[u]
    BY <1>10, <1>a DEF StampCompletion, Update, At, TypeOK, RequestsConsistent,
       TargetPC, DeletionPC, Request, Proc
  <2>4. QED BY <1>a, <2>1, <2>2, <2>3 DEF RequestsConsistent, Proc
<1>11. ASSUME NEW u \in Upload, RecordCompletion(u) PROVE RequestsConsistent'
  <2>1. \A q \in Proc \ {u} : req'[q] = req[q]
    BY <1>11, <1>a, OthersUntouched DEF StepOf, CompletionStep, Proc
  <2>2. server = "up" /\ server' = server
    BY <1>11, <1>a DEF RecordCompletion, RequestsConsistent, environment, At,
       Proc
  <2>3. /\ req'[u].todo \subseteq DigestsOf[u]
        /\ req'[u].created \subseteq DigestsOf[u]
        /\ req'[u].pc \in TargetPC => FingerprintOf[req'[u].target] = FingerprintOf[u]
    BY <1>11, <1>a DEF RecordCompletion, Update, GoTo, Finish, Idle, At,
       TypeOK, RequestsConsistent, TargetPC, DeletionPC, Request, Proc
  <2>4. QED BY <1>a, <2>1, <2>2, <2>3 DEF RequestsConsistent, Proc
<1>12. ASSUME NEW u \in Upload, FetchWinner(u) PROVE RequestsConsistent'
  <2>1. \A q \in Proc \ {u} : req'[q] = req[q]
    BY <1>12, <1>a, OthersUntouched DEF StepOf, CompletionStep, Proc
  <2>2. server = "up" /\ server' = server
    BY <1>12, <1>a DEF FetchWinner, RequestsConsistent, environment, At, Proc
  <2>3. /\ req'[u].todo \subseteq DigestsOf[u]
        /\ req'[u].created \subseteq DigestsOf[u]
        /\ req'[u].pc \in TargetPC => FingerprintOf[req'[u].target] = FingerprintOf[u]
    BY <1>12, <1>a, FetchEffect DEF FetchWinner, RequestsConsistent, LiveWith,
       TargetPC, DeletionPC
  <2>4. QED BY <1>a, <2>1, <2>2, <2>3 DEF RequestsConsistent, Proc
<1>13. ASSUME NEW u \in Upload, CleanupCheck(u) PROVE RequestsConsistent'
  <2>1. \A q \in Proc \ {u} : req'[q] = req[q]
    BY <1>13, <1>a, OthersUntouched DEF StepOf, CompletionStep, Proc
  <2>2. server = "up" /\ server' = server
    BY <1>13, <1>a DEF CleanupCheck, RequestsConsistent, environment, At, Proc
  <2>3. /\ req'[u].todo \subseteq DigestsOf[u]
        /\ req'[u].created \subseteq DigestsOf[u]
        /\ req'[u].pc \in TargetPC => FingerprintOf[req'[u].target] = FingerprintOf[u]
    BY <1>13, <1>a DEF CleanupCheck, Update, At, TypeOK, RequestsConsistent,
       TargetPC, DeletionPC, Request, Proc
  <2>4. QED BY <1>a, <2>1, <2>2, <2>3 DEF RequestsConsistent, Proc
<1>14. ASSUME NEW u \in Upload, CleanupUnlink(u) PROVE RequestsConsistent'
  <2>1. \A q \in Proc \ {u} : req'[q] = req[q]
    BY <1>14, <1>a, OthersUntouched DEF StepOf, CompletionStep, Proc
  <2>2. server = "up" /\ server' = server
    BY <1>14, <1>a DEF CleanupUnlink, RequestsConsistent, environment, At, Proc
  <2>3. /\ req'[u].todo \subseteq DigestsOf[u]
        /\ req'[u].created \subseteq DigestsOf[u]
        /\ req'[u].pc \in TargetPC => FingerprintOf[req'[u].target] = FingerprintOf[u]
    BY <1>14, <1>a DEF CleanupUnlink, Update, At, TypeOK, RequestsConsistent,
       TargetPC, DeletionPC, Request, Proc
  <2>4. QED BY <1>a, <2>1, <2>2, <2>3 DEF RequestsConsistent, Proc
<1>15. ASSUME NEW u \in Upload, CleanupDone(u) PROVE RequestsConsistent'
  <2>1. \A q \in Proc \ {u} : req'[q] = req[q]
    BY <1>15, <1>a, OthersUntouched DEF StepOf, CompletionStep, Proc
  <2>2. server = "up" /\ server' = server
    BY <1>15, <1>a DEF CleanupDone, RequestsConsistent, environment, At, Proc
  <2>3. /\ req'[u].todo \subseteq DigestsOf[u]
        /\ req'[u].created \subseteq DigestsOf[u]
        /\ req'[u].pc \in TargetPC => FingerprintOf[req'[u].target] = FingerprintOf[u]
    BY <1>15, <1>a DEF CleanupDone, Update, GoTo, Finish, Idle, At, TypeOK,
       RequestsConsistent, TargetPC, DeletionPC, Request, Proc
  <2>4. QED BY <1>a, <2>1, <2>2, <2>3 DEF RequestsConsistent, Proc
<1>16. ASSUME NEW u \in Upload, PromotionFails(u) PROVE RequestsConsistent'
  <2>1. \A q \in Proc \ {u} : req'[q] = req[q]
    BY <1>16, <1>a, OthersUntouched DEF StepOf, CompletionStep, Proc
  <2>2. server = "up" /\ server' = server
    BY <1>16, <1>a DEF PromotionFails, RequestsConsistent, environment, At,
       Proc
  <2>3. /\ req'[u].todo \subseteq DigestsOf[u]
        /\ req'[u].created \subseteq DigestsOf[u]
        /\ req'[u].pc \in TargetPC => FingerprintOf[req'[u].target] = FingerprintOf[u]
    BY <1>16, <1>a DEF PromotionFails, Update, At, TypeOK, RequestsConsistent,
       TargetPC, DeletionPC, Request, Proc
  <2>4. QED BY <1>a, <2>1, <2>2, <2>3 DEF RequestsConsistent, Proc
<1>17. ASSUME NEW u \in Upload, RecordingFails(u) PROVE RequestsConsistent'
  <2>1. \A q \in Proc \ {u} : req'[q] = req[q]
    BY <1>17, <1>a, OthersUntouched DEF StepOf, CompletionStep, Proc
  <2>2. server = "up" /\ server' = server
    BY <1>17, <1>a DEF RecordingFails, RequestsConsistent, environment, At,
       Proc
  <2>3. /\ req'[u].todo \subseteq DigestsOf[u]
        /\ req'[u].created \subseteq DigestsOf[u]
        /\ req'[u].pc \in TargetPC => FingerprintOf[req'[u].target] = FingerprintOf[u]
    BY <1>17, <1>a DEF RecordingFails, Update, At, TypeOK, RequestsConsistent,
       TargetPC, DeletionPC, Request, Proc
  <2>4. QED BY <1>a, <2>1, <2>2, <2>3 DEF RequestsConsistent, Proc
<1>18. ASSUME NEW p \in Deleter, RequestDeletion(p) PROVE RequestsConsistent'
  <2>1. \A q \in Proc \ {p} : req'[q] = req[q]
    BY <1>18, <1>a, OthersUntouched DEF StepOf, DeletionStep, Proc
  <2>2. server = "up" /\ server' = server
    BY <1>18, <1>a DEF RequestDeletion, RequestsConsistent, environment, At,
       Proc
  <2>3. QED BY <1>a, <2>1, <2>2, NamesAssumption DEF RequestsConsistent, Proc
<1>19. ASSUME NEW p \in Deleter, DeletionLocksSnapshot(p) PROVE RequestsConsistent'
  <2>1. \A q \in Proc \ {p} : req'[q] = req[q]
    BY <1>19, <1>a, OthersUntouched DEF StepOf, DeletionStep, Proc
  <2>2. server = "up" /\ server' = server
    BY <1>19, <1>a DEF DeletionLocksSnapshot, RequestsConsistent, environment,
       At, Proc
  <2>3. QED BY <1>a, <2>1, <2>2, NamesAssumption DEF RequestsConsistent, Proc
<1>20. ASSUME NEW p \in Deleter, DeletionRechecks(p) PROVE RequestsConsistent'
  <2>1. \A q \in Proc \ {p} : req'[q] = req[q]
    BY <1>20, <1>a, OthersUntouched DEF StepOf, DeletionStep, Proc
  <2>2. server = "up" /\ server' = server
    BY <1>20, <1>a DEF DeletionRechecks, RequestsConsistent, environment, At,
       Proc
  <2>3. QED BY <1>a, <2>1, <2>2, NamesAssumption DEF RequestsConsistent, Proc
<1>21. ASSUME NEW p \in Deleter, DeletionLocksBlobs(p) PROVE RequestsConsistent'
  <2>1. \A q \in Proc \ {p} : req'[q] = req[q]
    BY <1>21, <1>a, OthersUntouched DEF StepOf, DeletionStep, Proc
  <2>2. server = "up" /\ server' = server
    BY <1>21, <1>a DEF DeletionLocksBlobs, RequestsConsistent, environment, At,
       Proc
  <2>3. QED BY <1>a, <2>1, <2>2, NamesAssumption DEF RequestsConsistent, Proc
<1>22. ASSUME NEW p \in Deleter, StampDeletion(p) PROVE RequestsConsistent'
  <2>1. \A q \in Proc \ {p} : req'[q] = req[q]
    BY <1>22, <1>a, OthersUntouched DEF StepOf, DeletionStep, Proc
  <2>2. server = "up" /\ server' = server
    BY <1>22, <1>a DEF StampDeletion, RequestsConsistent, environment, At, Proc
  <2>3. QED BY <1>a, <2>1, <2>2, NamesAssumption DEF RequestsConsistent, Proc
<1>23. ASSUME NEW p \in Deleter, CommitDeletion(p) PROVE RequestsConsistent'
  <2>1. \A q \in Proc \ {p} : req'[q] = req[q]
    BY <1>23, <1>a, OthersUntouched DEF StepOf, DeletionStep, Proc
  <2>2. server = "up" /\ server' = server
    BY <1>23, <1>a DEF CommitDeletion, RequestsConsistent, environment, At,
       Proc
  <2>3. QED BY <1>a, <2>1, <2>2, NamesAssumption DEF RequestsConsistent, Proc
<1>24. ASSUME NEW g \in Collector, BeginCollection(g) PROVE RequestsConsistent'
  <2>1. \A q \in Proc \ {g} : req'[q] = req[q]
    BY <1>24, <1>a, OthersUntouched DEF StepOf, CollectionStep, Proc
  <2>2. server = "up" /\ server' = server
    BY <1>24, <1>a DEF BeginCollection, RequestsConsistent, environment, At,
       Proc
  <2>3. QED BY <1>a, <2>1, <2>2, NamesAssumption DEF RequestsConsistent, Proc
<1>25. ASSUME NEW g \in Collector, LockCandidate(g) PROVE RequestsConsistent'
  <2>1. \A q \in Proc \ {g} : req'[q] = req[q]
    BY <1>25, <1>a, OthersUntouched DEF StepOf, CollectionStep, Proc
  <2>2. server = "up" /\ server' = server
    BY <1>25, <1>a DEF LockCandidate, RequestsConsistent, environment, At, Proc
  <2>3. QED BY <1>a, <2>1, <2>2, NamesAssumption DEF RequestsConsistent, Proc
<1>26. ASSUME NEW g \in Collector, SkipCandidate(g) PROVE RequestsConsistent'
  <2>1. \A q \in Proc \ {g} : req'[q] = req[q]
    BY <1>26, <1>a, OthersUntouched DEF StepOf, CollectionStep, Proc
  <2>2. server = "up" /\ server' = server
    BY <1>26, <1>a DEF SkipCandidate, RequestsConsistent, environment, At, Proc
  <2>3. QED BY <1>a, <2>1, <2>2, NamesAssumption DEF RequestsConsistent, Proc
<1>27. ASSUME NEW g \in Collector, DeleteRow(g) PROVE RequestsConsistent'
  <2>1. \A q \in Proc \ {g} : req'[q] = req[q]
    BY <1>27, <1>a, OthersUntouched DEF StepOf, CollectionStep, Proc
  <2>2. server = "up" /\ server' = server
    BY <1>27, <1>a DEF DeleteRow, RequestsConsistent, environment, At, Proc
  <2>3. QED BY <1>a, <2>1, <2>2, NamesAssumption DEF RequestsConsistent, Proc
<1>28. ASSUME NEW g \in Collector, UnlinkBlob(g) PROVE RequestsConsistent'
  <2>1. \A q \in Proc \ {g} : req'[q] = req[q]
    BY <1>28, <1>a, OthersUntouched DEF StepOf, CollectionStep, Proc
  <2>2. server = "up" /\ server' = server
    BY <1>28, <1>a DEF UnlinkBlob, RequestsConsistent, environment, At, Proc
  <2>3. QED BY <1>a, <2>1, <2>2, NamesAssumption DEF RequestsConsistent, Proc
<1>29. ASSUME NEW g \in Collector, CommitCollection(g) PROVE RequestsConsistent'
  <2>1. \A q \in Proc \ {g} : req'[q] = req[q]
    BY <1>29, <1>a, OthersUntouched DEF StepOf, CollectionStep, Proc
  <2>2. server = "up" /\ server' = server
    BY <1>29, <1>a DEF CommitCollection, RequestsConsistent, environment, At,
       Proc
  <2>3. QED BY <1>a, <2>1, <2>2, NamesAssumption DEF RequestsConsistent, Proc
<1>30. ASSUME NEW g \in Collector, FinishCollection(g) PROVE RequestsConsistent'
  <2>1. \A q \in Proc \ {g} : req'[q] = req[q]
    BY <1>30, <1>a, OthersUntouched DEF StepOf, CollectionStep, Proc
  <2>2. server = "up" /\ server' = server
    BY <1>30, <1>a DEF FinishCollection, RequestsConsistent, environment, At,
       Proc
  <2>3. QED BY <1>a, <2>1, <2>2, NamesAssumption DEF RequestsConsistent, Proc
<1>31. ASSUME NEW q \in Proc, Abandon(q) PROVE RequestsConsistent'
  <2>1. \A p \in Proc \ {q} : req'[p] = req[p]
    BY <1>31, <1>a, OthersUntouched DEF StepOf
  <2>2. req'[q] = Idle
    BY <1>31, <1>a, FinishType DEF Abandon
  <2>3. QED
    BY <1>31, <1>a, <2>1, <2>2 DEF Abandon, RequestsConsistent, Idle, TargetPC,
       DeletionPC, Proc, environment
<1>32. ASSUME NEW q \in Proc, AbandonDuringUnlink(q) PROVE RequestsConsistent'
  <2>1. \A p \in Proc \ {q} : req'[p] = req[p]
    BY <1>32, <1>a, OthersUntouched DEF StepOf
  <2>2. req'[q] = Idle
    BY <1>32, <1>a, FinishType DEF AbandonDuringUnlink
  <2>3. QED
    BY <1>32, <1>a, <2>1, <2>2 DEF AbandonDuringUnlink, RequestsConsistent,
       Idle, TargetPC, DeletionPC, Proc, environment
<1>33. CASE DetachedUnlinkRuns
  BY <1>33, <1>a DEF DetachedUnlinkRuns, RequestsConsistent, environment
<1>34. CASE Crash
  BY <1>34 DEF Crash, Idle, RequestsConsistent, TargetPC, DeletionPC, Proc
<1>35. CASE RecoverContext
  BY <1>35, <1>a DEF RecoverContext, RequestsConsistent, environment
<1>36. CASE RecoverCandidates
  BY <1>36, <1>a DEF RecoverCandidates, RequestsConsistent, environment
<1>37. CASE SweepFile
  BY <1>37, <1>a DEF SweepFile, RequestsConsistent, environment
<1>38. CASE Serve
  BY <1>38, <1>a DEF Serve, RequestsConsistent, environment
<1>39. CASE Tick
  BY <1>39, <1>a DEF Tick, RequestsConsistent, environment
<1>40. CASE UNCHANGED vars
  BY <1>40, <1>a DEF vars, RequestsConsistent, environment
<1> QED
  BY <1>1, <1>2, <1>3, <1>4, <1>5, <1>6, <1>7, <1>8, <1>9, <1>10, <1>11,
     <1>12, <1>13, <1>14, <1>15, <1>16, <1>17, <1>18, <1>19, <1>20, <1>21,
     <1>22, <1>23, <1>24, <1>25, <1>26, <1>27, <1>28, <1>29, <1>30, <1>31,
     <1>32, <1>33, <1>34, <1>35, <1>36, <1>37, <1>38, <1>39, <1>40 DEF Next,
     CompletionStep, DeletionStep, CollectionStep

\* Every step keeps the lock invariant.
LEMMA LockStep == LockInv /\ [Next]_vars => LockInv'
BY TypeStep, ExclusiveStep, LocksHeldStep, ConsistentStep DEF LockInv

\* No request holds a stripe before the first one.
LEMMA LockInit == Init => LockInv
<1> SUFFICES ASSUME Init PROVE LockInv
  OBVIOUS
<1>1. TypeOK
  BY InitType
<1>2. \A p \in Proc : req[p] = Idle /\ held[p] = {}
  BY DEF Init
<1>3. LocksExclusive
  BY <1>2 DEF LocksExclusive
<1>4. LocksHeld
  BY <1>2 DEF LocksHeld, Idle, AfterBlobLocks, DeletionPC, Proc
<1>5. RequestsConsistent
  BY <1>2 DEF RequestsConsistent, Idle, TargetPC, DeletionPC, Proc
<1>6. QED BY <1>1, <1>3, <1>4, <1>5 DEF LockInv

\* The striped mutexes of service.rs exclude each other in every reachable state
\* and each handler holds the stripes its current step relies on.
THEOREM LockInvariant == Spec => []LockInv
BY LockInit, LockStep, PTL DEF Spec

-----------------------------------------------------------------------------
(* The order of the locks *)

\* What a request holds while it waits, and on the way there: nothing, or only
\* stripes of the families before, or of its own loop those below what is left.
Ascent(p) ==
    /\ req[p].pc \in {"idle", "delLockSnapshot", "gcNext"} => held[p] = {}
    /\ req[p].pc \in {"represent", "lookup", "lockSnapshot"} =>
          p \in Upload /\ held[p] \subseteq {UploadStripe[p]}
    /\ req[p].pc = "guardedLookup" =>
          /\ p \in Upload
          /\ held[p] \subseteq {UploadStripe[p], SnapshotStripe[FingerprintOf[p]]}
    /\ req[p].pc = "lockBlobs" =>
          \A l \in BlobLocks(DigestsOf[p]) \ held[p] : \A k \in held[p] : k < l
    /\ req[p].pc = "delRecheck" =>
          held[p] \subseteq {SnapshotStripe[FingerprintOf[req[p].target]]}
    /\ req[p].pc = "delLockBlobs" =>
          \A l \in BlobLocks(DigestsOf[req[p].target]) \ held[p] :
             \A k \in held[p] : k < l

AscentPC == {"idle", "delLockSnapshot", "gcNext", "represent", "lookup",
             "lockSnapshot", "guardedLookup", "lockBlobs", "delRecheck",
             "delLockBlobs"}

\* A blob stripe comes after the stripes of the other families.
LEMMA BlobsLast ==
    ASSUME NEW u \in Upload, NEW l \in BlobLocks(DigestsOf[u])
    PROVE  /\ l \in Nat
           /\ \A v \in Upload : UploadStripe[v] < l
           /\ \A f \in Fingerprint : SnapshotStripe[f] < l
<1>1. PICK d \in DigestsOf[u] : l = BlobStripe[d]
  BY DEF BlobLocks
<1>2. d \in Digest
  BY ManifestTypes
<1> QED BY <1>1, <1>2, StripeTypes, StripeOrderAssumption

\* The loop over the blob stripes takes the least that is left.
LEMMA NextLockAscends ==
    ASSUME TypeOK, NEW p \in Proc, NEW u \in Upload, NEW pc,
           AcquireNextBlobLock(p, DigestsOf[u], pc),
           \A l \in BlobLocks(DigestsOf[u]) \ held[p] : \A k \in held[p] : k < l
    PROVE  /\ \A l \in BlobLocks(DigestsOf[u]) \ held'[p] : \A k \in held'[p] : k < l
           /\ req'[p].pc \in {pc, req[p].pc} /\ req'[p].target = req[p].target
<1>1. PICK l \in BlobLocks(DigestsOf[u]) \ held[p] :
           /\ \A k \in BlobLocks(DigestsOf[u]) \ held[p] : l <= k
           /\ Acquire(p, l)
           /\ Update(p, [req[p] EXCEPT !.pc =
                      IF BlobLocks(DigestsOf[u]) \subseteq held[p] \cup {l}
                      THEN pc ELSE @])
  BY DEF AcquireNextBlobLock
<1>2. \A k \in BlobLocks(DigestsOf[u]) : k \in Nat
  BY BlobsLast
<1>3. held'[p] = held[p] \cup {l}
  BY <1>1, <1>2, AcquireType
<1>4. ASSUME NEW m \in BlobLocks(DigestsOf[u]) \ held'[p] PROVE l < m
  BY <1>1, <1>2, <1>3
<1>5. req[p] \in Request /\ req \in [Proc -> Request]
  BY DEF TypeOK
<1>6. req'[p].pc \in {pc, req[p].pc} /\ req'[p].target = req[p].target
  BY <1>1, <1>5 DEF Update, Request
<1> QED BY <1>3, <1>4, <1>6

\* A request's own step keeps to the order.
LEMMA AscentOwn ==
    ASSUME TypeOK, NEW p \in Proc, Ascent(p), StepOf(p)
    PROVE  Ascent(p)'
<1>a. req \in [Proc -> Request] /\ held \in [Proc -> SUBSET Nat] /\ req[p] \in Request
  BY DEF TypeOK
<1>b. ASSUME req'[p].pc \notin AscentPC PROVE Ascent(p)'
  BY <1>b DEF Ascent, AscentPC
<1>c. ASSUME Finish(p) PROVE Ascent(p)'
  <2>1. req'[p].pc = "idle" /\ held'[p] = {}
    BY <1>c, FinishType DEF Idle
  <2> QED BY <2>1 DEF Ascent
<1>1. CASE p \in Upload /\ BeginCompletion(p)
  BY <1>1, <1>a, <1>b, <1>c DEF BeginCompletion, At, Update, GoTo, Acquire, Request, Ascent, AscentPC
<1>2. CASE p \in Upload /\ CheckRepresentations(p)
  BY <1>2, <1>a, <1>b, <1>c DEF CheckRepresentations, At, Update, GoTo, Request, Ascent, AscentPC
<1>3. CASE p \in Upload /\ LookupFingerprint(p)
  <2>1. /\ held' = held /\ held[p] \subseteq {UploadStripe[p]}
        /\ req'[p].pc \in {"lockSnapshot", "lockBlobs"}
    BY <1>3, LookupEffect DEF LookupFingerprint, At, Ascent
  <2> QED BY <1>3, <2>1, BlobsLast DEF Ascent
<1>4. CASE p \in Upload /\ LockSnapshot(p)
  BY <1>4, <1>a, <1>b, <1>c DEF LockSnapshot, At, Update, GoTo, Acquire, Request, Ascent, AscentPC
<1>5. CASE p \in Upload /\ GuardedLookup(p)
  <2>1. req'[p].pc \in {"attachGuarded", "lockBlobs"}
    BY <1>5, GuardedEffect
  <2>2. CASE req'[p].pc = "lockBlobs"
    <3>1. /\ held' = [held EXCEPT ![p] = @ \ {SnapshotStripe[FingerprintOf[p]]}]
          /\ held[p] \subseteq {UploadStripe[p], SnapshotStripe[FingerprintOf[p]]}
      <4>1. ASSUME NEW s,
                   Update(p, [req[p] EXCEPT !.pc = "attachGuarded", !.target = s])
            PROVE  FALSE
        BY <1>a, <2>2, <4>1 DEF Update, Request
      <4>2. held' = [held EXCEPT ![p] = @ \ {SnapshotStripe[FingerprintOf[p]]}]
        BY <1>5, <4>1 DEF GuardedLookup
      <4> QED BY <1>5, <4>2 DEF GuardedLookup, At, Ascent
    <3>2. held'[p] \subseteq {UploadStripe[p]}
      BY <1>a, <3>1
    <3> QED BY <1>5, <2>2, <3>2, BlobsLast DEF Ascent
  <2> QED BY <1>b, <2>1, <2>2 DEF AscentPC
<1>6. CASE p \in Upload /\ LockBlobs(p)
  <2>1. /\ \A l \in BlobLocks(DigestsOf[p]) \ held'[p] : \A k \in held'[p] : k < l
        /\ req'[p].pc \in {"recheckBlobs", "lockBlobs"}
    BY <1>6, NextLockAscends DEF LockBlobs, At, Ascent
  <2> QED BY <2>1 DEF Ascent
<1>7. CASE p \in Upload /\ RecheckFingerprint(p)
  BY <1>7, <1>b, RecheckEffect DEF AscentPC
<1>8. CASE p \in Upload /\ AttachToExisting(p)
  <2>1. CASE Finish(p)
    BY <1>c, <2>1
  <2>2. CASE Update(p, [req[p] EXCEPT !.pc = "cleanup", !.todo = req[p].created])
    BY <1>a, <1>b, <2>2 DEF AscentPC, Update, Request
  <2> QED BY <1>8, <2>1, <2>2 DEF AttachToExisting
<1>9. CASE p \in Upload /\ PromoteBlob(p)
  BY <1>9, <1>a, <1>b, <1>c DEF PromoteBlob, At, Update, Request, Ascent, AscentPC
<1>10. CASE p \in Upload /\ StampCompletion(p)
  BY <1>10, <1>a, <1>b, <1>c DEF StampCompletion, At, Update, Request, Ascent, AscentPC
<1>11. CASE p \in Upload /\ RecordCompletion(p)
  BY <1>11, <1>a, <1>b, <1>c DEF RecordCompletion, At, Update, GoTo, Request, Ascent, AscentPC
<1>12. CASE p \in Upload /\ FetchWinner(p)
  BY <1>12, <1>b, FetchEffect DEF AscentPC
<1>13. CASE p \in Upload /\ CleanupCheck(p)
  BY <1>13, <1>a, <1>b, <1>c DEF CleanupCheck, At, Update, Request, Ascent, AscentPC
<1>14. CASE p \in Upload /\ CleanupUnlink(p)
  BY <1>14, <1>a, <1>b, <1>c DEF CleanupUnlink, At, Update, Request, Ascent, AscentPC
<1>15. CASE p \in Upload /\ CleanupDone(p)
  BY <1>15, <1>a, <1>b, <1>c DEF CleanupDone, At, Update, GoTo, Request, Ascent, AscentPC
<1>16. CASE p \in Upload /\ PromotionFails(p)
  BY <1>16, <1>a, <1>b, <1>c DEF PromotionFails, At, Update, Request, Ascent, AscentPC
<1>17. CASE p \in Upload /\ RecordingFails(p)
  BY <1>17, <1>a, <1>b, <1>c DEF RecordingFails, At, Update, Request, Ascent, AscentPC
<1>18. CASE p \in Deleter /\ RequestDeletion(p)
  BY <1>18, <1>a, <1>b, <1>c DEF RequestDeletion, At, Update, Request, Ascent, AscentPC
<1>19. CASE p \in Deleter /\ DeletionLocksSnapshot(p)
  BY <1>19, <1>a, <1>b, <1>c DEF DeletionLocksSnapshot, At, Update, GoTo, Acquire, Request, Ascent, AscentPC
<1>20. CASE p \in Deleter /\ DeletionRechecks(p)
  <2>1. CASE Finish(p)
    BY <1>c, <2>1
  <2>2. CASE GoTo(p, "delLockBlobs") /\ UNCHANGED held
    <3>1. req'[p].pc = "delLockBlobs" /\ req'[p].target = req[p].target
      BY <1>a, <2>2 DEF GoTo, Update, Request
    <3>2. /\ held'[p] \subseteq {SnapshotStripe[FingerprintOf[req[p].target]]}
          /\ req[p].target \in Upload
      BY <1>20, <1>a, <2>2 DEF DeletionRechecks, At, Ascent, Request, TargetPC,
                              DeletionPC
    <3> QED BY <3>1, <3>2, BlobsLast, ManifestTypes DEF Ascent
  <2> QED BY <1>20, <2>1, <2>2 DEF DeletionRechecks
<1>21. CASE p \in Deleter /\ DeletionLocksBlobs(p)
  <2> PICK u : u = req[p].target
    OBVIOUS
  <2>1. /\ u \in Upload /\ req[p].pc = "delLockBlobs"
        /\ AcquireNextBlobLock(p, DigestsOf[u], "delStamp")
    BY <1>21, <1>a DEF DeletionLocksBlobs, At, Request, TargetPC, DeletionPC
  <2>2. /\ \A l \in BlobLocks(DigestsOf[u]) \ held'[p] : \A k \in held'[p] : k < l
        /\ req'[p].pc \in {"delStamp", "delLockBlobs"} /\ req'[p].target = u
    BY <2>1, NextLockAscends DEF Ascent
  <2> QED BY <2>2 DEF Ascent
<1>22. CASE p \in Deleter /\ StampDeletion(p)
  BY <1>22, <1>a, <1>b, <1>c DEF StampDeletion, At, Update, Request, Ascent, AscentPC
<1>23. CASE p \in Deleter /\ CommitDeletion(p)
  BY <1>23, <1>c DEF CommitDeletion
<1>24. CASE p \in Collector /\ BeginCollection(p)
  BY <1>24, <1>a, <1>b, <1>c DEF BeginCollection, At, Update, Request, Ascent, AscentPC
<1>25. CASE p \in Collector /\ LockCandidate(p)
  BY <1>25, <1>a, <1>b, <1>c DEF LockCandidate, At, Update, Acquire, Request, Ascent, AscentPC
<1>26. CASE p \in Collector /\ SkipCandidate(p)
  BY <1>26, <1>a, <1>b, <1>c DEF SkipCandidate, At, Update, Request, Ascent, AscentPC
<1>27. CASE p \in Collector /\ DeleteRow(p)
  BY <1>27, <1>a, <1>b, <1>c DEF DeleteRow, At, Update, GoTo, Request, Ascent, AscentPC
<1>28. CASE p \in Collector /\ UnlinkBlob(p)
  BY <1>28, <1>a, <1>b, <1>c DEF UnlinkBlob, At, Update, GoTo, Request, Ascent, AscentPC
<1>29. CASE p \in Collector /\ CommitCollection(p)
  BY <1>29, <1>a, <1>b, <1>c DEF CommitCollection, At, Update, Request, Ascent, AscentPC
<1>30. CASE p \in Collector /\ FinishCollection(p)
  BY <1>30, <1>c DEF FinishCollection
<1>31. CASE Abandon(p)
  BY <1>31, <1>c DEF Abandon
<1>32. CASE AbandonDuringUnlink(p)
  BY <1>32, <1>c DEF AbandonDuringUnlink
<1> QED
  BY <1>1, <1>2, <1>3, <1>4, <1>5, <1>6, <1>7, <1>8, <1>9, <1>10, <1>11, <1>12, <1>13, <1>14, <1>15, <1>16, <1>17, <1>18, <1>19, <1>20, <1>21, <1>22, <1>23, <1>24, <1>25, <1>26, <1>27, <1>28, <1>29, <1>30, <1>31, <1>32
     DEF StepOf, CompletionStep, DeletionStep, CollectionStep, Abandon

\* Every step keeps every request to the order.
LEMMA AscentStep ==
    ASSUME TypeOK, \A p \in Proc : Ascent(p), [Next]_vars
    PROVE  \A p \in Proc : Ascent(p)'
<1>1. ASSUME NEW p \in Proc, StepOf(p) PROVE \A q \in Proc : Ascent(q)'
  <2>1. Ascent(p)'
    BY <1>1, AscentOwn
  <2>2. \A q \in Proc \ {p} : req'[q] = req[q] /\ held'[q] = held[q]
    BY <1>1, OthersUntouched
  <2>3. \A q \in Proc \ {p} : Ascent(q)'
    BY <2>2 DEF Ascent
  <2> QED BY <2>1, <2>3
<1>2. CASE Crash
  <2>1. \A q \in Proc : req'[q].pc = "idle" /\ held'[q] = {}
    BY <1>2 DEF Crash, Idle
  <2> QED BY <2>1 DEF Ascent
<1>3. CASE UNCHANGED <<req, held>>
  BY <1>3 DEF Ascent
<1>4. DetachedUnlinkRuns \/ RecoverContext \/ RecoverCandidates \/ SweepFile
      \/ Serve \/ Tick \/ UNCHANGED vars => UNCHANGED <<req, held>>
  BY DEF DetachedUnlinkRuns, RecoverContext, RecoverCandidates, SweepFile, Serve,
         Tick, vars
<1>5. Next => \/ \E p \in Proc : StepOf(p)
              \/ Crash
              \/ DetachedUnlinkRuns \/ RecoverContext \/ RecoverCandidates
              \/ SweepFile \/ Serve \/ Tick
  BY DEF Next, StepOf, Proc
<1> QED BY <1>1, <1>2, <1>3, <1>4, <1>5

\* service.rs: a request waits only for a stripe above every stripe it holds, so
\* that completions, deletions and collections never wait in a circle.
THEOREM LocksOrdered == Spec => []LocksAscend
<1>1. Init => \A p \in Proc : Ascent(p)
  BY DEF Init, Ascent, Idle
<1>2. TypeOK /\ (\A p \in Proc : Ascent(p)) /\ [Next]_vars =>
         \A p \in Proc : Ascent(p)'
  BY AscentStep
<1>3. TypeOK /\ (\A p \in Proc : Ascent(p)) => LocksAscend
  <2> SUFFICES ASSUME TypeOK, NEW p \in Proc, Ascent(p),
                      NEW l \in WaitingFor(p), NEW k \in held[p]
               PROVE  k < l
    BY DEF LocksAscend
  <2>1. req[p] \in Request
    BY DEF TypeOK
  <2>2. CASE At(p, "lockSnapshot")
    <3>1. l = SnapshotStripe[FingerprintOf[p]]
      BY <2>2 DEF WaitingFor, At
    <3>2. p \in Upload /\ k = UploadStripe[p]
      BY <2>2 DEF Ascent, At
    <3> QED BY <3>1, <3>2, ManifestTypes, StripeOrderAssumption
  <2>3. CASE At(p, "lockBlobs")
    <3>1. l \in BlobLocks(DigestsOf[p]) \ held[p]
      BY <2>3 DEF WaitingFor, At
    <3> QED BY <2>3, <3>1 DEF Ascent, At
  <2>4. CASE At(p, "delLockBlobs")
    <3>1. l \in BlobLocks(DigestsOf[req[p].target]) \ held[p]
      BY <2>4 DEF WaitingFor, At
    <3> QED BY <2>4, <3>1 DEF Ascent, At
  <2>5. CASE req[p].pc \in {"delLockSnapshot", "gcNext"}
    BY <2>5 DEF Ascent
  <2>6. CASE req[p].pc \notin {"lockSnapshot", "lockBlobs", "delLockBlobs",
                              "delLockSnapshot", "gcNext"}
    BY <2>6 DEF WaitingFor, At
  <2> QED BY <2>2, <2>3, <2>4, <2>5, <2>6 DEF At
<1> DEFINE I == \A p \in Proc : Ascent(p)
<1>4. TypeOK /\ I /\ [Next]_vars => I'
  BY <1>2
<1> HIDE DEF I
<1> QED BY <1>1, <1>3, <1>4, TypeCorrect, PTL DEF Spec, I

\* Among any requests there is one that waits for none of them.
NoCircularWait ==
    \A W \in SUBSET Proc : W # {} =>
        \E p \in W : \A l \in WaitingFor(p) : \A q \in W : l \notin held[q]

\* Only the server's stripes are ever held.
LEMMA HeldStripesStep ==
    ASSUME TypeOK, \A p \in Proc : held[p] \subseteq Stripes, [Next]_vars
    PROVE  \A p \in Proc : held'[p] \subseteq Stripes
<1>1. ASSUME NEW p \in Proc, NEW l \in Stripes, Acquire(p, l), NEW q \in Proc
      PROVE  held'[q] \subseteq Stripes
  BY <1>1 DEF Acquire, TypeOK
<1> QED BY <1>1, HeldStep

\* Requests whose waits closed a circle would hold ever higher stripes.
LEMMA AscentBreaksCircles ==
    ASSUME NEW N \in Nat, \A l \in Stripes : l <= N,
           \A p \in Proc : held[p] \subseteq Stripes, LocksAscend
    PROVE  NoCircularWait
<1> SUFFICES ASSUME NEW W \in SUBSET Proc, W # {},
                    \A p \in W : \E l \in WaitingFor(p) : \E q \in W : l \in held[q]
             PROVE  FALSE
  BY DEF NoCircularWait
<1> DEFINE H == {l \in Stripes : \E p, q \in W : l \in WaitingFor(p) /\ l \in held[q]}
           T == {N - l : l \in H}
<1>1. \A l \in Stripes : l \in Nat
  BY StripeTypes DEF Stripes
<1>2. T \subseteq Nat /\ T # {}
  <2>1. H # {}
    OBVIOUS
  <2>2. \A l \in H : N - l \in Nat
    BY <1>1
  <2> QED BY <2>1, <2>2
<1>3. PICK x \in T : \A y \in T : ~(<<y, x>> \in OpToRel(<, Nat))
  BY <1>2, NatLessThanWellFounded, WFMin, Zenon
<1>4. PICK l \in H : x = N - l
  OBVIOUS
<1>5. PICK q \in W : l \in held[q]
  OBVIOUS
<1>6. PICK m \in WaitingFor(q) : \E r \in W : m \in held[r]
  OBVIOUS
<1>7. m \in H /\ l < m
  BY <1>5, <1>6 DEF LocksAscend
<1>8. N - m \in T /\ N - m < x
  <2>1. l \in Nat /\ m \in Nat
    BY <1>1, <1>7
  <2> QED BY <1>4, <1>7, <2>1
<1> QED BY <1>2, <1>3, <1>8 DEF OpToRel

\* service.rs keeps a fixed array of stripes per family, so their numbers are
\* bounded: completions, deletions and collections, however many, never wait on
\* each other in a circle.
THEOREM NoDeadlock ==
    ASSUME NEW N \in Nat, \A l \in Stripes : l <= N
    PROVE  Spec => []NoCircularWait
<1> DEFINE Own == \A p \in Proc : held[p] \subseteq Stripes
<1>1. Init => Own
  BY DEF Init
<1>2. TypeOK /\ Own /\ [Next]_vars => Own'
  BY HeldStripesStep
<1>3. Own /\ LocksAscend => NoCircularWait
  BY AscentBreaksCircles
<1> HIDE DEF Own
<1> QED BY <1>1, <1>2, <1>3, TypeCorrect, LocksOrdered, PTL DEF Spec
=============================================================================
