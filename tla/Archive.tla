------------------------------ MODULE Archive ------------------------------
(***************************************************************************)
(* The core of the archive server: completion of uploads, deletion of      *)
(* snapshots and garbage collection of blobs, running as concurrent        *)
(* requests over one SQLite database and one directory of blob files,      *)
(* serialized by striped in-memory locks, with crashes, restart recovery   *)
(* and requests that end early (timeout, disconnect, storage or database   *)
(* error).                                                                 *)
(*                                                                         *)
(* Identities.  manifests.upload_id is UNIQUE and an upload completes at   *)
(* most once, so a snapshot is named by the upload whose manifest it       *)
(* records.  tombstones.snapshot_id is UNIQUE, so a tombstone is part of   *)
(* its snapshot's row.  A blobs row is named by its stored digest.         *)
(*                                                                         *)
(* Transactions.  Every write transaction but the collector's is one       *)
(* action; SQLite admits one writer at a time, so they wait while the      *)
(* collector's is open (writer), and readers see the committed rows.       *)
(***************************************************************************)
EXTENDS Naturals, FiniteSets

CONSTANTS
    Upload,        \* uploads, and the snapshots they record; ids are ordered
    Deleter,       \* concurrent snapshot deletion requests
    Collector,     \* concurrent blob GC requests
    Fingerprint,   \* semantic snapshot identities (session and content)
    Session,
    Digest,        \* stored digests
    Rep,           \* stored representations (size and compression)
    SessionOf,     \* [Fingerprint -> Session]
    FingerprintOf, \* [Upload -> Fingerprint]
    DigestsOf,     \* [Upload -> SUBSET Digest]: digests in the manifest
    RepOf,         \* [Upload -> [Digest -> Rep]]: representations it declares
    UploadStripe,  \* [Upload -> Nat]      the lock stripes, numbered so that
    SnapshotStripe,\* [Fingerprint -> Nat] the families are ordered as in
    BlobStripe,    \* [Digest -> Nat]      service.rs
    Grace,         \* blob_gc_grace
    GcBatchSize,   \* GC_BATCH_SIZE
    DetachedUnlink,\* may a cancelled request leave an unlink running?
    MaxClock,      \* bound on the clock
    MaxCrashes,    \* bound on crashes
    None

Proc == Upload \cup Deleter \cup Collector

ASSUME ConstantsAssumption ==
    /\ Upload \subseteq Nat
    /\ IsFiniteSet(Upload)
    /\ SessionOf \in [Fingerprint -> Session]
    /\ FingerprintOf \in [Upload -> Fingerprint]
    /\ DigestsOf \in [Upload -> (SUBSET Digest) \ {{}}]
    /\ RepOf \in [Upload -> [Digest -> Rep]]
    /\ UploadStripe \in [Upload -> Nat]
    /\ SnapshotStripe \in [Fingerprint -> Nat]
    /\ BlobStripe \in [Digest -> Nat]
    /\ Grace \in Nat \ {0}
    /\ GcBatchSize \in Nat \ {0}
    /\ MaxClock \in Nat
    /\ MaxCrashes \in Nat
    /\ DetachedUnlink \in BOOLEAN

ASSUME NamesAssumption ==
    /\ None \notin Upload \cup Digest \cup Rep \cup Proc \cup Nat
    /\ Upload \cap Deleter = {}
    /\ Upload \cap Collector = {}
    /\ Deleter \cap Collector = {}

\* Three lock families, acquired in the order upload, snapshot, blob.
ASSUME StripeOrderAssumption ==
    /\ \A u \in Upload, f \in Fingerprint : UploadStripe[u] < SnapshotStripe[f]
    /\ \A f \in Fingerprint, d \in Digest : SnapshotStripe[f] < BlobStripe[d]
    /\ \A u \in Upload, d \in Digest : UploadStripe[u] < BlobStripe[d]

VARIABLES
    snapshot,  \* [Upload -> SnapshotRow]   snapshots and tombstones
    capture,   \* [Upload -> Upload or None] captures.snapshot_id; completed uploads
    latest,    \* [Session -> Upload or None] session_latest_context
    blob,      \* [Digest -> BlobRow]       blobs
    files,     \* SUBSET Digest             blob files on disk
    writer,    \* the process whose write transaction is open, or None
    req,       \* [Proc -> Request]         handler-local state
    held,      \* [Proc -> SUBSET Nat]      lock stripes a request holds
    detached,  \* SUBSET Digest             unlinks of cancelled requests
    server,    \* "up", or the recovery phase of a restart
    clock,
    crashes

database == <<snapshot, capture, latest, blob, writer>>
environment == <<server, clock, crashes>>
vars == <<snapshot, capture, latest, blob, files, writer, req, held, detached,
          server, clock, crashes>>

SnapshotRow == [state : {"absent", "live", "deleted"},
                completedAt : Nat,             \* completed_at_seq
                deletedAt : Nat,               \* deleted_at_seq
                tombstone : Nat,               \* tombstone id, in creation order
                from : Upload \cup {None},     \* rearchived_from_tombstone_id
                rearchived : Upload \cup {None}] \* rearchived_snapshot_id

BlobRow == [rep : Rep \cup {None},             \* None: no row
            eligible : Nat \cup {None}]        \* eligible_after_seq

CompletionPC == {"represent", "lookup", "lockSnapshot", "guardedLookup",
                 "attachGuarded", "lockBlobs", "recheckBlobs", "recheckLookup",
                 "attachRechecked", "promote", "stamp", "record", "loser",
                 "loserCleanup", "loserUnlink", "attachLoser", "cleanup",
                 "cleanupUnlink"}
DeletionPC == {"delLockSnapshot", "delRecheck", "delLockBlobs", "delStamp",
               "delCommit"}
GcPC == {"gcNext", "gcCheck", "gcUnlink", "gcCommit"}

PC == {"idle"} \cup CompletionPC \cup DeletionPC \cup GcPC

\* Steps at which a request works on one digest.
DigestPC == {"cleanupUnlink", "loserUnlink", "gcCheck", "gcUnlink", "gcCommit"}

\* Steps at which a request has chosen the snapshot it is about.
TargetPC == DeletionPC \cup {"attachGuarded", "attachRechecked", "loserCleanup",
                             "loserUnlink", "attachLoser"}

Request == {r \in [pc : PC,
                   seen : Upload \cup {None},    \* first unguarded lookup
                   target : Upload \cup {None},  \* snapshot to attach to or delete
                   todo : SUBSET Digest,         \* left to promote, clean or collect
                   created : SUBSET Digest,      \* promotions with created = true
                   digest : Digest \cup {None},  \* being unlinked or collected
                   now : Nat] :                  \* the handler's reading of the clock
              /\ r.pc \in DigestPC => r.digest \in Digest
              /\ r.pc \in TargetPC => r.target \in Upload}

Idle == [pc |-> "idle", seen |-> None, target |-> None, todo |-> {},
         created |-> {}, digest |-> None, now |-> 0]

AbsentSnapshot == [state |-> "absent", completedAt |-> 0, deletedAt |-> 0,
                   tombstone |-> 0, from |-> None, rearchived |-> None]

NoRow == [rep |-> None, eligible |-> None]

TypeOK ==
    /\ snapshot \in [Upload -> SnapshotRow]
    /\ capture \in [Upload -> Upload \cup {None}]
    /\ latest \in [Session -> Upload \cup {None}]
    /\ blob \in [Digest -> BlobRow]
    /\ files \in SUBSET Digest
    /\ writer \in Collector \cup {None}
    /\ req \in [Proc -> Request]
    /\ held \in [Proc -> SUBSET Nat]
    /\ detached \in SUBSET Digest
    /\ server \in {"up", "down", "candidates", "sweep"}
    /\ clock \in Nat
    /\ crashes \in Nat

Init ==
    /\ snapshot = [u \in Upload |-> AbsentSnapshot]
    /\ capture = [u \in Upload |-> None]
    /\ latest = [s \in Session |-> None]
    /\ blob = [d \in Digest |-> NoRow]
    /\ files = {}
    /\ writer = None
    /\ req = [p \in Proc |-> Idle]
    /\ held = [p \in Proc |-> {}]
    /\ detached = {}
    /\ server = "up"
    /\ clock = 0
    /\ crashes = 0

-----------------------------------------------------------------------------
(* Queries over the committed rows *)

Live(s) == snapshot[s].state = "live"
Deleted(s) == snapshot[s].state = "deleted"
HasRow(d) == blob[d].rep # None

\* A blob is referenced by an artifact row of a live snapshot; artifact rows
\* are written with the snapshot and deleted when it is tombstoned.
Referenced(d) == \E s \in Upload : Live(s) /\ d \in DigestsOf[s]

\* Mutant: the lookup misses snapshots that rearchive a tombstone.
LiveOriginalsWith(f) ==
    {s \in Upload : Live(s) /\ FingerprintOf[s] = f /\ snapshot[s].from = None}

\* find_snapshot_by_fingerprint: the live rows of one semantic identity.
LiveWith(f) == {s \in Upload : Live(s) /\ FingerprintOf[s] = f}

\* Mutant: representations are not compared.
AlwaysCompatible(u) == TRUE

\* ensure_blob_representations_compatible
Compatible(u) ==
    \A d \in DigestsOf[u] : HasRow(d) => blob[d].rep = RepOf[u][d]

\* Descending (completed_at_seq, id): s is ahead of t.
Later(s, t) ==
    \/ snapshot[s].completedAt > snapshot[t].completedAt
    \/ snapshot[s].completedAt = snapshot[t].completedAt /\ s > t

\* Mutant: the upsert overwrites unconditionally.
AlwaysSupersedes(s, at, t) == TRUE

\* upsert_session_latest_context: may a snapshot s completed at the time at
\* replace the session's current one?
Supersedes(s, at, t) ==
    \/ t = None
    \/ at > snapshot[t].completedAt
    \/ at = snapshot[t].completedAt /\ s > t

LiveIn(c) == {s \in Upload : Live(s) /\ SessionOf[FingerprintOf[s]] = c}

\* The newest of a set of snapshots (as a singleton), None for an empty set.
Newest(S) ==
    IF S = {} THEN {None} ELSE {s \in S : \A t \in S \ {s} : Later(s, t)}

\* Mutant: without ORDER BY, any tombstone of the identity.
AnyTombstone(f) ==
    LET T == {s \in Upload : Deleted(s) /\ FingerprintOf[s] = f}
    IN IF T = {} THEN {None} ELSE T

\* Mutant: tombstones of rearchived snapshots are left out.
FirstTombstone(f) ==
    LET T == {s \in Upload : /\ Deleted(s) /\ FingerprintOf[s] = f
                             /\ snapshot[s].from = None
                             /\ snapshot[s].rearchived = None}
    IN IF T = {} THEN {None} ELSE T

\* ORDER BY deleted_at_seq DESC, id DESC LIMIT 1 over one identity's tombstones.
PriorTombstone(f) ==
    LET T == {s \in Upload : Deleted(s) /\ FingerprintOf[s] = f}
        After(s, t) ==
            \/ snapshot[s].deletedAt > snapshot[t].deletedAt
            \/ /\ snapshot[s].deletedAt = snapshot[t].deletedAt
               /\ snapshot[s].tombstone > snapshot[t].tombstone
    IN IF T = {} THEN {None} ELSE {s \in T : \A t \in T \ {s} : After(s, t)}

-----------------------------------------------------------------------------
(* Locks *)

Free(l) == \A q \in Proc : l \notin held[q]

Acquire(p, l) ==
    /\ Free(l)
    /\ held' = [held EXCEPT ![p] = @ \cup {l}]

\* A handler's local state.
Update(p, r) == req' = [req EXCEPT ![p] = r]
At(p, pc) == req[p].pc = pc
GoTo(p, pc) == Update(p, [req[p] EXCEPT !.pc = pc])

\* blob_locks_for_digests: each stripe once.
BlobLocks(D) == {BlobStripe[d] : d \in D}

\* Mutant: the stripes are awaited in no particular order.
AcquireAnyBlobLock(p, D, next) ==
    \E l \in BlobLocks(D) \ held[p] :
        /\ Acquire(p, l)
        /\ Update(p, [req[p] EXCEPT !.pc =
              IF BlobLocks(D) \subseteq held[p] \cup {l} THEN next ELSE @])

\* The loops that await the stripes one by one, in ascending order.
AcquireNextBlobLock(p, D, next) ==
    \E l \in BlobLocks(D) \ held[p] :
        /\ \A k \in BlobLocks(D) \ held[p] : l <= k
        /\ Acquire(p, l)
        /\ Update(p, [req[p] EXCEPT !.pc =
                      IF BlobLocks(D) \subseteq held[p] \cup {l} THEN next ELSE @])

\* The handler returns: its guards are dropped.
Finish(p) ==
    /\ Update(p, Idle)
    /\ held' = [held EXCEPT ![p] = {}]

-----------------------------------------------------------------------------
(* complete_upload.  The process is the upload; its stripe is held to the  *)
(* end, and assembling and verifying the chunks touches only what that     *)
(* lock protects.                                                          *)

BeginCompletion(u) ==
    /\ server = "up"
    /\ At(u, "idle")
    /\ capture[u] = None
    /\ Acquire(u, UploadStripe[u])
    /\ GoTo(u, "represent")
    /\ UNCHANGED <<database, files, detached, environment>>

CheckRepresentations(u) ==
    /\ \/ At(u, "represent") /\ Compatible(u) /\ GoTo(u, "lookup")
          /\ UNCHANGED held
       \/ At(u, "recheckBlobs") /\ Compatible(u) /\ GoTo(u, "recheckLookup")
          /\ UNCHANGED held
       \/ At(u, "represent") /\ ~Compatible(u) /\ Finish(u)
       \/ At(u, "recheckBlobs") /\ ~Compatible(u) /\ Finish(u)
    /\ UNCHANGED <<database, files, detached, environment>>

\* The unguarded lookup.
LookupFingerprint(u) ==
    /\ At(u, "lookup")
    /\ \/ \E s \in LiveWith(FingerprintOf[u]) :
             Update(u, [req[u] EXCEPT !.pc = "lockSnapshot", !.seen = s])
       \/ LiveWith(FingerprintOf[u]) = {} /\ GoTo(u, "lockBlobs")
    /\ UNCHANGED <<database, files, held, detached, environment>>

LockSnapshot(u) ==
    /\ At(u, "lockSnapshot")
    /\ Acquire(u, SnapshotStripe[FingerprintOf[u]])
    /\ GoTo(u, "guardedLookup")
    /\ UNCHANGED <<database, files, detached, environment>>

\* The recheck under the identity lock; on a miss the guard goes out of scope.
GuardedLookup(u) ==
    /\ At(u, "guardedLookup")
    /\ \/ /\ \E s \in LiveWith(FingerprintOf[u]) :
                Update(u, [req[u] EXCEPT !.pc = "attachGuarded", !.target = s])
          /\ UNCHANGED held
       \/ /\ LiveWith(FingerprintOf[u]) = {}
          /\ GoTo(u, "lockBlobs")
          /\ held' = [held EXCEPT ![u] = @ \ {SnapshotStripe[FingerprintOf[u]]}]
    /\ UNCHANGED <<database, files, detached, environment>>

LockBlobs(u) ==
    /\ At(u, "lockBlobs")
    /\ AcquireNextBlobLock(u, DigestsOf[u], "recheckBlobs")
    /\ UNCHANGED <<database, files, detached, environment>>

\* The recheck under the blob locks, without the identity lock.
RecheckFingerprint(u) ==
    /\ At(u, "recheckLookup")
    /\ \/ \E s \in LiveWith(FingerprintOf[u]) :
             Update(u, [req[u] EXCEPT !.pc = "attachRechecked", !.target = s])
       \/ /\ LiveWith(FingerprintOf[u]) = {}
          /\ Update(u, [req[u] EXCEPT !.pc = "promote", !.todo = DigestsOf[u]])
    /\ UNCHANGED <<database, files, held, detached, environment>>

\* Mutant: the transaction does not recheck that the snapshot is live.
AttachUnchecked(u) ==
    /\ req[u].pc \in {"attachGuarded", "attachRechecked", "attachLoser"}
    /\ writer = None
    /\ capture' = [capture EXCEPT ![u] = req[u].target]
    /\ Finish(u)
    /\ UNCHANGED <<snapshot, latest, blob, writer, files, detached, environment>>

\* finalize_upload_for_existing_snapshot: one transaction that rechecks that
\* the snapshot is live, completes the upload and inserts its capture.
\* The error of the losing path is handled like any error of recording.
AttachToExisting(u) ==
    /\ req[u].pc \in {"attachGuarded", "attachRechecked", "attachLoser"}
    /\ writer = None
    /\ LET s == req[u].target
           c == SessionOf[FingerprintOf[u]]
       IN \/ /\ Live(s)
             /\ capture' = [capture EXCEPT ![u] = s]
             /\ latest' = [latest EXCEPT ![c] =
                   IF Supersedes(s, snapshot[s].completedAt, @) THEN s ELSE @]
             /\ Finish(u)
          \/ /\ ~Live(s)
             /\ UNCHANGED <<capture, latest>>
             /\ IF At(u, "attachLoser")
                THEN /\ Update(u, [req[u] EXCEPT !.pc = "cleanup",
                                           !.todo = req[u].created])
                     /\ UNCHANGED held
                ELSE Finish(u)
    /\ UNCHANGED <<snapshot, blob, writer, files, detached, environment>>

\* promote_blob: link the assembled file, or verify the file already there.
PromoteBlob(u) ==
    /\ At(u, "promote")
    /\ \E d \in req[u].todo :
          /\ files' = files \cup {d}
          /\ Update(u, [req[u] EXCEPT
                !.created = IF d \in files THEN @ ELSE @ \cup {d},
                !.todo = @ \ {d},
                !.pc = IF req[u].todo = {d} THEN "stamp" ELSE @])
    /\ UNCHANGED <<database, held, detached, environment>>

\* A failed promotion may have linked the file; it is cleaned up as created.
PromotionFails(u) ==
    /\ At(u, "promote")
    /\ \E d \in req[u].todo :
          /\ files' \in {files, files \cup {d}}
          /\ Update(u, [req[u] EXCEPT !.pc = "cleanup",
                                !.todo = req[u].created \cup {d},
                                !.created = @ \cup {d}])
    /\ UNCHANGED <<database, held, detached, environment>>

\* record_completed_upload reads the clock before its transaction begins.
StampCompletion(u) ==
    /\ At(u, "stamp")
    /\ Update(u, [req[u] EXCEPT !.pc = "record", !.now = clock])
    /\ UNCHANGED <<database, files, held, detached, environment>>

\* Mutant: a pending deadline survives the new reference.
BlobsWithOldDeadlines(u) ==
    [d \in Digest |-> IF d \in DigestsOf[u] /\ ~HasRow(d)
                      THEN [rep |-> RepOf[u][d], eligible |-> None]
                      ELSE blob[d]]

\* get_or_create_blob for every digest: pending deadlines are cleared.
BlobsWith(u) ==
    [d \in Digest |-> IF d \in DigestsOf[u]
                      THEN [rep |-> IF HasRow(d) THEN blob[d].rep
                                                 ELSE RepOf[u][d],
                            eligible |-> None]
                      ELSE blob[d]]

\* The winning transaction: snapshot, artifacts, capture, latest context and
\* the link from the identity's newest tombstone become visible together.
SnapshotsWith(u, prior) ==
    [s \in Upload |->
        IF s = u
        THEN [AbsentSnapshot EXCEPT !.state = "live",
                                    !.completedAt = req[u].now,
                                    !.from = prior]
        ELSE IF s = prior /\ snapshot[s].rearchived = None
        THEN [snapshot[s] EXCEPT !.rearchived = u]
        ELSE snapshot[s]]

RecordCompletion(u) ==
    /\ At(u, "record")
    /\ writer = None
    /\ Compatible(u)
    /\ \/ /\ LiveWith(FingerprintOf[u]) = {}
          /\ \E prior \in PriorTombstone(FingerprintOf[u]) :
                snapshot' = SnapshotsWith(u, prior)
          /\ blob' = BlobsWith(u)
          /\ capture' = [capture EXCEPT ![u] = u]
          /\ latest' = [latest EXCEPT ![SessionOf[FingerprintOf[u]]] =
                          IF Supersedes(u, req[u].now, @) THEN u ELSE @]
          /\ Finish(u)
       \/ /\ LiveWith(FingerprintOf[u]) # {}   \* the insert conflicts: rollback
          /\ GoTo(u, "loser")
          /\ UNCHANGED <<snapshot, blob, capture, latest, held>>
    /\ UNCHANGED <<writer, files, detached, environment>>

\* Mutant: the loser does not notice that the winner is gone.
FetchWinnerUnchecked(u) ==
    /\ At(u, "loser")
    /\ \E s \in LiveWith(FingerprintOf[u]) \cup {None} :
          Update(u, [req[u] EXCEPT !.pc = "loserCleanup", !.target = s,
                                   !.todo = req[u].created])
    /\ UNCHANGED <<database, files, held, detached, environment>>

\* The loser reads the winner; if it was deleted meanwhile the read fails.
FetchWinner(u) ==
    /\ At(u, "loser")
    /\ \/ \E s \in LiveWith(FingerprintOf[u]) :
             Update(u, [req[u] EXCEPT !.pc = "loserCleanup", !.target = s,
                                !.todo = req[u].created])
       \/ /\ LiveWith(FingerprintOf[u]) = {}
          /\ Update(u, [req[u] EXCEPT !.pc = "cleanup",
                                !.todo = req[u].created])
    /\ UNCHANGED <<database, files, held, detached, environment>>

\* Any error inside record_completed_upload.
RecordingFails(u) ==
    /\ req[u].pc \in {"record", "loser", "loserCleanup", "loserUnlink",
                    "attachLoser"}
    /\ Update(u, [req[u] EXCEPT !.pc = "cleanup", !.todo = req[u].created,
                          !.digest = None])
    /\ UNCHANGED <<database, files, held, detached, environment>>

\* cleanup_uncommitted_promotions: per created digest, read the metadata, then
\* unlink the file if it has no row.
CleanupCheck(u) ==
    /\ req[u].pc \in {"cleanup", "loserCleanup"}
    /\ \E d \in req[u].todo :
          Update(u, [req[u] EXCEPT
            !.todo = @ \ {d},
            !.digest = IF HasRow(d) THEN @ ELSE d,
            !.pc = IF HasRow(d) THEN @
                      ELSE IF @ = "cleanup" THEN "cleanupUnlink" ELSE "loserUnlink"])
    /\ UNCHANGED <<database, files, held, detached, environment>>

CleanupUnlink(u) ==
    /\ req[u].pc \in {"cleanupUnlink", "loserUnlink"}
    /\ files' = files \ {req[u].digest}
    /\ Update(u, [req[u] EXCEPT
          !.digest = None,
          !.pc = IF @ = "cleanupUnlink" THEN "cleanup" ELSE "loserCleanup"])
    /\ UNCHANGED <<database, held, detached, environment>>

CleanupDone(u) ==
    /\ req[u].todo = {}
    /\ \/ At(u, "cleanup") /\ Finish(u)
       \/ At(u, "loserCleanup") /\ GoTo(u, "attachLoser") /\ UNCHANGED held
    /\ UNCHANGED <<database, files, detached, environment>>

-----------------------------------------------------------------------------
(* delete_snapshot *)

\* A deletion of a snapshot already tombstoned only reads.
RequestDeletion(p) ==
    /\ server = "up"
    /\ At(p, "idle")
    /\ \E s \in Upload :
          /\ Live(s)
          /\ Update(p, [req[p] EXCEPT !.pc = "delLockSnapshot", !.target = s])
    /\ UNCHANGED <<database, files, held, detached, environment>>

\* Mutant: deletion does not take the identity lock.
DeletionSkipsSnapshotLock(p) ==
    /\ At(p, "delLockSnapshot")
    /\ GoTo(p, "delRecheck")
    /\ UNCHANGED <<database, files, held, detached, environment>>

DeletionLocksSnapshot(p) ==
    /\ At(p, "delLockSnapshot")
    /\ Acquire(p, SnapshotStripe[FingerprintOf[req[p].target]])
    /\ GoTo(p, "delRecheck")
    /\ UNCHANGED <<database, files, detached, environment>>

DeletionRechecks(p) ==
    /\ At(p, "delRecheck")
    /\ \/ Live(req[p].target) /\ GoTo(p, "delLockBlobs") /\ UNCHANGED held
       \/ ~Live(req[p].target) /\ Finish(p)
    /\ UNCHANGED <<database, files, detached, environment>>

DeletionLocksBlobs(p) ==
    /\ At(p, "delLockBlobs")
    /\ AcquireNextBlobLock(p, DigestsOf[req[p].target], "delStamp")
    /\ UNCHANGED <<database, files, detached, environment>>

StampDeletion(p) ==
    /\ At(p, "delStamp")
    /\ Update(p, [req[p] EXCEPT !.pc = "delCommit", !.now = clock])
    /\ UNCHANGED <<database, files, held, detached, environment>>

\* Mutant: the deadline is the time of deletion itself.
BlobsWithoutGrace(s, now) ==
    [d \in Digest |->
        IF d \in DigestsOf[s] /\ \A t \in Upload \ {s} : Live(t) => d \notin DigestsOf[t]
        THEN [blob[d] EXCEPT !.eligible = now]
        ELSE blob[d]]

\* schedule_or_clear_blob_candidate for each of the snapshot's blobs.
BlobsWithout(s, now) ==
    [d \in Digest |->
        IF d \in DigestsOf[s]
        THEN [blob[d] EXCEPT !.eligible =
                 IF \E t \in Upload \ {s} : Live(t) /\ d \in DigestsOf[t]
                 THEN None ELSE now + Grace]
        ELSE blob[d]]

\* The deletion transaction.
CommitDeletion(p) ==
    LET s == req[p].target
        c == SessionOf[FingerprintOf[s]]
    IN
    /\ At(p, "delCommit")
    /\ writer = None
    /\ IF Live(s)
       THEN /\ snapshot' = [snapshot EXCEPT
                  ![s].state = "deleted",
                  ![s].deletedAt = req[p].now,
                  ![s].tombstone = 1 + Cardinality({t \in Upload : Deleted(t)})]
            /\ blob' = BlobsWithout(s, req[p].now)
            /\ \E t \in Newest(LiveIn(c) \ {s}) :
                  latest' = [latest EXCEPT ![c] = t]
       ELSE UNCHANGED <<snapshot, blob, latest>>
    /\ Finish(p)
    /\ UNCHANGED <<capture, writer, files, detached, environment>>

-----------------------------------------------------------------------------
(* collect_orphaned_blobs_at *)

EligibleAt(d, now) ==
    HasRow(d) /\ blob[d].eligible # None /\ blob[d].eligible <= now

\* One bounded batch, oldest deadlines first.
BeginCollection(g) ==
    /\ server = "up"
    /\ At(g, "idle")
    /\ LET E == {d \in Digest : EligibleAt(d, clock)} IN
       \E S \in SUBSET E :
          /\ S # {}
          /\ Cardinality(S) = IF Cardinality(E) < GcBatchSize
                              THEN Cardinality(E) ELSE GcBatchSize
          /\ \A d \in S, e \in E \ S : blob[d].eligible <= blob[e].eligible
          /\ Update(g, [req[g] EXCEPT !.pc = "gcNext", !.todo = S,
                                !.now = clock])
    /\ UNCHANGED <<database, files, held, detached, environment>>

\* Mutant: the collector does not take the digest's lock.
TakeCandidateUnlocked(g) ==
    /\ At(g, "gcNext")
    /\ \E d \in req[g].todo :
          Update(g, [req[g] EXCEPT !.pc = "gcCheck", !.digest = d,
                                   !.todo = @ \ {d}])
    /\ UNCHANGED <<database, files, held, detached, environment>>

LockCandidate(g) ==
    /\ At(g, "gcNext")
    /\ \E d \in req[g].todo :
          /\ Acquire(g, BlobStripe[d])
          /\ Update(g, [req[g] EXCEPT !.pc = "gcCheck", !.digest = d,
                                !.todo = @ \ {d}])
    /\ UNCHANGED <<database, files, detached, environment>>

Collectable(g) ==
    EligibleAt(req[g].digest, req[g].now) /\ ~Referenced(req[g].digest)

\* Not a candidate any more; a candidate with a live reference is cleared.
SkipCandidate(g) ==
    /\ At(g, "gcCheck")
    /\ writer = None
    /\ ~Collectable(g)
    /\ blob' = [blob EXCEPT ![req[g].digest].eligible =
                   IF EligibleAt(req[g].digest, req[g].now) THEN None ELSE @]
    /\ Update(g, [req[g] EXCEPT !.pc = "gcNext", !.digest = None])
    /\ held' = [held EXCEPT ![g] = {}]
    /\ UNCHANGED <<snapshot, capture, latest, writer, files, detached,
                   environment>>

\* The row is deleted in a transaction that stays open over the unlink.
DeleteRow(g) ==
    /\ At(g, "gcCheck")
    /\ writer = None
    /\ Collectable(g)
    /\ writer' = g
    /\ GoTo(g, "gcUnlink")
    /\ UNCHANGED <<snapshot, capture, latest, blob, files, held, detached,
                   environment>>

UnlinkBlob(g) ==
    /\ At(g, "gcUnlink")
    /\ files' = files \ {req[g].digest}
    /\ GoTo(g, "gcCommit")
    /\ UNCHANGED <<database, held, detached, environment>>

CommitCollection(g) ==
    /\ At(g, "gcCommit")
    /\ blob' = [blob EXCEPT ![req[g].digest] = NoRow]
    /\ writer' = None
    /\ Update(g, [req[g] EXCEPT !.pc = "gcNext", !.digest = None])
    /\ held' = [held EXCEPT ![g] = {}]
    /\ UNCHANGED <<snapshot, capture, latest, files, detached, environment>>

FinishCollection(g) ==
    /\ At(g, "gcNext")
    /\ req[g].todo = {}
    /\ Finish(g)
    /\ UNCHANGED <<database, files, detached, environment>>

-----------------------------------------------------------------------------
(* Requests that end early *)

\* The request is cancelled at an await, or returns an error that needs no
\* cleanup: guards are dropped and an open transaction is rolled back.
Abandon(p) ==
    /\ ~At(p, "idle")
    /\ Finish(p)
    /\ writer' = IF writer = p THEN None ELSE writer
    /\ UNCHANGED <<snapshot, capture, latest, blob, files, detached, environment>>

\* Cancelled while tokio runs the unlink on its blocking pool: the handler is
\* gone and its locks and transaction with it, and the unlink still happens.
AbandonDuringUnlink(p) ==
    /\ DetachedUnlink
    /\ req[p].pc \in {"gcUnlink", "cleanupUnlink", "loserUnlink"}
    /\ Finish(p)
    /\ detached' = detached \cup {req[p].digest}
    /\ writer' = IF writer = p THEN None ELSE writer
    /\ UNCHANGED <<snapshot, capture, latest, blob, files, environment>>

DetachedUnlinkRuns ==
    /\ \E d \in detached : files' = files \ {d} /\ detached' = detached \ {d}
    /\ UNCHANGED <<database, req, held, environment>>

-----------------------------------------------------------------------------
(* Crash and restart *)

Crash ==
    /\ crashes < MaxCrashes
    /\ crashes' = crashes + 1
    /\ server' = "down"
    /\ req' = [p \in Proc |-> Idle]
    /\ held' = [p \in Proc |-> {}]
    /\ writer' = None
    /\ detached' = {}
    /\ UNCHANGED <<snapshot, capture, latest, blob, files, clock>>

\* rebuild_session_latest_context over every session.
RecoverContext ==
    /\ server = "down"
    /\ server' = "candidates"
    /\ latest' \in [Session -> Upload \cup {None}]
    /\ \A c \in Session : latest'[c] \in Newest(LiveIn(c))
    /\ UNCHANGED <<snapshot, capture, blob, files, writer, req, held, detached,
                   clock, crashes>>

\* recover_unreferenced_blobs, its transaction.
RecoverCandidates ==
    /\ server = "candidates"
    /\ server' = "sweep"
    /\ blob' = [d \in Digest |->
          IF ~HasRow(d) THEN blob[d]
          ELSE IF Referenced(d) THEN [blob[d] EXCEPT !.eligible = None]
          ELSE IF blob[d].eligible = None
               THEN [blob[d] EXCEPT !.eligible = clock + Grace]
          ELSE blob[d]]
    /\ UNCHANGED <<snapshot, capture, latest, files, writer, req, held, detached,
                   clock, crashes>>

\* recover_unreferenced_blobs, its directory walk: one file without a row.
SweepFile ==
    /\ server = "sweep"
    /\ \E d \in files : ~HasRow(d) /\ files' = files \ {d}
    /\ UNCHANGED <<database, req, held, detached, server, clock, crashes>>

Serve ==
    /\ server = "sweep"
    /\ \A d \in files : HasRow(d)
    /\ server' = "up"
    /\ UNCHANGED <<database, files, req, held, detached, clock, crashes>>

Tick ==
    /\ clock < MaxClock
    /\ clock' = clock + 1
    /\ UNCHANGED <<database, files, req, held, detached, server, crashes>>

-----------------------------------------------------------------------------

\* What complete_upload does by itself, once started.
CompletionStep(u) ==
    \/ CheckRepresentations(u) \/ LookupFingerprint(u) \/ LockSnapshot(u)
    \/ GuardedLookup(u) \/ LockBlobs(u) \/ RecheckFingerprint(u)
    \/ AttachToExisting(u) \/ PromoteBlob(u) \/ StampCompletion(u)
    \/ RecordCompletion(u) \/ FetchWinner(u) \/ CleanupCheck(u)
    \/ CleanupUnlink(u) \/ CleanupDone(u)

DeletionStep(p) ==
    \/ DeletionLocksSnapshot(p) \/ DeletionRechecks(p) \/ DeletionLocksBlobs(p)
    \/ StampDeletion(p) \/ CommitDeletion(p)

CollectionStep(g) ==
    \/ LockCandidate(g) \/ SkipCandidate(g) \/ DeleteRow(g) \/ UnlinkBlob(g)
    \/ CommitCollection(g) \/ FinishCollection(g)

Next ==
    \/ \E u \in Upload : \/ BeginCompletion(u) \/ CompletionStep(u)
                         \/ PromotionFails(u) \/ RecordingFails(u)
    \/ \E p \in Deleter : RequestDeletion(p) \/ DeletionStep(p)
    \/ \E g \in Collector : BeginCollection(g) \/ CollectionStep(g)
    \/ \E p \in Proc : Abandon(p) \/ AbandonDuringUnlink(p)
    \/ DetachedUnlinkRuns
    \/ Crash \/ RecoverContext \/ RecoverCandidates \/ SweepFile \/ Serve
    \/ Tick

Spec == Init /\ [][Next]_vars
-----------------------------------------------------------------------------
(* Properties *)

\* Every digest of a live snapshot has its blobs row and its file: neither a
\* collector pass (deletion.rs), nor the cleanup of a failed or losing
\* completion (ingestion.rs), nor recovery, ever takes away what a snapshot
\* that can be downloaded needs.
LiveSnapshotsStored ==
    \A s \in Upload : Live(s) =>
        \A d \in DigestsOf[s] : HasRow(d) /\ d \in files

\* A digest has one immutable representation: what the manifest of each live
\* snapshot declares is what the shared row says, although completions of the
\* same bytes with other metadata run concurrently
\* (ensure_blob_representations_compatible).
RepresentationsAgree ==
    \A s \in Upload : Live(s) =>
        \A d \in DigestsOf[s] : blob[d].rep = RepOf[s][d]

\* A completion that found its snapshot under the identity lock commits its
\* capture to a live snapshot: deletion cannot come between the guarded lookup
\* and the transaction (complete_upload, delete_snapshot).
GuardedTargetIsLive ==
    \A u \in Upload : At(u, "attachGuarded") => Live(req[u].target)

\* At most one live snapshot per semantic identity, although completions of
\* one identity with disjoint stored bytes share no lock
\* (snapshots_session_live_fingerprint_idx, record_completed_upload).
OneLivePerFingerprint ==
    \A s, t \in Upload :
        Live(s) /\ Live(t) /\ FingerprintOf[s] = FingerprintOf[t] => s = t

\* Each rearchive continues the identity's newest tombstone and no other
\* snapshot continues the same one: the two links are inverse to each other
\* (rearchived_from_tombstone_id, rearchived_snapshot_id).
RearchiveLinksAgree ==
    \A s, t \in Upload :
        /\ snapshot[s].from = t <=> snapshot[t].rearchived = s
        /\ snapshot[s].from = t => /\ Deleted(t)
                                   /\ FingerprintOf[s] = FingerprintOf[t]

\* Once an identity was deleted, its later snapshots all carry a tombstone:
\* only the identity's first snapshot has none (record_completed_upload).
OnlyFirstHasNoTombstone ==
    \A s, t \in Upload :
        /\ s # t /\ FingerprintOf[s] = FingerprintOf[t]
        /\ snapshot[s].state # "absent" /\ snapshot[t].state # "absent"
        => snapshot[s].from # None \/ snapshot[t].from # None

\* The session-list projection names the newest live snapshot of the session,
\* whatever the order in which completions that read the clock early commit,
\* and after every deletion (upsert_session_latest_context and the two
\* rebuild_session_latest_context).
LatestIsNewestLive == \A c \in Session : latest[c] \in Newest(LiveIn(c))

\* A row has a collection deadline exactly when no live snapshot references
\* it: no orphan escapes the collector for ever, and a rearchived blob has
\* lost its old deadline (schedule_or_clear_blob_candidate, get_or_create_blob).
DeadlineIffUnreferenced ==
    \A d \in Digest : HasRow(d) => (blob[d].eligible # None <=> ~Referenced(d))

\* The order that excludes a cycle of waiting requests: a request waits only
\* for a stripe above every stripe it holds (the ordering in service.rs).
WaitingFor(p) ==
    CASE At(p, "lockSnapshot") -> {SnapshotStripe[FingerprintOf[p]]}
      [] At(p, "lockBlobs") -> BlobLocks(DigestsOf[p]) \ held[p]
      [] At(p, "delLockSnapshot") -> {SnapshotStripe[FingerprintOf[req[p].target]]}
      [] At(p, "delLockBlobs") -> BlobLocks(DigestsOf[req[p].target]) \ held[p]
      [] At(p, "gcNext") -> BlobLocks(req[p].todo)
      [] OTHER -> {}

LocksAscend ==
    \A p \in Proc : \A l \in WaitingFor(p) : \A k \in held[p] : k < l

\* A capture is added only to a snapshot that is live when it is added, and is
\* never moved to another one (finalize_upload_for_existing_snapshot,
\* record_completed_upload).
CapturesJoinLiveSnapshots ==
    [][\A u \in Upload : capture'[u] # capture[u] =>
          /\ capture[u] = None
          /\ snapshot'[capture'[u]].state = "live"]_vars

\* A file is removed only when no live snapshot needs it and every tombstoned
\* snapshot that used it was deleted at least the grace period ago: a
\* rearchive cannot make a blob inherit an older deadline
\* (collect_orphaned_blobs_at, get_or_create_blob, blob_gc_grace).
GraceIsHonoured ==
    [][\A d \in files \ files' : \A s \in Upload :
          d \in DigestsOf[s] =>
             ~Live(s) /\ (Deleted(s) => snapshot[s].deletedAt + Grace <= clock)]_vars

\* tokio's mutexes are FIFO and SQLite's single writer ends its transaction,
\* so a started request that is not cancelled runs on; requests need not be
\* made, fail or be cancelled.
Fairness ==
    /\ \A u \in Upload : SF_vars(CompletionStep(u))
    /\ \A p \in Deleter : SF_vars(DeletionStep(p))
    /\ \A g \in Collector : SF_vars(CollectionStep(g))
    /\ WF_vars(RecoverContext) /\ WF_vars(RecoverCandidates)
    /\ WF_vars(SweepFile) /\ WF_vars(Serve)

FairSpec == Spec /\ Fairness

\* Every request that was started ends, and a server that went down serves
\* again: completion, deletion and collection never wait on each other for
\* ever (service.rs), and recovery terminates.
RequestsFinish ==
    /\ \A p \in Proc : req[p].pc # "idle" ~> req[p].pc = "idle"
    /\ server # "up" ~> server = "up"
-----------------------------------------------------------------------------
(* The inductive invariant behind LiveSnapshotsStored and its companions.  *)

\* From here on a completion holds the stripe of every digest it stores.
AfterBlobLocks ==
    {"recheckBlobs", "recheckLookup", "attachRechecked", "promote", "stamp",
     "record", "loser", "loserCleanup", "loserUnlink", "attachLoser",
     "cleanup", "cleanupUnlink"}

LocksExclusive ==
    \A p, q \in Proc : p # q => held[p] \cap held[q] = {}

\* What each request holds at each of its steps.
LocksHeld ==
    /\ \A u \in Upload :
          /\ req[u].pc \in AfterBlobLocks => BlobLocks(DigestsOf[u]) \subseteq held[u]
          /\ req[u].pc \in {"guardedLookup", "attachGuarded"} =>
                SnapshotStripe[FingerprintOf[u]] \in held[u]
    /\ \A p \in Deleter :
          req[p].pc \in DeletionPC \ {"delLockSnapshot"} =>
             SnapshotStripe[FingerprintOf[req[p].target]] \in held[p]
    /\ \A g \in Collector :
          req[g].pc \in {"gcCheck", "gcUnlink", "gcCommit"} =>
             BlobStripe[req[g].digest] \in held[g]

\* What each completion remembers.
RequestsConsistent ==
    /\ server # "up" => \A p \in Proc : req[p].pc = "idle"
    /\ \A u \in Upload :
          /\ req[u].todo \subseteq DigestsOf[u]
          /\ req[u].created \subseteq DigestsOf[u]
          /\ req[u].pc \in TargetPC =>
                FingerprintOf[req[u].target] = FingerprintOf[u]

\* The open transaction is a collector's, and what it deletes stays unreferenced.
CollectorOwnsWriter ==
    \A g \in Collector :
        /\ req[g].pc \in {"gcUnlink", "gcCommit"} <=> writer = g
        /\ req[g].pc \in {"gcUnlink", "gcCommit"} => ~Referenced(req[g].digest)

\* A file about to be unlinked by a cleanup still has no row.
CleanupUnreferenced ==
    \A u \in Upload : req[u].pc \in {"cleanupUnlink", "loserUnlink"} =>
        req[u].digest \in DigestsOf[u] /\ ~HasRow(req[u].digest)

\* A completion about to record its snapshot finds every file in place.
PromotedFilesStay ==
    \A u \in Upload :
        /\ req[u].pc = "promote" => DigestsOf[u] \ req[u].todo \subseteq files
        /\ req[u].pc \in {"stamp", "record"} => DigestsOf[u] \subseteq files

LockInv == TypeOK /\ LocksExclusive /\ LocksHeld /\ RequestsConsistent

MetadataInv ==
    /\ LockInv
    /\ CollectorOwnsWriter
    /\ CleanupUnreferenced
    /\ RepresentationsAgree
    /\ GuardedTargetIsLive
    /\ OneLivePerFingerprint
    /\ DeadlineIffUnreferenced

StorageInv ==
    /\ MetadataInv
    /\ detached = {}
    /\ PromotedFilesStay
    /\ LiveSnapshotsStored
=============================================================================
