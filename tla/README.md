# Patwari archive server: TLA+ models, checks and proofs

Patwari (`crates/patwari-server`) is a self-hosted archive of agent sessions. Clients
upload a manifest and its artifacts in chunks; a verified upload becomes an immutable
*snapshot* whose artifacts are content-addressed *blobs* shared between snapshots.
Snapshots can be deleted (leaving a tombstone) and archived again; blobs nobody
references are collected after a grace period. Metadata is in one SQLite database (WAL),
bytes are files; concurrent requests are serialized by striped in-memory mutexes.

This directory models the parts of the server where concurrency, cancellation and
crashes meet, checks them with TLC on small instances, and proves every safety property
that TLC checks with TLAPS, for every value of the constants.

## Inventory

| Component (source) | State | Operations | What is hard | What makes it correct |
|---|---|---|---|---|
| Upload completion (`ingestion.rs`) | `uploads`, `snapshots`, `artifacts`, `captures`, `blobs`, blob files | `complete_upload`: assemble, verify, deduplicate, promote, record | two uploads of one identity that share no lock; a snapshot deleted between lookup and attachment; promotion before metadata; errors and timeouts at every await | one live snapshot per identity, no capture on a deleted snapshot, no row or file lost |
| Snapshot deletion (`deletion.rs`) | `tombstones`, `deletion_audits`, `snapshots.deleted_at`, GC deadlines, session projection | `delete_snapshot` | races with completion, with the collector and with itself | blobs get a deadline exactly when unreferenced; the projection names the newest live snapshot |
| Blob GC (`deletion.rs`) | `blobs`, blob files, one open write transaction | `collect_orphaned_blobs_at` | unlink inside an open transaction, stale batch, cancellation mid-unlink | never removes what a live snapshot needs; honours the grace period |
| Lock stripes (`service.rs`) | 3 x 256 mutexes | `upload_lock`, `snapshot_lock`, `blob_locks_for_digests` | collisions, several stripes at once | no cycle of waiting requests |
| Startup recovery (`ingestion.rs`, `service.rs`) | everything durable | projection rebuild, blob candidates, file sweep, active uploads, expiry | a crash between any two durable steps, also of recovery | leftovers are reclaimed, accepted data is not |
| Upload transfer (`ingestion.rs`) | `uploads`, `upload_chunks`, `upload_audits`, chunk files | create, put chunk, status, abandon, expire | files before rows, retried chunks, reuse of capture ids, expiry in the middle of a request | a capture id names one manifest; accepted chunks are on disk |
| Maintenance gate (`maintenance.rs`) | lease row, advisory file lock | shared, bootstrap and exclusive permits | several processes, stale and expired leases, a holder that dies, a stream of refused requests | the two sides exclude each other; nobody clears another's lease; every window closes |
| Backup and restore (`backup.rs`) | staging and output directories | create, verify, restore | rows, database and files read one after the other; file operations that outlive their requests; damage and other programs between a check and its use | a finished backup is one consistent archive; restore replaces nothing and installs what it scanned |
| Integrity scans (`integrity.rs`) | `integrity_runs`, `integrity_findings` | scan, list | scanning page by page while the archive changes | no race is reported as corruption of a blob; no damage goes unnoticed in a healthy run |
| Retrieval (`retrieval.rs`) | none (download permits) | get, list, download | several queries with nothing held between them; a download racing deletion, collection and clean-up | what is live stays readable |
| Pagination (`pagination.rs`) | the client's cursor | first page, next page | pages across concurrent inserts and deletes at any sort key | a row that stays put is listed exactly once |
| Inventory, contract, validation, config, CLI, health, errors | none | counts, parsing, limits | widths and limits | |

Components interact through the database rows (each write transaction is atomic and
SQLite admits one writer at a time), through the blob files, and through the mutexes:
completion takes upload -> snapshot -> blob stripes, deletion snapshot -> blob stripes,
the collector and the integrity scan one blob stripe at a time, a download none. Every API
request holds a shared permit of the maintenance gate while it runs, the server's bootstrap a
shared file permit, and `backup create` the exclusive one, from a process of its own. Nothing
runs periodically: collection, expiry and scans happen on request, at start-up, or (expiry)
when an upload is created.

## Modules

| Module | What it is |
|---|---|
| `Archive` | completion, deletion, collection, locks, cancellation, crash and recovery |
| `SnapshotStore` | what the archive promises its clients, without locks, requests, files or crashes |
| `ArchiveRefinement` | the refinement mapping from `Archive` to `SnapshotStore` |
| `Transfer` | capture ids, chunks, abandonment, expiry and recovery of active uploads |
| `Maintenance` | the gate: file lock, lease, shared and exclusive permits |
| `ArchiveBackup` | `backup create` composed with the gate and a running server; extends `Maintenance` |
| `Restore` | `backup verify` and `backup restore` of a finished backup |
| `Integrity` | an integrity scan beside the requests of the server |
| `Downloads` | reads of a snapshot or an artifact beside the same requests; extends `Integrity` |
| `Listing` | the seven paginated collections beside captures and deletions |
| `MCArchive`, `MCTransfer`, `MCBackup`, `MCRestore`, `MCIntegrity`, `MCListing` | constants and symmetries of TLC's instances |
| `ArchiveProofs` | typing, the locking discipline and the order of the locks of `Archive` |
| `ArchiveSafetyProofs` | the metadata and storage invariants, the session projection and the grace period |
| `ArchiveRefinementProofs` | `Archive` implements `SnapshotStore`; captures and rearchive links |
| `TransferProofs` | capture ids, fates, expiry, statuses and chunk files of `Transfer` |
| `BackupProofs` | the gate by itself; server and backup command implement it; backups are complete |
| `RestoreProofs` | `Restore` against damage, other programs and other restores |
| `IntegrityProofs` | scans and reads beside the requests of the server |
| `ListingProofs` | traversals of every collection |

`ArchiveBackup`, `Integrity` and `Downloads` each meet the server's requests again. Composing
them with `Archive` itself is out of TLC's reach, so they keep of the requests only what the
component can see: transactions that commit at once, files linked and unlinked under the digest
locks before the commit, and the same file operations running late when a request is dropped.

### `Archive`

*State.* `snapshot` is the `snapshots` row together with its tombstone (`tombstones.snapshot_id`
is UNIQUE); a snapshot is named by the upload whose manifest it records (`manifests.upload_id`
is UNIQUE and an upload completes once). `capture` gives each completed upload its snapshot,
`latest` is `session_latest_context`, `blob` the `blobs` rows by digest (representation and
`eligible_after_seq`), `files` the blob files. Artifact rows exist exactly while their
snapshot is live (inserted with it, deleted by its deletion), so `Referenced` is defined from
the live manifests. `req` and `held` are the local state of the running handlers and the
mutex guards they own; `writer` is the collector whose transaction is open.

*Actions.* One per step of a handler between two awaits at which another request may act:

* completion: `BeginCompletion`, `CheckRepresentations`, `LookupFingerprint`, `LockSnapshot`,
  `GuardedLookup`, `LockBlobs`, `RecheckFingerprint`, `PromoteBlob`, `StampCompletion`,
  `RecordCompletion` (the winning transaction, or its rollback), `FetchWinner`,
  `CleanupCheck`/`CleanupUnlink`/`CleanupDone`, `AttachToExisting`; and the failures
  `PromotionFails` and `RecordingFails`, which run the cleanup the code runs;
* deletion: `RequestDeletion`, `DeletionLocksSnapshot`, `DeletionRechecks`,
  `DeletionLocksBlobs`, `StampDeletion`, `CommitDeletion`;
* collection: `BeginCollection`, `LockCandidate`, `SkipCandidate`, `DeleteRow`,
  `UnlinkBlob`, `CommitCollection`, `FinishCollection`;
* `Abandon`: a handler dropped at an await (request timeout, disconnect) or ending with an
  error that needs no cleanup: guards go, an open transaction rolls back.
  `AbandonDuringUnlink`: dropped while `tokio::fs::remove_file` runs on the blocking pool,
  so that the unlink still happens (`DetachedUnlinkRuns`); enabled by `DetachedUnlink`;
* `Crash` at any point, also during recovery, then `RecoverContext`, `RecoverCandidates`,
  `SweepFile`, `Serve`.

The FNV-1a stripe hashes are arbitrary functions (`UploadStripe`, `SnapshotStripe`,
`BlobStripe`), numbered so that the three families are ordered as `service.rs` orders them.
Timestamps are readings of one clock; a handler that reads it before its transaction does so
in an action of its own. Ids are ordered but not in the order of commits, which includes
every order UUIDv7 can give.

### `Transfer`

*State.* `upload` is the `uploads` row with its manifest, `audit` the redacted `upload_audits`
row that replaces it, `accepted` the `upload_chunks` rows, `chunkFile` the linked chunk files,
`unsynced` the links whose directory has not been synced since. `req` and `lock` are the
running handlers and the upload stripes. `late` holds file operations that were handed to
tokio's blocking pool by a request dropped since: they still happen, without the lock. A
chunk's length and checksum are one value, its body; manifests that legacy digests make
equivalent are one manifest.

*Actions.* `RequestCreate`, then the sweep `FindExpired`, `LockExpired`, `ExpireCandidate`,
`FinishSweep` (shared with `RequestExpiry`), `PersistUpload` and `Respond`; for one upload
`RequestUpload` or `RequestChunk`, `LockUpload`, and, by what the row says, `AnswerFromRow`,
`ExpireOnAccess`, `AbandonUpload`, `CheckChunk` or `PrepareArtifacts`. A chunk goes through
`LinkChunk`, `SyncChunk`, `RecordChunk` and `RefreshStatus`, or ends in `AnswerConflict` or
`SyncFails`/`UnlinkChunk`. `CommitCompletion` is the upload's part of the transactions that
`Archive` models. `RemoveUploadDir` follows every ending. `Cancel` drops a request at an await
or ends it with an error; between the link and the start of the sync there is none.
`CancelBlocking` drops it during a file operation, and `FinishLate` is that operation's end.
After `Crash` (with `PowerLoss` any unsynced links are gone) come `StartRecovery`,
`RecoverEnded`, `RecoverChunk`, `RecoverStatus` and `ServeAfterSweep`, which is one step since
nobody is served meanwhile and a crash in its middle is repaired by the next one.

*Time* counts half seconds and `upload_expiry` is in whole seconds, so that `TextLeq` has both
shapes of an RFC 3339 text: `07.5Z` sorts before `07Z`. The sweep's query uses the text order,
its recheck under the lock (`IsExpired`) the real one. So nothing expires early
(`NoEarlyExpiry`), but the sweep of `create_upload` can miss an upload that expired within the
same second and return it, although the sweep is there so that a stale transfer is not pinned
(`ingestion.rs:140`); the next request on that upload ends it.

### `SnapshotStore` and `ArchiveRefinement`

`SnapshotStore` has the current snapshot of each identity, the receipt of each upload and the
retired snapshots, and three actions: `Store`, `Deduplicate`, `Retire`. `ArchiveRefinement` reads
the rows of `Archive` as this state: `current` is the live row with the fingerprint, `receipt` the
capture, `retired` the tombstones. `ImplementsStore` says that the winning transaction of
`RecordCompletion` is `Store`, `AttachToExisting` is `Deduplicate`, `CommitDeletion` is `Retire`,
and that every other step (locks, files, failures, collection, crash, recovery) is invisible.

### `Maintenance` and `ArchiveBackup`

*State.* `sharers` and `owner` are the advisory file lock, `lease` the row of `maintenance_gate`,
`entry` the progress of each `SharedPermit::acquire` (a request, or the bootstrap under its
`SharedFilePermit`), `hold` and `since` of each `ExclusivePermit`. A backup is one run of the
command, so its identity is its lease token, a fresh UUID in the code.

*Actions.* `TakeShared`, `CheckLease`, `ExpireLease` (the conditional update; after two rounds the
gate counts as active), `LeaveShared`; `ClaimLease`, `TakeExclusive`, `GiveUp`, `AcquireFails`,
`ReleaseLease`, `Unlock`; `DropSharers` and `Die` when a process dies: the operating system drops
its file locks, the lease stays. An attempt that finds the lock taken changes nothing.

`ArchiveBackup` puts users on both sides. Requests enter, open and end uploads, link or unlink
blob files outside their transaction and commit; `DropRequest` gives up the permit while
`LateFileOperation` may still come. The bootstrap enters under the file lock, and recovery follows
when it is let in. `backup create` counts the active uploads, lists the blob rows, copies the
database (with its own lease cleared in the copy), copies the blobs and renames its staging
directory, in steps between which late file operations happen.

### `Restore`

Runs of `backup restore` into one destination. Each makes two passes (`Validate`, `CopyBackup`,
`ScanStaged`), the first being `backup verify`, with `CheckDestination` between them, then
`ClearDestination`, `CheckAbsent` and `RenameStaging`. The environment damages the backup (blob
files also through hard links into a staging directory), creates or fills the destination, and
lets time pass, so that a blob within its grace comes due. A copy of the archive is whether its
database and its blobs are as they were backed up.

### `Integrity` and `Downloads`

*State.* Snapshot rows, blob rows with their generation and candidacy, blob files (`good`, `bad` or
`absent`), and `staged`, the blob files that are also linked in an upload's directory: promotion
hard-links the assembled file, and the directory goes after the commit, which changes the ctime of
the blob's inode. `harmed` and `sick` are history: digests a fault has touched, and rows whose file
has been bad since the scan began.

*Actions of the scan.* `BeginScan`, `ScanDangling`, pages of snapshots (`ReadSnapshots`,
`ScanSnapshot`, the two queries of `reconcile_snapshot`, `ListArtifacts`, `ScanArtifact`), pages of
blobs (`ReadBlobs`, `ClassifyBlob`, `ScanBlob`), `ScanTouched` for a file whose stamp changes while
it is hashed, the inventory of files (`ListFiles`, `CheckFile`), `CompleteScan`, `FailScan`. What is
done to one digest under its lock is one step.

`Downloads` adds one read, `get_snapshot` or `download_artifact`, query by query: `ReadRow`,
`ReconcileRow`, `ReconcileRows`, then `ReadArtifacts`, or `OpenBlob`, `HashBlob` and `StreamBlob`
without the blob's lock. A read and a scan do not affect each other, so a behaviour has one of them.

### `Listing`

A collection is a function from row ids to sort keys, defined from the rows as its SQL query reads
them (`SessionRows`, `SnapshotRows`, `CaptureRows`, `ManifestRows`, `ArtifactRows`,
`TombstoneRows`), with the filters each accepts. `FirstPage` and `NextPage` are `page_from_rows`
with its look-ahead row, cursor and high watermark. `RecordCapture` and `DeleteSnapshot` happen
between the pages with arbitrary keys: a key is a clock reading taken before its transaction, and
the wall clock may step back. `stable` and `count` are history: the rows of the first page's
collection that have kept their place, and how often each was listed.

## Runs

| Run | Instance | Result |
|---|---|---|
| `identity` | 3 uploads of one identity, the second stored as other bytes; deleter, collector | one live snapshot per identity, captures join live snapshots only, guarded lookups hold, tombstone and rearchive links are inverse, only the first snapshot lacks a tombstone; the archive implements `SnapshotStore` |
| `shared` | 3 identities of one session sharing 2 digests, one declaring another representation; 2 deleters, collector, a crash | no live snapshot misses a row or file, one representation per digest, deadlines follow references exactly, the session projection names the newest live snapshot, ascending locks, grace period |
| `live` | 2 uploads with both digests, deleter, collector, cancelled unlinks, a crash, fairness | every started request ends, recovery ends |
| `detached` | violation | a cancelled collection can remove a file that a new snapshot references |
| `transfer_reuse` | 2 uploads on one stripe, one capture id, 2 manifests without chunks, 2 workers, clock 0..3, a crash | a capture id names one manifest for ever; fates are final; nothing expires early |
| `transfer_chunks` | 1 upload, 2 chunks in 2 directories, 2 bodies, 2 workers, failing syncs, late links, power loss | every accepted chunk has the file its row describes; "uploaded" means that all chunks have rows, also after recovery deleted some |
| `transfer_live` | 2 uploads on 2 stripes, 2 workers, fairness | every started request ends |
| `backup` | a request, the bootstrap, 2 backups, a crash of the server, backups that die, leases that expire, fairness | requests and backups exclude each other, nobody clears another's lease, nobody enters while a lease stands, the database is quiet under a backup, finished backups are complete, every window closes |
| `restore` | 2 runs with one destination, hard links or copies, 2 damages, clock 0..2 | nothing with contents is replaced, success means that the run's own archive is in place, what is installed passed its scan |
| `integrity` | 2 snapshots sharing a digest, 2 requests at a time, pages of 1, one fault; a scan or a read | no race is reported as a damaged or unowned blob; a healthy run has missed no damage; what stays live stays readable |
| `touched` | violation | a download reports an intact artifact as corrupt when its upload's directory goes while it is hashed |
| `listing` | 2 sessions, 3 snapshots, 4 captures by 2 clients, 3 artifacts, 2 keys, limits 1 and 2, 4 filters | rows that stay put are listed exactly once; no row with a fixed key twice |

*Bounds.* `MaxClock` and `MaxCrashes` cap the clock and the crashes. In `Archive` three uploads are
needed for a rearchive of a rearchive and for a third party while two race; two digests give
disjoint and overlapping lock sets; `Grace` = 1 with a clock to 2 lets a blob become eligible, be
reclaimed by a rearchive, and be scheduled again. `GcBatchSize` = 1 makes the batch bound bite.
Colliding blob stripes are covered by the proofs, whose stripe functions are arbitrary.

In `Transfer` two uploads are enough for a reuse after an ending and for two sweeps in opposite
orders; two bodies for a retry that differs; two chunks in two directories for a sync that does
not cover the other. The id of an upload is never used again, so `Upload` bounds the number of
creations (one that finds no id left is given up). `Asked` bounds which requests clients make:
`transfer_chunks` leaves out abandonment and status, which end or only read the upload, and
`transfer_live` keeps status, which takes the lock and may end an expired upload.
`DetachedUnlink`, in `Archive` and `Transfer`, allows removals that outlive their request.

In `backup`, `LeaseDuration` = `WaitLimit` = 1 and a clock to 2 let a lease expire under its owner
and be taken over by the second backup, whose own lease then runs out; only leases that expire
within `MaxClock` are claimed. One request is enough to be inside, refused, dropped or late while a
backup acts; the proofs have any number. In `restore` two damages reach a blob and the database, or
both passes. In `integrity`, `MaxRows` = 2 generations let a row be collected and come back between
page and check, `MaxFaults` = 1 is a dropped request or a damaged file, and `LateCleanup` names the
digest whose upload directory outlives the commit. In `listing`, keys 0 and 1 make both ties and
late rows on either side of the cursor.

Deadlock checking is off where the system may rightly stop (all uploads completed and no one asking,
or a bounded behaviour at its end): that requests in progress do not block each other is
`LocksAscend`, `RequestsFinish`, `TransfersFinish` and `WindowCloses`. `Listing` never stops.

*Fairness (`FairSpec`).* tokio's mutexes are FIFO, so a waiter whose stripe is free again
and again obtains it: strong fairness of each request's own steps. The single SQLite writer
ends its transaction, so the same holds for waiters on it. Recovery steps are weakly fair. No
fairness is assumed for making requests, failures, cancellation, crashes, time, or starting a
collection: nothing in the server schedules one. `Transfer`'s `FairSpec` is the strong fairness
of request steps for the same reason. In `ArchiveBackup` the backup command runs on while its
process lives (weak fairness of its steps, not of being granted the file lock, which is polled and
not fair) and time passes; nothing is assumed of clients or the server, so `WindowCloses` rests on
the wait limit and the expiry of the lease.

## Proofs

For every value of the constants (any sets of uploads, deleters, collectors, requests and backups,
any manifests, any durations, any stripe functions that keep the families apart):

* `TypeCorrect`: `Spec => []TypeOK` of `Archive`;
* `LockInvariant`: `Spec => []LockInv`: stripes exclude each other (`LocksExclusive`), a
  request at a given step holds the stripes its handler took (`LocksHeld`), and what it
  remembers fits its manifest (`RequestsConsistent`);
* `LocksOrdered`: waiting requests wait upwards (`LocksAscend`); `NoDeadlock`: if the stripe
  numbers are bounded, as the arrays of `service.rs` are, no requests wait in a circle;
* `RepresentationsSafe`, `GuardedAttachSafe`, `IdentityUnique`, `DeadlinesExact`: from
  `MetadataInv`, which also holds with detached unlinks and crashes;
* `NoLiveBlobLost`: `~DetachedUnlink => (Spec => []LiveSnapshotsStored)`, from `StorageInv`, and
  `GraceSafe`: `~DetachedUnlink => (Spec => GraceIsHonoured)`, from `StorageInv` and `GraceInv`.
  The hypothesis is exactly what run `detached` shows to be necessary;
* `LatestExact`, `OnlyFirstWithout` and `RearchivesLinked`: the session projection and the chain of
  tombstones and rearchives;
* `Refinement`: `Archive` implements `SnapshotStore`, and `CapturesSafe`;
* of `Transfer`: `TransferTypes`, `CoreInvariant`, `CapturesNameOneManifest`, `FatesFinal`,
  `ExpiryNotEarly`, `UploadedIsComplete`, and `AcceptedAreStored` assuming `~DetachedUnlink` (a
  removal that outlives its request can take the file of an accepted chunk, see Observations);
* of the gate by itself (`GateSpec`): `GateTypes`, `GateExcludes`, `LeaseStands`, `NobodyEnters`;
* `UsesGate`: the composition of server and backup command implements `GateSpec`; with it
  `BackupExcluded`, `BackupLease`, `BackupEntry`, `BackupQuiet`, `BackupTypes`, `BackupComplete`;
* of `Restore`: `RestoreTypes`, `RestoreInvariant`, `SuccessInstalled`, `InstalledScanned`,
  `NeverOverwritten`;
* of `Integrity`: `IntegrityTypes`, `IntegrityInvariant`, `HealthyIsSound`, and `ErrorsAreReal`
  assuming `SharesLocks`, which holds of a scan in the server's process and not of `verify` on the
  command line; of `Downloads`: `ReadsImplementSpec` (so that the former hold beside reads too),
  `ReadInvariant`, `ReadTypes`, `LiveReadsServed`;
* of `Listing`: `ListingTypes`, `TraversalsExact` and `NothingTwice`, for any finite sets of rows,
  any keys, filters and limits.

The argument for `NoLiveBlobLost`. A file disappears in `UnlinkBlob`, `CleanupUnlink` or
`SweepFile`. The collector holds the digest's stripe and the open transaction, and the digest
stays unreferenced because a recording needs that stripe (`CollectorOwnsWriter`). A cleanup
holds the stripes of all its digests from promotion on, so the row it found missing is still
missing (`CleanupUnreferenced`). The sweep runs with no request alive. Conversely a completion
about to record finds every promoted file in place (`PromotedFilesStay`), because everyone who
could have unlinked it needs one of its stripes. None of these parts is inductive alone: each
rests on `LockInv`, and `LiveSnapshotsStored` on all of them.

The argument for the order of the locks. `LocksAscend` speaks of requests that wait; `Ascent` adds
what a request holds on its way there: nothing, only stripes of the families before, or, in the loop
over blob stripes, only stripes below what is left. In a circle of waiting requests the stripes
waited for would rise for ever, which bounded numbers do not allow.

The argument for `GraceSafe`. A deadline is written by a deletion, from a clock reading taken before
its transaction, or by recovery. `DeadlinesKept` says that it is a grace period after every deletion
that used the blob, and that a row is gone only after that time. It
needs `DeletersLast`: a deletion about to commit has read the clock after every earlier deletion of a
common blob; which holds because the clock is read under the blob stripes (`DeletersHoldBlobs`), so
two such deletions exclude each other; and `CollectsEligible`: nobody touches the row that a
collector's open transaction deletes.

The argument for `LatestExact`. `NewestExtended` shows that the condition of the upsert picks the
newest of the set with the new snapshot, also when the commit comes later than a snapshot with a
later timestamp; the rebuilds of deletion and recovery take the newest by definition.

The argument for `RearchivesLinked`. A recording continues the newest tombstone and must find its
link empty (`PriorIsFree`): otherwise the snapshot that took it has itself been deleted, since the
identity has no live one, and `TombstonesOrdered` says that it was deleted later, in time and in id.
That the times are ordered needs `DeletersFollow`: a deletion has read the clock after the
tombstone that its snapshot continues, because it only starts on a recorded snapshot.

The argument for `Refinement`. Only three transactions change what a client can see
(`VisibleChange`). That `RecordCompletion` is a `Store` needs `OneLivePerFingerprint` and its unique
index; that `AttachToExisting` answers with the *current* snapshot needs `OneLivePerFingerprint`
again, since it only checks that its target is live; and both need `CapturesPending`: an upload in
progress has no capture yet, and a snapshot's row comes with its own upload's capture.

The argument for the gate. `PendingLeaseStands` is not inductive: a request may hold a token it has
read as expired. `LeaseInv` adds that a token is in the row or in a request's hands only after its
backup has claimed it (`TokensClaimed`), and that a request that has read a pending backup's lease
as expired read the truth (`SeenIsOver`); so the conditional update of a slow request can only clear
a lease whose time is over. `BackupComplete` rests on `Excluded`, which keeps the database still
between the steps of `create_locked`, and on `StagedAsListed`: what has been listed and copied is
what the database still holds. The files are not still, but a missing one fails the backup.

The argument for `Transfer`. `RowStep` lists all that a step can do to a row: end it, open one, set
its status or accept a chunk. Each is done by a request that holds the upload's stripe from its
reading of the row to its commit (`LocksHeld`), or by recovery, which runs alone (`RecoveryAlone`);
so what the request has read is still so. `CaptureNamesOneManifest` then rests on the rows and
audits of one upload being exclusive (`RowsDisjoint`), `NoEarlyExpiry` on readings of the clock
lying in the past (`ReadingsPast`). For the files `FilesKnown` gives what a request knows of its
chunk's link and row at each step, and that a directory goes only when its upload's fate is sealed.
Both file properties are false in the middle of recovery and are proved for the uploads that
recovery has treated (`FilesSound`, `StatusSound`).

The argument for `Restore`. The destination names a run exactly when an archive is installed, and
a run between its second scan and its rename has a copy that the scan found healthy (`RestoreInv`):
damage done later through a hard link makes it `rotted`, which is not what the scan let pass.

The argument for scans and reads. `ArchiveInv` says that requests in progress share neither a digest
nor a snapshot (`JobsApart`), that rows and references agree, and that the file of an unharmed digest
agrees with its row but for the request that is between its file operation and its commit. A scan
that holds the digest's lock meets no such request (`ErrorsAreReal`). For `HealthyIsSound` a file
that was bad all along is always ahead of the scan's position, in its page or reported (`Covered`);
pages in the order of identifiers pass over no row. A read that has found its row needs only that
the row's snapshot is still live (`ReadSound`).

The argument for traversals. A page is an initial part of the rows in their order
(`FirstIsPrefix`), it has at most the limit's number of rows (`FirstIsBounded`), and if the
look-ahead row is missing it is all that is left (`FirstExhausts`); so the cursor divides the rows
into those returned and those to come (`CursorCuts`). `StableInv` adds to `TraversalExact` what
holds half-way: a row that has kept its place is within the watermark, and has been listed once if it
is not beyond the cursor and not at all if it is. `FixedInv` gives the rows already listed a key that
nothing changes, not beyond the cursor, while the next page only has rows beyond it.

Only model-checked: liveness (`RequestsFinish`, `TransfersFinish`, `WindowCloses`), which is out of
the prover's reach, and the two violations. Every invariant and action property of the passing
runs is also proved.

## Observations

The two runs that expect a violation show:

* `detached` (`deletion.rs:469`): dropping a collection releases the digest lock while its unlink
  still runs; a completion in between loses its file, although `docs/api.md:355` says that a new
  reference cannot gain a missing file concurrently.
* `touched` (`retrieval.rs:1847`): a download compares the ctime of the blob's inode before and
  after hashing; the removal of the upload's directory, which holds another link to it, changes the
  ctime. The answer is `artifact_integrity_failure`, which `docs/self-hosting.md:357` calls
  corruption.

Seen while modelling, without a run of its own:

* `complete_upload`'s `debug_assert_eq!` (`ingestion.rs:1334`) can fail after a deletion and a
  rearchive while the identity lock is awaited; release builds act on the right snapshot.
* Completions that find the live snapshot under the blob locks, and the loser of a recording,
  attach without the identity lock that the comment on `SNAPSHOT_LOCK_STRIPES` says they take; the
  transaction then answers 409 (`CapturesJoinLiveSnapshots` is what protects the data).
* Chunks: a retry that finds the link of a dropped request commits its row without a directory sync
  (`docs/api.md:499`); `chunk_conflict` can answer an index that was never accepted
  (`docs/ingest.md:396`); the removal after a failed sync can outlive its request
  (`ingestion.rs:733`) and take the file of an accepted chunk, so `AcceptedChunksStored` needs
  `DetachedUnlink = FALSE`.
* The sweep of `create_upload` can miss an upload that expired within the same second.
* `reconcile_snapshot` reads a snapshot and its artifacts in two queries. A deletion between them is
  recorded by a scan as projection drift, an error, where `docs/api.md:466-468` speaks of transient
  changes; to `get_snapshot` it is an internal error, or an answer without artifacts, and to
  `download_artifact` an integrity failure.
* A damaged file whose ctime changes while a scan hashes it is noted as transient, and the run may
  end healthy; `HealthyMeansSound` says so. `backup verify` of a hard-linked backup changes the
  ctime of live inodes in the same way.
* `verify` on the command line scans in a process of its own, whose digest locks do not exclude a
  running server: with `SharesLocks = FALSE` `BlobErrorsAreReal` fails.
* A blob within its grace when a backup is made is due later; the scan's warning then makes restore
  refuse a backup that is undamaged (`backup.rs:396`, `InGrace` in `Restore`).
* A session whose newest snapshot is deleted during a traversal falls back below the cursor and is
  listed again; one with a newer snapshot moves above the watermark and is not listed
  (`docs/consumers.md:96-98`). A consumer that polls by `activity_from` can miss a commit with an
  earlier timestamp (`docs/consumers.md:110-112`).

## Not modelled

* Bytes: digests, fingerprints and representations are values, and a stored file is good or bad.
  Confirmation headers, reasons, response bodies and audit details change no state the properties
  speak of.
* A commit that takes effect although its handler was cancelled while awaiting it: a dropped
  request's transaction is rolled back in every module. Blob links not yet durable at a power loss
  (`Transfer` models this for chunk files only).
* Audit rows from before capture ids were kept, whose manifest is unknown (they always conflict);
  staged and assembled files, which have unique names and are removed with the upload.
* A wall clock that steps back, except for the keys of `Listing`. In `Archive` it would make a
  rearchive choose an older tombstone, whose link is taken, and fail.
* Of the integrity scan: SQLite's own check, manifests that do not parse, file names that are no
  digests, and the queries of the history of runs. Of retrieval: lookups by one query, headers, the
  semaphore of concurrent downloads and its deadline.
* The cursor's encoding, which is the record it encodes; requests with a cursor of another kind or
  filter are refused before anything is read.
* Inventory (read-only counts, each one query), contract and validation (stateless parsing and
  limits), configuration and command line (read once at start), health and errors.
* Legacy upgrades and sort-key backfills, which run once before serving.

## Plan

1. Proofs: what liveness needs of safety, such as that a waiting request's holder can move; the
   gate and the archive composed without abstraction of the requests.
2. Durability of blob links as in `Transfer`, and a clock that steps back, in `Archive`.
3. Chunk layout arithmetic and the limits of the contract as operators with reference definitions.
