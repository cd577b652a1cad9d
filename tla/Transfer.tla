------------------------------ MODULE Transfer ------------------------------
(***************************************************************************)
(* The transfer of uploads: creation and reuse of capture ids, acceptance  *)
(* of chunks, completion as seen by the upload, abandonment, expiry, and   *)
(* recovery of active uploads, as concurrent requests that may be          *)
(* cancelled at every await, over rows in SQLite and chunk files.          *)
(*                                                                         *)
(* Every request on one upload holds its lock; creation and expiry sweeps  *)
(* read without it.  A process crash keeps every file; a power loss may    *)
(* also lose links whose directory was not synced.                         *)
(*                                                                         *)
(* Time is counted in half seconds, so that the two shapes of an RFC 3339  *)
(* text (with and without a fraction) both occur.                          *)
(***************************************************************************)
EXTENDS Naturals, FiniteSets

CONSTANTS
    Upload,     \* upload ids
    Capture,    \* capture ids of a client
    Manifest,   \* canonical manifests
    Artifact,
    Chunk,      \* chunk positions
    ArtifactOf, \* [Chunk -> Artifact]: the artifact, hence the directory
    ChunksOf,   \* [Manifest -> SUBSET Chunk]: the negotiated layout
    Body,       \* chunk contents
    BodyOf,     \* [Manifest -> [Chunk -> Body]]: contents that verify
    Worker,     \* concurrent requests
    Stripe,     \* upload_locks
    StripeOf,   \* [Upload -> Stripe]: upload_lock_stripe
    Expiry,     \* upload_expiry, in whole seconds
    PowerLoss,  \* may a crash lose unsynced links?
    DetachedUnlink, \* may a cancelled request leave an unlink running?
    Asked,      \* bound on requests: kinds made besides chunks and sweeps
    MaxClock,   \* bound on the clock
    MaxCrashes, \* bound on crashes
    None

ASSUME TransferAssumption ==
    /\ ArtifactOf \in [Chunk -> Artifact]
    /\ ChunksOf \in [Manifest -> SUBSET Chunk]
    /\ BodyOf \in [Manifest -> [Chunk -> Body]]
    /\ Expiry \in Nat \ {0}
    /\ StripeOf \in [Upload -> Stripe]
    /\ PowerLoss \in BOOLEAN
    /\ DetachedUnlink \in BOOLEAN
    /\ Asked \subseteq {"complete", "abandon", "status"}
    /\ MaxClock \in Nat
    /\ MaxCrashes \in Nat
    /\ None \notin Upload \cup Capture \cup Manifest
    /\ None \notin Chunk \cup Body \cup Worker

VARIABLES
    upload,     \* [Upload -> UploadRow]               uploads and manifests
    audit,      \* [Upload -> AuditRow]                upload_audits
    accepted,   \* [Upload -> [Chunk -> Body or None]] upload_chunks
    chunkFile,  \* [Upload -> [Chunk -> Body or None]] linked chunk files
    unsynced,   \* links whose directory was not synced since
    late,       \* file operations of dropped requests, still to happen
    req,        \* [Worker -> Request]                 handler-local state
    lock,       \* [Stripe -> Worker or None]          upload locks
    server,     \* "up", "down" or "recover"
    recovering, \* uploads that recovery has yet to treat
    clock,
    crashes

rows == <<upload, audit, accepted>>
disk == <<chunkFile, unsynced, late>>
environment == <<server, recovering, clock, crashes>>
vars == <<upload, audit, accepted, chunkFile, unsynced, late, req, lock,
          server, recovering, clock, crashes>>

Status == {"absent", "created", "artifact_uploaded", "completed"}

UploadRow == [status : Status,
              capture : Capture \cup {None},
              manifest : Manifest \cup {None},
              expires : Nat]

AuditRow == [reason : {"none", "abandoned", "expired"},
             capture : Capture \cup {None},
             manifest : Manifest \cup {None},
             at : Nat]

Kind == {"create", "expire", "put", "complete", "abandon", "status"}

PC == {"idle", "sweepStart", "sweepNext", "sweepCheck", "persist", "respond",
       "lock", "check", "link", "sync", "unlink", "record", "refresh",
       "conflict", "commit", "removeDir"}

Request == [pc : PC,
            kind : Kind,
            upload : Upload \cup {None},
            chunk : Chunk \cup {None},
            body : Body \cup {None},
            capture : Capture \cup {None},
            manifest : Manifest \cup {None},
            todo : SUBSET Upload,
            now : Nat]

\* An operation on the blocking pool that outlives its request.
Blocking == [op : {"link", "sync", "unlink"}, upload : Upload, chunk : Chunk,
             body : Body]

Idle == [pc |-> "idle", kind |-> "status", upload |-> None, chunk |-> None,
         body |-> None, capture |-> None, manifest |-> None, todo |-> {},
         now |-> 0]

NoUpload == [status |-> "absent", capture |-> None, manifest |-> None,
             expires |-> 0]
NoAudit == [reason |-> "none", capture |-> None, manifest |-> None, at |-> 0]
NoChunks == [c \in Chunk |-> None]

TypeOK ==
    /\ upload \in [Upload -> UploadRow]
    /\ audit \in [Upload -> AuditRow]
    /\ accepted \in [Upload -> [Chunk -> Body \cup {None}]]
    /\ chunkFile \in [Upload -> [Chunk -> Body \cup {None}]]
    /\ unsynced \subseteq Upload \X Chunk
    /\ late \subseteq Blocking
    /\ req \in [Worker -> Request]
    /\ lock \in [Stripe -> Worker \cup {None}]
    /\ server \in {"up", "down", "recover"}
    /\ recovering \subseteq Upload
    /\ clock \in Nat
    /\ crashes \in Nat

Init ==
    /\ upload = [u \in Upload |-> NoUpload]
    /\ audit = [u \in Upload |-> NoAudit]
    /\ accepted = [u \in Upload |-> NoChunks]
    /\ chunkFile = [u \in Upload |-> NoChunks]
    /\ unsynced = {}
    /\ late = {}
    /\ req = [w \in Worker |-> Idle]
    /\ lock = [s \in Stripe |-> None]
    /\ server = "up"
    /\ recovering = {}
    /\ clock = 0
    /\ crashes = 0

-----------------------------------------------------------------------------
(* Queries *)

\* Mutant: every row counts as active.
AnyRow(u) == upload[u].status # "absent"

\* status IN ('created', 'artifact_uploaded')
Open(u) == upload[u].status \in {"created", "artifact_uploaded"}

Ended(u) == audit[u].reason # "none"
Issued(u) == upload[u].status # "absent" \/ Ended(u)
CaptureOf(u) == IF Ended(u) THEN audit[u].capture ELSE upload[u].capture
ManifestOf(u) == IF Ended(u) THEN audit[u].manifest ELSE upload[u].manifest

\* is_expired, on parsed timestamps.
IsExpired(u, now) == upload[u].expires <= now

\* Order of the RFC 3339 texts: within one second "07.5Z" comes before
\* "07Z", because "." is less than "Z".
TextLeq(a, b) ==
    \/ a \div 2 < b \div 2
    \/ a \div 2 = b \div 2 /\ a % 2 >= b % 2

\* expire_uploads_at, its query: expires_at <= ?1 on the texts.
Candidates(now) == {u \in Upload : Open(u) /\ TextLeq(upload[u].expires, now)}

\* ORDER BY terminal_at DESC LIMIT 1 over the audits of a capture id.
PriorAudit(k) ==
    LET A == {u \in Upload : Ended(u) /\ audit[u].capture = k}
    IN {a \in A : \A b \in A : TextLeq(audit[b].at, audit[a].at)}

\* upload_is_complete
AllAccepted(u) ==
    \A c \in ChunksOf[upload[u].manifest] : accepted[u][c] # None

\* accepted_chunk_layout, assemble_artifact and verify_artifact: every chunk is
\* accepted, its file is what the row says, and the whole is the manifest's.
Assembles(u) ==
    \A c \in ChunksOf[upload[u].manifest] :
        /\ accepted[u][c] # None
        /\ chunkFile[u][c] = accepted[u][c]
        /\ accepted[u][c] = BodyOf[upload[u].manifest][c]

\* Mutant: a status that the schema does not admit.
StatusMisnamed(u) == IF AllAccepted(u) THEN "uploaded" ELSE "created"

StatusFor(u) == IF AllAccepted(u) THEN "artifact_uploaded" ELSE "created"

-----------------------------------------------------------------------------
(* Handlers: locks and endings *)

\* The links of the directory of chunk c.
InDirectory(u, c) == {u} \X {d \in Chunk : ArtifactOf[d] = ArtifactOf[c]}

At(w, pc) == req[w].pc = pc
Update(w, r) == req' = [req EXCEPT ![w] = r]
GoTo(w, pc) == Update(w, [req[w] EXCEPT !.pc = pc])

\* The guards of a request that ends are dropped.
Unlock(w) == lock' = [s \in Stripe |-> IF lock[s] = w THEN None ELSE lock[s]]

Finish(w) == Update(w, Idle) /\ Unlock(w)

\* The transaction of terminalize_upload_locked: an audit row replaces the
\* upload, its manifest and its chunks.
Terminalize(u, reason) ==
    /\ upload' = [upload EXCEPT ![u] = NoUpload]
    /\ audit' = [audit EXCEPT ![u] = [reason |-> reason,
                                      capture |-> upload[u].capture,
                                      manifest |-> upload[u].manifest,
                                      at |-> clock]]
    /\ accepted' = [accepted EXCEPT ![u] = NoChunks]

-----------------------------------------------------------------------------
(* create_upload and expire_uploads *)

RequestCreate(w) ==
    /\ server = "up" /\ At(w, "idle")
    /\ \E k \in Capture, m \in Manifest :
          Update(w, [Idle EXCEPT !.pc = "sweepStart", !.kind = "create",
                                 !.capture = k, !.manifest = m, !.now = clock])
    /\ UNCHANGED <<rows, disk, lock, environment>>

RequestExpiry(w) ==
    /\ server = "up" /\ At(w, "idle")
    /\ Update(w, [Idle EXCEPT !.pc = "sweepStart", !.kind = "expire",
                              !.now = clock])
    /\ UNCHANGED <<rows, disk, lock, environment>>

FindExpired(w) ==
    /\ At(w, "sweepStart")
    /\ Update(w, [req[w] EXCEPT !.pc = "sweepNext",
                                !.todo = Candidates(req[w].now)])
    /\ UNCHANGED <<rows, disk, lock, environment>>

LockExpired(w) ==
    /\ At(w, "sweepNext")
    /\ \E u \in req[w].todo :
          /\ lock[StripeOf[u]] = None
          /\ lock' = [lock EXCEPT ![StripeOf[u]] = w]
          /\ Update(w, [req[w] EXCEPT !.pc = "sweepCheck", !.upload = u,
                                      !.todo = @ \ {u}])
    /\ UNCHANGED <<rows, disk, environment>>

\* Mutant: every candidate of the textual query is ended.
ExpireUnchecked(w) ==
    LET u == req[w].upload IN
    /\ At(w, "sweepCheck")
    /\ IF Open(u)
       THEN Terminalize(u, "expired") /\ GoTo(w, "removeDir") /\ UNCHANGED lock
       ELSE GoTo(w, "sweepNext") /\ Unlock(w) /\ UNCHANGED rows
    /\ UNCHANGED <<disk, environment>>

\* The recheck under the upload lock, with the sweep's reading of the clock.
ExpireCandidate(w) ==
    LET u == req[w].upload IN
    /\ At(w, "sweepCheck")
    /\ IF Open(u) /\ IsExpired(u, req[w].now)
       THEN Terminalize(u, "expired") /\ GoTo(w, "removeDir") /\ UNCHANGED lock
       ELSE GoTo(w, "sweepNext") /\ Unlock(w) /\ UNCHANGED rows
    /\ UNCHANGED <<disk, environment>>

FinishSweep(w) ==
    /\ At(w, "sweepNext")
    /\ req[w].todo = {}
    /\ \/ req[w].kind = "create" /\ GoTo(w, "persist") /\ UNCHANGED lock
       \/ req[w].kind = "expire" /\ Finish(w)
    /\ UNCHANGED <<rows, disk, environment>>

\* Mutant: audits of ended uploads are not consulted.
NotReserved(k, m) == TRUE

\* ensure_terminal_capture_reuse_is_equivalent
ReuseIsEquivalent(k, m) ==
    \/ \A u \in Upload : Ended(u) => audit[u].capture # k
    \/ \E a \in PriorAudit(k) : audit[a].manifest = m

\* persist_upload: one transaction; the unique capture id admits one upload.
PersistUpload(w) ==
    LET k == req[w].capture
        m == req[w].manifest
        Same == {u \in Upload : /\ upload[u].status # "absent"
                                /\ upload[u].capture = k}
    IN
    /\ At(w, "persist")
    /\ \/ /\ ReuseIsEquivalent(k, m)
          /\ Same = {}
          /\ \E u \in Upload :
                /\ ~Issued(u)
                /\ upload' = [upload EXCEPT ![u] =
                      [status |-> IF ChunksOf[m] = {} THEN "artifact_uploaded"
                                                      ELSE "created",
                       capture |-> k, manifest |-> m,
                       expires |-> req[w].now + 2 * Expiry]]
                /\ Update(w, [req[w] EXCEPT !.pc = "respond", !.upload = u])
          /\ UNCHANGED <<audit, accepted, lock>>
       \/ /\ ReuseIsEquivalent(k, m)
          /\ \E u \in Same : /\ upload[u].manifest = m
                             /\ Update(w, [req[w] EXCEPT !.pc = "respond",
                                                         !.upload = u])
          /\ UNCHANGED <<rows, lock>>
       \/ /\ \/ ~ReuseIsEquivalent(k, m)
             \/ Same = {} /\ \A u \in Upload : Issued(u)  \* bound: no id left
             \/ \E u \in Same : upload[u].manifest # m
          /\ Finish(w)
          /\ UNCHANGED rows
    /\ UNCHANGED <<disk, environment>>

Respond(w) ==
    /\ At(w, "respond")
    /\ Finish(w)
    /\ UNCHANGED <<rows, disk, environment>>

-----------------------------------------------------------------------------
(* Requests on one upload *)

RequestUpload(w) ==
    /\ server = "up" /\ At(w, "idle")
    /\ \E u \in Upload, kind \in Asked :
          /\ Issued(u)
          /\ Update(w, [Idle EXCEPT !.pc = "lock", !.kind = kind, !.upload = u])
    /\ UNCHANGED <<rows, disk, lock, environment>>

RequestChunk(w) ==
    /\ server = "up" /\ At(w, "idle")
    /\ \E u \in Upload, c \in Chunk, b \in Body :
          /\ Issued(u)
          /\ Update(w, [Idle EXCEPT !.pc = "lock", !.kind = "put", !.upload = u,
                                    !.chunk = c, !.body = b])
    /\ UNCHANGED <<rows, disk, lock, environment>>

LockUpload(w) ==
    /\ At(w, "lock")
    /\ lock[StripeOf[req[w].upload]] = None
    /\ lock' = [lock EXCEPT ![StripeOf[req[w].upload]] = w]
    /\ GoTo(w, "check")
    /\ UNCHANGED <<rows, disk, environment>>

\* No row, a completed upload, or a status request on an active one.
AnswerFromRow(w) ==
    LET u == req[w].upload IN
    /\ At(w, "check")
    /\ Open(u) => req[w].kind = "status" /\ ~IsExpired(u, clock)
    /\ Finish(w)
    /\ UNCHANGED <<rows, disk, environment>>

\* Whatever the request, it ends an upload that it finds expired.
ExpireOnAccess(w) ==
    LET u == req[w].upload IN
    /\ At(w, "check")
    /\ Open(u) /\ IsExpired(u, clock)
    /\ Terminalize(u, "expired")
    /\ GoTo(w, "removeDir")
    /\ UNCHANGED <<disk, lock, environment>>

AbandonUpload(w) ==
    LET u == req[w].upload IN
    /\ At(w, "check") /\ req[w].kind = "abandon"
    /\ Open(u) /\ ~IsExpired(u, clock)
    /\ Terminalize(u, "abandoned")
    /\ GoTo(w, "removeDir")
    /\ UNCHANGED <<disk, lock, environment>>

\* put_artifact_chunk up to the body: a chunk outside the layout, or one that
\* already has a row, changes nothing.
CheckChunk(w) ==
    LET u == req[w].upload
        c == req[w].chunk
    IN
    /\ At(w, "check") /\ req[w].kind = "put"
    /\ Open(u) /\ ~IsExpired(u, clock)
    /\ IF c \in ChunksOf[upload[u].manifest] /\ accepted[u][c] = None
       THEN GoTo(w, "link") /\ UNCHANGED lock
       ELSE Finish(w)
    /\ UNCHANGED <<rows, disk, environment>>

\* Mutant: a file already there is taken for the one just received.
LinkWithoutVerifying(w) ==
    LET u == req[w].upload
        c == req[w].chunk
    IN
    /\ At(w, "link")
    /\ \/ /\ chunkFile[u][c] = None
          /\ chunkFile' = [chunkFile EXCEPT ![u][c] = req[w].body]
          /\ unsynced' = unsynced \cup {<<u, c>>}
          /\ GoTo(w, "sync")
          /\ UNCHANGED late
       \/ /\ chunkFile[u][c] # None
          /\ GoTo(w, "record")
          /\ UNCHANGED disk
    /\ UNCHANGED <<rows, lock, environment>>

\* store_chunk_file: the staged body is linked under its index, or the file
\* already there is verified.
LinkChunk(w) ==
    LET u == req[w].upload
        c == req[w].chunk
    IN
    /\ At(w, "link")
    /\ \/ /\ chunkFile[u][c] = None
          /\ chunkFile' = [chunkFile EXCEPT ![u][c] = req[w].body]
          /\ unsynced' = unsynced \cup {<<u, c>>}
          /\ GoTo(w, "sync")
          /\ UNCHANGED late
       \/ /\ chunkFile[u][c] = req[w].body
          /\ GoTo(w, "record")
          /\ UNCHANGED disk
       \/ /\ chunkFile[u][c] \notin {None, req[w].body}
          /\ GoTo(w, "conflict")
          /\ UNCHANGED disk
    /\ UNCHANGED <<rows, lock, environment>>

\* The staged file is removed and chunk_conflict is returned.
AnswerConflict(w) ==
    /\ At(w, "conflict")
    /\ Finish(w)
    /\ UNCHANGED <<rows, disk, environment>>

\* sync_parent_directory: every link in the artifact's directory.
SyncChunk(w) ==
    /\ At(w, "sync")
    /\ unsynced' = unsynced \ InDirectory(req[w].upload, req[w].chunk)
    /\ GoTo(w, "record")
    /\ UNCHANGED <<rows, chunkFile, late, lock, environment>>

SyncFails(w) ==
    /\ At(w, "sync")
    /\ GoTo(w, "unlink")
    /\ UNCHANGED <<rows, disk, lock, environment>>

\* After a failed sync the file just linked is removed.
UnlinkChunk(w) ==
    LET u == req[w].upload
        c == req[w].chunk
    IN
    /\ At(w, "unlink")
    /\ chunkFile' = [chunkFile EXCEPT ![u][c] = None]
    /\ unsynced' = unsynced \ {<<u, c>>}
    /\ Finish(w)
    /\ UNCHANGED <<rows, late, environment>>

\* persist_chunk_record: INSERT ... ON CONFLICT DO NOTHING, while still active.
RecordChunk(w) ==
    LET u == req[w].upload
        c == req[w].chunk
    IN
    /\ At(w, "record")
    /\ IF Open(u) /\ accepted[u][c] \in {None, req[w].body}
       THEN /\ accepted' = [accepted EXCEPT ![u][c] = req[w].body]
            /\ GoTo(w, "refresh")
            /\ UNCHANGED lock
       ELSE Finish(w) /\ UNCHANGED accepted
    /\ UNCHANGED <<upload, audit, disk, environment>>

RefreshStatus(w) ==
    LET u == req[w].upload IN
    /\ At(w, "refresh")
    /\ upload' = IF Open(u) THEN [upload EXCEPT ![u].status = StatusFor(u)]
                            ELSE upload
    /\ Finish(w)
    /\ UNCHANGED <<audit, accepted, disk, environment>>

\* complete_upload: assembly and verification.
PrepareArtifacts(w) ==
    LET u == req[w].upload IN
    /\ At(w, "check") /\ req[w].kind = "complete"
    /\ Open(u) /\ ~IsExpired(u, clock)
    /\ IF Assembles(u) THEN GoTo(w, "commit") /\ UNCHANGED lock ELSE Finish(w)
    /\ UNCHANGED <<rows, disk, environment>>

\* The transaction that completes the upload (its other effects are those of
\* RecordCompletion and AttachToExisting in Archive).
CommitCompletion(w) ==
    LET u == req[w].upload IN
    /\ At(w, "commit")
    /\ IF Open(u)
       THEN /\ upload' = [upload EXCEPT ![u].status = "completed"]
            /\ GoTo(w, "removeDir")
            /\ UNCHANGED lock
       ELSE Finish(w) /\ UNCHANGED upload
    /\ UNCHANGED <<audit, accepted, disk, environment>>

\* Mutant: a sweep keeps the locks of the uploads it ended.
RemoveDirKeepingLock(w) ==
    LET u == req[w].upload IN
    /\ At(w, "removeDir")
    /\ chunkFile' = [chunkFile EXCEPT ![u] = NoChunks]
    /\ unsynced' = unsynced \ ({u} \X Chunk)
    /\ IF req[w].kind \in {"create", "expire"}
       THEN GoTo(w, "sweepNext") /\ UNCHANGED lock
       ELSE Finish(w)
    /\ UNCHANGED <<rows, late, environment>>

\* remove_upload_dir of an ended or completed upload.
RemoveUploadDir(w) ==
    LET u == req[w].upload IN
    /\ At(w, "removeDir")
    /\ chunkFile' = [chunkFile EXCEPT ![u] = NoChunks]
    /\ unsynced' = unsynced \ ({u} \X Chunk)
    /\ IF req[w].kind \in {"create", "expire"}
       THEN GoTo(w, "sweepNext") /\ Unlock(w)
       ELSE Finish(w)
    /\ UNCHANGED <<rows, late, environment>>

-----------------------------------------------------------------------------
(* Cancellation, crash and recovery *)

\* The request is dropped at an await or returns an error: its locks go.  From
\* the link to the start of the sync there is no await.
Cancel(w) ==
    /\ ~At(w, "idle") /\ ~At(w, "sync")
    /\ Finish(w)
    /\ UNCHANGED <<rows, disk, environment>>

\* Dropped while a file operation runs on the blocking pool, which finishes
\* it all the same, without the lock.
CancelBlocking(w) ==
    /\ req[w].pc \in {"link", "sync", "unlink"}
    /\ At(w, "unlink") => DetachedUnlink
    /\ late' = late \cup {[op |-> req[w].pc, upload |-> req[w].upload,
                           chunk |-> req[w].chunk, body |-> req[w].body]}
    /\ Finish(w)
    /\ UNCHANGED <<rows, chunkFile, unsynced, environment>>

\* A link that finds a file already there, or no directory, does nothing.
FinishLate(e) ==
    LET u == e.upload
        c == e.chunk
        Linked == e.op = "link" /\ Open(u) /\ chunkFile[u][c] = None
        Removed == e.op = "unlink"
    IN
    /\ e \in late
    /\ late' = late \ {e}
    /\ chunkFile' = [chunkFile EXCEPT ![u][c] = IF Linked THEN e.body
                                               ELSE IF Removed THEN None ELSE @]
    /\ unsynced' = (unsynced \ (CASE e.op = "sync" -> InDirectory(u, c)
                                  [] Removed -> {<<u, c>>}
                                  [] OTHER -> {}))
                    \cup (IF Linked THEN {<<u, c>>} ELSE {})
    /\ UNCHANGED <<rows, req, lock, environment>>

Crash ==
    /\ crashes < MaxCrashes
    /\ crashes' = crashes + 1
    /\ server' = "down"
    /\ recovering' = {}
    /\ req' = [w \in Worker |-> Idle]
    /\ lock' = [s \in Stripe |-> None]
    /\ late' = {}
    /\ \/ UNCHANGED <<chunkFile, unsynced>>
       \/ /\ PowerLoss
          /\ \E lost \in SUBSET unsynced :
                chunkFile' = [u \in Upload |-> [c \in Chunk |->
                    IF <<u, c>> \in lost THEN None ELSE chunkFile[u][c]]]
          /\ unsynced' = {}
    /\ UNCHANGED <<rows, clock>>

StartRecovery ==
    /\ server = "down"
    /\ server' = "recover"
    /\ recovering' = {u \in Upload : Issued(u)}
    /\ UNCHANGED <<rows, disk, req, lock, clock, crashes>>

\* recover_uploads: the directories of completed and ended uploads go.
RecoverEnded(u) ==
    /\ server = "recover" /\ u \in recovering
    /\ ~Open(u)
    /\ chunkFile' = [chunkFile EXCEPT ![u] = NoChunks]
    /\ unsynced' = unsynced \ ({u} \X Chunk)
    /\ recovering' = recovering \ {u}
    /\ UNCHANGED <<rows, late, req, lock, server, clock, crashes>>

\* recover_artifact_chunks: a row whose file does not verify is deleted, and
\* a file without a row is removed.
RecoverChunk(u, c) ==
    /\ server = "recover" /\ u \in recovering
    /\ Open(u)
    /\ accepted[u][c] # chunkFile[u][c]
    /\ accepted' = [accepted EXCEPT ![u][c] = None]
    /\ chunkFile' = [chunkFile EXCEPT ![u][c] = None]
    /\ unsynced' = unsynced \ {<<u, c>>}
    /\ UNCHANGED <<upload, audit, late, req, lock, environment>>

\* Mutant: recovery leaves the status alone.
RecoverWithoutStatus(u) ==
    /\ server = "recover" /\ u \in recovering
    /\ Open(u)
    /\ accepted[u] = chunkFile[u]
    /\ recovering' = recovering \ {u}
    /\ UNCHANGED <<rows, disk, req, lock, server, clock, crashes>>

\* recover_active_upload, its status update.
RecoverStatus(u) ==
    /\ server = "recover" /\ u \in recovering
    /\ Open(u)
    /\ accepted[u] = chunkFile[u]
    /\ upload' = [upload EXCEPT ![u].status = StatusFor(u)]
    /\ recovering' = recovering \ {u}
    /\ UNCHANGED <<audit, accepted, disk, req, lock, server, clock, crashes>>

\* The sweep at start-up, before any request is served.
ServeAfterSweep ==
    LET E == {u \in Candidates(clock) : IsExpired(u, clock)} IN
    /\ server = "recover" /\ recovering = {}
    /\ server' = "up"
    /\ upload' = [u \in Upload |-> IF u \in E THEN NoUpload ELSE upload[u]]
    /\ audit' = [u \in Upload |->
          IF u \in E THEN [reason |-> "expired", capture |-> upload[u].capture,
                           manifest |-> upload[u].manifest, at |-> clock]
          ELSE audit[u]]
    /\ accepted' = [u \in Upload |-> IF u \in E THEN NoChunks ELSE accepted[u]]
    /\ chunkFile' = [u \in Upload |->
          IF u \in E THEN NoChunks ELSE chunkFile[u]]
    /\ unsynced' = {p \in unsynced : p[1] \notin E}
    /\ UNCHANGED <<late, recovering, req, lock, clock, crashes>>

Tick ==
    /\ clock < MaxClock
    /\ clock' = clock + 1
    /\ UNCHANGED <<rows, disk, req, lock, server, recovering, crashes>>

-----------------------------------------------------------------------------

\* What a started request does by itself.
RequestStep(w) ==
    \/ FindExpired(w) \/ LockExpired(w) \/ ExpireCandidate(w) \/ FinishSweep(w)
    \/ PersistUpload(w) \/ Respond(w)
    \/ LockUpload(w) \/ AnswerFromRow(w) \/ ExpireOnAccess(w)
    \/ AbandonUpload(w) \/ CheckChunk(w) \/ LinkChunk(w) \/ AnswerConflict(w)
    \/ SyncChunk(w) \/ UnlinkChunk(w) \/ RecordChunk(w) \/ RefreshStatus(w)
    \/ PrepareArtifacts(w) \/ CommitCompletion(w) \/ RemoveUploadDir(w)

RecoveryStep ==
    \/ StartRecovery \/ ServeAfterSweep
    \/ \E u \in Upload : \/ RecoverEnded(u) \/ RecoverStatus(u)
                         \/ \E c \in Chunk : RecoverChunk(u, c)

Next ==
    \/ \E w \in Worker :
          \/ RequestCreate(w) \/ RequestExpiry(w) \/ RequestUpload(w)
          \/ RequestChunk(w) \/ RequestStep(w)
          \/ SyncFails(w) \/ Cancel(w) \/ CancelBlocking(w)
    \/ \E e \in late : FinishLate(e)
    \/ Crash \/ RecoveryStep \/ Tick

Spec == Init /\ [][Next]_vars

\* The upload mutexes are FIFO, so a started request that is not cancelled
\* runs on; nothing else need happen.
FairSpec ==
    /\ Spec
    /\ \A w \in Worker : SF_vars(RequestStep(w))
-----------------------------------------------------------------------------
(* Properties *)

\* A capture id names one manifest for ever, across abandoned, expired and
\* completed uploads, although an ended upload leaves only a redacted audit
\* row (persist_upload, ensure_terminal_capture_reuse_is_equivalent).
CaptureNamesOneManifest ==
    \A u, v \in Upload :
        Issued(u) /\ Issued(v) /\ CaptureOf(u) = CaptureOf(v)
            => ManifestOf(u) = ManifestOf(v)

\* While the server serves, every accepted chunk of an active upload has the
\* file its row describes, whatever earlier requests for that chunk were
\* cancelled, failed to sync or were lost at a power failure, provided that no
\* removal of a file outlives its request (store_chunk_file,
\* persist_chunk_record, recover_artifact_chunks).
AcceptedChunksStored ==
    server = "up" =>
        \A u \in Upload, c \in Chunk :
            Open(u) /\ accepted[u][c] # None => chunkFile[u][c] = accepted[u][c]

\* An upload reported as uploaded has all its chunks, also after recovery
\* deleted rows (refresh_upload_status, recover_active_upload).
UploadedMeansAllAccepted ==
    \A u \in Upload :
        server = "up" /\ upload[u].status = "artifact_uploaded"
            => AllAccepted(u)

\* The fate of an upload is final: a completed one is never ended by a sweep,
\* an abandonment or a retry, and an ended one never comes back
\* (terminalize_upload_locked, CommitCompletion's guard).
FatesAreFinal ==
    [][\A u \in Upload :
          /\ upload[u].status = "completed" => UNCHANGED <<upload[u], audit[u]>>
          /\ Ended(u) => UNCHANGED <<upload[u], audit[u]>>]_vars

\* No upload is ended as expired before its time, although the sweep's query
\* compares texts that do not sort by time (expire_uploads_at, is_expired).
NoEarlyExpiry ==
    [][\A u \in Upload :
          ~Ended(u) /\ audit'[u].reason = "expired"
              => upload[u].expires <= clock]_vars

\* Started requests end, also two sweeps that meet the same expired uploads
\* in different orders or share a stripe (expire_uploads_at, upload_lock).
TransfersFinish ==
    \A w \in Worker : req[w].pc # "idle" ~> req[w].pc = "idle"
=============================================================================
