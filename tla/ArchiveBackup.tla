--------------------------- MODULE ArchiveBackup ---------------------------
(***************************************************************************)
(* backup create, composed with the maintenance gate and with the requests *)
(* of a running server.  Of the archive only what a backup copies is kept: *)
(* blob rows, blob files, and whether an upload is active.  The requests   *)
(* are those of Archive and Transfer, reduced to their effects on that     *)
(* state: files are linked and unlinked outside the database transaction,  *)
(* and a dropped request gives up its permit while its file operation may  *)
(* still run.  Verification and restore of a backup are in Restore.        *)
(***************************************************************************)
EXTENDS Maintenance

CONSTANTS
    Digest,     \* stored digests
    MaxCrashes  \* bound on crashes of the server

ASSUME BackupAssumption ==
    /\ MaxCrashes \in Nat
    /\ None \notin Digest

VARIABLES
    rows,    \* SUBSET Digest      blob rows
    files,   \* SUBSET Digest      blob files
    active,  \* is an upload active?
    job,     \* [Request -> Job]   what an admitted request is doing
    late,    \* SUBSET Job         file operations of dropped requests
    server,  \* "up", "down"
    step,    \* [Backup -> ...]    progress of create_locked
    copy,    \* [Backup -> Copy]   what it has staged
    outputs, \* SUBSET Copy        the finished backup directories
    crashes

archiveVars == <<rows, files, active, job, late, server, crashes>>
createVars == <<step, copy>>
vars == <<gateVars, archiveVars, createVars, outputs>>

Job == [op : {"none", "link", "linked", "unlink", "unlinked"},
        digest : Digest \cup {None}]

\* What a backup directory holds: the database copy, the inventory of its
\* manifest and the blob files.
Copy == [rows : SUBSET Digest,
         lease : BOOLEAN,
         listed : SUBSET Digest,
         files : SUBSET Digest]

NoJob == [op |-> "none", digest |-> None]
EmptyCopy == [rows |-> {}, lease |-> FALSE, listed |-> {}, files |-> {}]

TypeOK ==
    /\ GateTypeOK
    /\ rows \in SUBSET Digest
    /\ files \in SUBSET Digest
    /\ active \in BOOLEAN
    /\ job \in [Request -> Job]
    /\ late \in SUBSET Job
    /\ server \in {"up", "down"}
    /\ step \in [Backup -> {"count", "list", "database", "blobs", "over"}]
    /\ copy \in [Backup -> Copy]
    /\ outputs \in SUBSET Copy
    /\ crashes \in Nat

Init ==
    /\ GateInit
    /\ rows = {} /\ files = {}
    /\ active = FALSE
    /\ job = [p \in Request |-> NoJob]
    /\ late = {}
    /\ server = "up"
    /\ step = [b \in Backup |-> "count"]
    /\ copy = [b \in Backup |-> EmptyCopy]
    /\ outputs = {}
    /\ crashes = 0

-----------------------------------------------------------------------------
(* The server *)

Admitted(p) == entry[p].pc = "in"

\* gate_api_requests: the permit is taken before the handler runs.
EnterRequest(p) ==
    /\ server = "up"
    /\ TakeShared(p)
    /\ UNCHANGED <<archiveVars, createVars, outputs>>

CheckGate(p) ==
    /\ CheckLease(p) \/ ExpireLease(p)
    /\ UNCHANGED <<archiveVars, createVars, outputs>>

\* create_upload
OpenUpload(p) ==
    /\ Admitted(p) /\ job[p] = NoJob
    /\ active' = TRUE
    /\ LeaveShared(p)
    /\ UNCHANGED <<rows, files, job, late, server, crashes, createVars,
                   outputs>>

\* abandon_upload and expire_uploads
EndUpload(p) ==
    /\ Admitted(p) /\ job[p] = NoJob
    /\ active' = FALSE
    /\ LeaveShared(p)
    /\ UNCHANGED <<rows, files, job, late, server, crashes, createVars,
                   outputs>>

\* The digest lock: one request at a time works on a digest.
DigestFree(d) == \A q \in Request : job[q].digest # d

\* complete_upload promotes a blob, or a collection pass picks a candidate.
StartJob(p, d) ==
    /\ Admitted(p) /\ job[p] = NoJob
    /\ DigestFree(d)
    /\ \/ active /\ job' = [job EXCEPT ![p] = [op |-> "link", digest |-> d]]
       \/ /\ d \in rows
          /\ job' = [job EXCEPT ![p] = [op |-> "unlink", digest |-> d]]
    /\ UNCHANGED <<gateVars, rows, files, active, late, server, crashes,
                   createVars, outputs>>

FilesAfter(op, d) == IF op = "link" THEN files \cup {d} ELSE files \ {d}

\* The file operation, outside the database transaction.
MoveFile(p) ==
    /\ job[p].op \in {"link", "unlink"}
    /\ files' = FilesAfter(job[p].op, job[p].digest)
    /\ job' = [job EXCEPT ![p].op = IF @ = "link" THEN "linked" ELSE "unlinked"]
    /\ UNCHANGED <<gateVars, rows, active, late, server, crashes,
                   createVars, outputs>>

\* The transaction commits; the handler returns and the permit is dropped.
CommitJob(p) ==
    /\ job[p].op \in {"linked", "unlinked"}
    /\ IF job[p].op = "linked"
         THEN rows' = rows \cup {job[p].digest} /\ active' = FALSE
         ELSE rows' = rows \ {job[p].digest} /\ UNCHANGED active
    /\ job' = [job EXCEPT ![p] = NoJob]
    /\ LeaveShared(p)
    /\ UNCHANGED <<files, late, server, crashes, createVars, outputs>>

\* The request fails or is dropped (timeout, disconnect).  Its transaction is
\* rolled back, but a file operation already given to the blocking pool runs on.
DropRequest(p) ==
    /\ LeaveShared(p)
    /\ job' = [job EXCEPT ![p] = NoJob]
    /\ \/ UNCHANGED late
       \/ job[p].op \in {"link", "unlink"} /\ late' = late \cup {job[p]}
    /\ UNCHANGED <<rows, files, active, server, crashes, createVars,
                   outputs>>

LateFileOperation ==
    /\ \E j \in late :
          /\ files' = FilesAfter(j.op, j.digest)
          /\ late' = late \ {j}
    /\ UNCHANGED <<gateVars, rows, active, job, server, crashes,
                   createVars, outputs>>

\* The server dies, running or starting up.
CrashServer ==
    /\ server = "up" \/ entry[Bootstrap].pc # "out"
    /\ crashes < MaxCrashes
    /\ crashes' = crashes + 1
    /\ server' = "down"
    /\ DropSharers
    /\ job' = [p \in Request |-> NoJob]
    /\ late' = {}
    /\ UNCHANGED <<rows, files, active, createVars, outputs>>

\* bootstrap_with_recovery: migrations run under the file lock alone.
BeginBootstrap ==
    /\ server = "down"
    /\ TakeShared(Bootstrap)
    /\ UNCHANGED <<archiveVars, createVars, outputs>>

\* Recovery removes files no row knows, expires uploads, and drops the permit.
FinishBootstrap ==
    /\ Admitted(Bootstrap)
    /\ files' = files \cap rows
    /\ active' \in {active, FALSE}
    /\ server' = "up"
    /\ LeaveShared(Bootstrap)
    /\ UNCHANGED <<rows, job, late, crashes, createVars, outputs>>

-----------------------------------------------------------------------------
(* backup create *)

GateStep(b) ==
    /\ ClaimLease(b) \/ TakeExclusive(b) \/ GiveUp(b) \/ Unlock(b)
    /\ UNCHANGED <<archiveVars, createVars, outputs>>

FailAcquire(b) ==
    /\ AcquireFails(b)
    /\ UNCHANGED <<archiveVars, createVars, outputs>>

\* A run that dies leaves a staging directory that nothing reads again.
Discard(b) == copy' = [copy EXCEPT ![b] = EmptyCopy]

KillBackup(b) ==
    /\ Die(b)
    /\ step' = [step EXCEPT ![b] = "over"]
    /\ Discard(b)
    /\ UNCHANGED <<archiveVars, outputs>>

AtStep(b, s) == hold[b] = "working" /\ step[b] = s
SetStep(b, s) == step' = [step EXCEPT ![b] = s]

\* Uploads in progress are refused.
CountUploads(b) ==
    /\ AtStep(b, "count")
    /\ SetStep(b, IF active THEN "over" ELSE "list")
    /\ UNCHANGED <<gateVars, archiveVars, copy, outputs>>

ListBlobs(b) ==
    /\ AtStep(b, "list")
    /\ copy' = [copy EXCEPT ![b].listed = rows]
    /\ SetStep(b, "database")
    /\ UNCHANGED <<gateVars, archiveVars, outputs>>

\* online_sqlite_backup: a consistent copy, in which the lease is cleared.
CopyDatabase(b) ==
    /\ AtStep(b, "database")
    /\ copy' = [copy EXCEPT ![b].rows = rows, ![b].lease = FALSE]
    /\ SetStep(b, "blobs")
    /\ UNCHANGED <<gateVars, archiveVars, outputs>>

\* copy_blob for each listed row; a missing file fails the backup.
CopyBlob(b) ==
    /\ AtStep(b, "blobs")
    /\ \E d \in copy[b].listed \ copy[b].files :
          IF d \in files
            THEN /\ copy' = [copy EXCEPT ![b].files = @ \cup {d}]
                 /\ UNCHANGED step
            ELSE SetStep(b, "over") /\ Discard(b)
    /\ UNCHANGED <<gateVars, archiveVars, outputs>>

\* The manifest is written and the staging directory renamed to the output.
FinalizeBackup(b) ==
    /\ AtStep(b, "blobs")
    /\ copy[b].files = copy[b].listed
    /\ outputs' = outputs \cup {copy[b]}
    /\ SetStep(b, "over") /\ Discard(b)
    /\ UNCHANGED <<gateVars, archiveVars>>

\* Any step can fail: the staging directory is removed, and the permit is
\* released either way.
FailBackup(b) ==
    /\ hold[b] = "working" /\ step[b] # "over"
    /\ SetStep(b, "over") /\ Discard(b)
    /\ UNCHANGED <<gateVars, archiveVars, outputs>>

ReleasePermit(b) ==
    /\ step[b] = "over"
    /\ ReleaseLease(b)
    /\ UNCHANGED <<archiveVars, createVars, outputs>>

AdvanceClock ==
    /\ Tick
    /\ UNCHANGED <<archiveVars, createVars, outputs>>

BackupStep(b) ==
    \/ hold[b] # "idle" /\ GateStep(b)
    \/ CountUploads(b) \/ ListBlobs(b) \/ CopyDatabase(b) \/ CopyBlob(b)
    \/ FinalizeBackup(b) \/ ReleasePermit(b)

Next ==
    \/ \E p \in Request :
          \/ EnterRequest(p) \/ OpenUpload(p) \/ EndUpload(p)
          \/ MoveFile(p) \/ CommitJob(p) \/ DropRequest(p)
          \/ \E d \in Digest : StartJob(p, d)
    \/ \E p \in Sharer : CheckGate(p)
    \/ LateFileOperation \/ CrashServer \/ BeginBootstrap \/ FinishBootstrap
    \/ \E b \in Backup :
          \/ GateStep(b) \/ FailAcquire(b) \/ KillBackup(b)
          \/ CountUploads(b) \/ ListBlobs(b)
          \/ CopyDatabase(b) \/ CopyBlob(b) \/ FinalizeBackup(b) \/ FailBackup(b)
          \/ ReleasePermit(b)
    \/ AdvanceClock

Spec == Init /\ [][Next]_vars

\* The backup command runs on while its process lives, and time passes.
\* Nothing is assumed of clients or of the server.
FairSpec ==
    /\ Spec
    /\ \A b \in Backup : WF_vars(BackupStep(b))
    /\ WF_vars(AdvanceClock)

-----------------------------------------------------------------------------
(* Properties *)

\* backup.rs: while the exclusive lock is held the database stands still, so
\* that the rows listed and the rows copied are the same.
DatabaseQuiet ==
    [][owner # None => UNCHANGED <<rows, active>>]_vars

\* A finished backup is complete and bootable: its files are exactly the blobs
\* of its manifest and of its database copy, whatever dropped requests did to
\* the files meanwhile, and it carries no lease of its own making.
BackupsAreComplete ==
    \A c \in outputs : /\ c.files = c.listed
                       /\ c.files = c.rows
                       /\ ~c.lease
=============================================================================
