----------------------------- MODULE Integrity -----------------------------
(***************************************************************************)
(* An integrity scan of an archive that is in use.  The scan reads rows a  *)
(* page at a time, and then looks at one row or file after another, each   *)
(* under the digest's lock, while completions, deletions and collections   *)
(* go on.  Those requests are the ones of Archive, reduced to what the     *)
(* scan can see of them: rows committed at once, files linked and unlinked *)
(* under the digest locks before the commit, and the same file operations  *)
(* running late when a request is dropped.                                 *)
(*                                                                         *)
(* What a scan does to one digest under its lock is one step: the requests *)
(* that could interfere hold that lock too, all but the removal of an      *)
(* upload's directory, which is seen by the file's metadata (ScanTouched). *)
(* A row's identifier is its digest and the generation of the row; pages   *)
(* are read in that order.                                                 *)
(***************************************************************************)
EXTENDS Integers, FiniteSets

CONSTANTS
    Snapshots,  \* there are snapshots 1..Snapshots
    Digests,    \* and digests 1..Digests
    Refs,       \* [1..Snapshots -> SUBSET 1..Digests] the artifacts' digests
    Writer,     \* requests of the server
    PageSize,   \* PAGE_SIZE
    LateCleanup,\* bound: digests whose upload directories outlive the commit
    SharesLocks,\* does the scan run in the process that serves the requests?
    MaxRows,    \* bound on the generations of a blob row
    MaxFaults   \* bound on dropped requests and damaged files

Snapshot == 1..Snapshots
Digest == 1..Digests

ASSUME IntegrityAssumption ==
    /\ Snapshots \in Nat /\ Digests \in Nat
    /\ Refs \in [Snapshot -> SUBSET Digest]
    /\ PageSize \in Nat \ {0}
    /\ LateCleanup \subseteq Digest
    /\ SharesLocks \in BOOLEAN
    /\ MaxRows \in Nat /\ MaxFaults \in Nat

VARIABLES
    snap,     \* [Snapshot -> ...]  snapshot rows; only live ones have artifacts
    blob,     \* [Digest -> Blob]   blob rows
    file,     \* [Digest -> ...]    blob files
    staged,   \* SUBSET Digest      blob files linked in an upload's directory too
    job,      \* [Writer -> Job]    the requests in progress
    late,     \* SUBSET (op, digest) file operations of dropped requests
    scan,     \* the state of the scan
    findings, \* SUBSET Finding     integrity_findings of the run
    harmed,   \* SUBSET Digest      digests a fault has touched (history)
    sick,     \* SUBSET Digest      rows whose file was bad all the time (history)
    faults

archiveVars == <<snap, blob, file, staged, job, late, faults>>
scanVars == <<scan, findings>>
vars == <<archiveVars, scanVars, harmed, sick>>

\* A row has a deadline, within its grace or due, when it is a candidate for
\* collection.
Blob == [row : {TRUE}, gen : 1..MaxRows, cand : {"none", "grace", "due"}]
        \cup [row : {FALSE}, gen : 0..MaxRows, cand : {"none"}]
Job == [op : {"none", "complete", "delete", "collect"},
        about : SUBSET Digest, snapshot : Snapshot \cup {0}, moved : SUBSET Digest]
Finding == [kind : {"dangling", "tombstone", "drift", "transient", "stale candidate",
                    "grace", "eligible", "orphan", "file", "unowned"},
            severity : {"info", "warning", "error"},
            about : Snapshot \cup Digest]

Idle == [op |-> "none", about |-> {}, snapshot |-> 0, moved |-> {}]

\* pc names the phase; "page" is the rows read and not yet looked at, "todo" the
\* jobs that run concurrently, "after" the last identifier read.
ScanState == [pc : {"begin", "dangling", "snapshots", "reconcile", "artifacts",
                    "jobs", "blobs", "files", "inventory", "over"},
              status : {"none", "running", "healthy", "action required", "failed"},
              after : Nat,
              page : SUBSET (Nat \X Nat),
              todo : SUBSET (Digest \X Nat)]

TypeOK ==
    /\ snap \in [Snapshot -> {"none", "live", "deleted"}]
    /\ blob \in [Digest -> Blob]
    /\ file \in [Digest -> {"absent", "good", "bad"}]
    /\ staged \in SUBSET Digest
    /\ job \in [Writer -> Job]
    /\ late \in SUBSET ({"link", "unlink"} \X Digest)
    /\ scan \in ScanState
    /\ findings \in SUBSET Finding
    /\ harmed \in SUBSET Digest /\ sick \in SUBSET Digest
    /\ faults \in 0..MaxFaults

Init ==
    /\ snap = [s \in Snapshot |-> "none"]
    /\ blob = [d \in Digest |-> [row |-> FALSE, gen |-> 0, cand |-> "none"]]
    /\ file = [d \in Digest |-> "absent"]
    /\ staged = {}
    /\ job = [w \in Writer |-> Idle]
    /\ late = {}
    /\ scan = [pc |-> "begin", status |-> "none", after |-> 0, page |-> {},
               todo |-> {}]
    /\ findings = {}
    /\ harmed = {} /\ sick = {}
    /\ faults = 0

-----------------------------------------------------------------------------
(* The server's requests *)

Locked(d) == \E w \in Writer : d \in job[w].about
Live(s) == snap[s] = "live"
Referenced(d, live) == \E s \in live : d \in Refs[s]
LiveSnapshots == {s \in Snapshot : Live(s)}

\* A row that goes away, or whose file changes, is no longer known to be sick.
Heal(ds) == sick' = sick \ ds

Begin(w, op, ds, s) ==
    /\ job[w] = Idle
    /\ \A d \in ds : ~Locked(d)
    /\ job' = [job EXCEPT ![w] = [op |-> op, about |-> ds, snapshot |-> s,
                                  moved |-> {}]]
    /\ UNCHANGED <<snap, blob, file, staged, late, faults, scanVars, harmed,
                   sick>>

\* complete_upload, once it holds the locks of its digests.  Bound: MaxRows.
BeginComplete(w, s) ==
    /\ snap[s] = "none"
    /\ \A v \in Writer : job[v].snapshot # s
    /\ \A d \in Refs[s] : blob[d].row \/ blob[d].gen < MaxRows
    /\ Begin(w, "complete", Refs[s], s)

\* delete_snapshot, once it holds its locks.
BeginDelete(w, s) ==
    /\ Live(s)
    /\ \A v \in Writer : job[v].snapshot # s
    /\ Begin(w, "delete", Refs[s], s)

\* collect_orphaned_blobs, for a candidate that is due under its lock.
BeginCollect(w, d) ==
    /\ blob[d].row /\ blob[d].cand = "due"
    /\ Begin(w, "collect", {d}, 0)

AlsoStaged(d) == staged \cup ({d} \cap LateCleanup)

\* A promotion links the assembled file, which stays in the upload's directory,
\* or verifies the file that is there.
LinkFile(w, d) ==
    /\ job[w].op = "complete" /\ d \in job[w].about \ job[w].moved
    /\ file[d] # "bad"
    /\ file' = [file EXCEPT ![d] = "good"]
    /\ staged' = IF file[d] = "absent" THEN AlsoStaged(d) ELSE staged
    /\ job' = [job EXCEPT ![w].moved = @ \cup {d}]
    /\ Heal({d})
    /\ UNCHANGED <<snap, blob, late, faults, scanVars, harmed>>

\* The collector unlinks the file in its open transaction.
UnlinkFile(w, d) ==
    /\ job[w].op = "collect" /\ d \in job[w].about \ job[w].moved
    /\ file' = [file EXCEPT ![d] = "absent"]
    /\ staged' = staged \ {d}
    /\ job' = [job EXCEPT ![w].moved = @ \cup {d}]
    /\ UNCHANGED <<snap, blob, late, faults, scanVars, harmed, sick>>

Commit(w) ==
    /\ job' = [job EXCEPT ![w] = Idle]
    /\ UNCHANGED <<file, staged, late, faults, scanVars, harmed>>

\* A new row, or the one that is there, without its deadline.
ReferencedRow(b) == [row |-> TRUE, cand |-> "none",
                     gen |-> IF b.row THEN b.gen ELSE b.gen + 1]

CommitComplete(w) ==
    /\ job[w].op = "complete" /\ job[w].moved = job[w].about
    /\ snap' = [snap EXCEPT ![job[w].snapshot] = "live"]
    /\ blob' = [d \in Digest |->
                  IF d \in job[w].about THEN ReferencedRow(blob[d]) ELSE blob[d]]
    /\ Commit(w)
    /\ UNCHANGED sick

\* Mutant: every blob of the snapshot starts its grace.
CommitDeleteOrphaningAll(w) ==
    /\ job[w].op = "delete"
    /\ snap' = [snap EXCEPT ![job[w].snapshot] = "deleted"]
    /\ blob' = [d \in Digest |->
                  IF d \in job[w].about THEN [blob[d] EXCEPT !.cand = "grace"]
                  ELSE blob[d]]
    /\ Commit(w)
    /\ UNCHANGED sick

\* The tombstone transaction takes the artifacts away and starts the grace of
\* blobs that have lost their last reference.
CommitDelete(w) ==
    /\ job[w].op = "delete"
    /\ snap' = [snap EXCEPT ![job[w].snapshot] = "deleted"]
    /\ blob' = [d \in Digest |->
                  IF d \in job[w].about
                     /\ ~Referenced(d, LiveSnapshots \ {job[w].snapshot})
                  THEN [blob[d] EXCEPT !.cand = "grace"] ELSE blob[d]]
    /\ Commit(w)
    /\ UNCHANGED sick

\* Mutant: the row is only marked as gone.
CommitCollectMarking(w) ==
    /\ job[w].op = "collect" /\ job[w].moved = job[w].about
    /\ blob' = [d \in Digest |->
                  IF d \in job[w].about THEN [blob[d] EXCEPT !.row = FALSE]
                  ELSE blob[d]]
    /\ Heal(job[w].about)
    /\ Commit(w)
    /\ UNCHANGED snap

CommitCollect(w) ==
    /\ job[w].op = "collect" /\ job[w].moved = job[w].about
    /\ blob' = [d \in Digest |->
                  IF d \in job[w].about
                  THEN [blob[d] EXCEPT !.row = FALSE, !.cand = "none"] ELSE blob[d]]
    /\ Heal(job[w].about)
    /\ Commit(w)
    /\ UNCHANGED snap

\* A promotion fails: cleanup removes, under the locks, the files it linked that
\* no row knows, and the assembled files.
FailComplete(w) ==
    /\ job[w].op = "complete"
    /\ file' = [d \in Digest |->
                  IF d \in job[w].moved /\ ~blob[d].row THEN "absent" ELSE file[d]]
    /\ staged' = staged \ job[w].moved
    /\ job' = [job EXCEPT ![w] = Idle]
    /\ UNCHANGED <<snap, blob, late, faults, scanVars, harmed, sick>>

\* remove_upload_dir, after the commit and without the blob locks; the directory
\* of a dropped upload goes when it expires.  The blob's file loses a link, which
\* changes its ctime.
RemoveStaged(d) ==
    /\ d \in staged
    /\ \A w \in Writer : job[w].op = "complete" => d \notin job[w].moved
    /\ staged' = staged \ {d}
    /\ UNCHANGED <<snap, blob, file, job, late, faults, scanVars, harmed, sick>>

GraceEnds(d) ==
    /\ blob[d].cand = "grace"
    /\ blob' = [blob EXCEPT ![d].cand = "due"]
    /\ UNCHANGED <<snap, file, staged, job, late, faults, scanVars, harmed, sick>>

-----------------------------------------------------------------------------
(* Faults *)

Fault(ds) ==
    /\ faults < MaxFaults
    /\ faults' = faults + 1
    /\ harmed' = harmed \cup ds

\* A request is dropped: its locks go, its transaction is rolled back, its file
\* operations are done, or will be done by the blocking pool.
DropRequest(w) ==
    /\ job[w].op \in {"complete", "collect"}
    /\ Fault(job[w].about)
    /\ job' = [job EXCEPT ![w] = Idle]
    /\ \/ UNCHANGED late
       \/ \E d \in job[w].about \ job[w].moved :
             late' = late \cup
                {<<IF job[w].op = "complete" THEN "link" ELSE "unlink", d>>}
    /\ UNCHANGED <<snap, blob, file, staged, scanVars, sick>>

LateFileOperation ==
    /\ \E o \in late :
          /\ late' = late \ {o}
          /\ file' = [file EXCEPT ![o[2]] =
                        IF o[1] = "unlink" THEN "absent"
                        ELSE IF @ = "absent" THEN "good" ELSE @]
          /\ staged' = IF o[1] = "unlink" THEN staged \ {o[2]}
                       ELSE IF file[o[2]] = "absent" THEN AlsoStaged(o[2])
                       ELSE staged
          /\ IF o[1] = "link" THEN Heal({o[2]}) ELSE UNCHANGED sick
    /\ UNCHANGED <<snap, blob, job, faults, scanVars, harmed>>

\* A file rots, or is removed or put there by something else.
Damage(d) ==
    /\ Fault({d})
    /\ \/ file' = [file EXCEPT ![d] = "bad"] /\ UNCHANGED staged
       \/ file' = [file EXCEPT ![d] = "absent"] /\ staged' = staged \ {d}
    /\ UNCHANGED <<snap, blob, job, late, scanVars, sick>>

-----------------------------------------------------------------------------
(* The scan *)

At(pc) == scan.pc = pc
Found(kind, severity, about) ==
    findings \cup {[kind |-> kind, severity |-> severity, about |-> about]}
Record(kind, severity, about) == findings' = Found(kind, severity, about)

\* The digest's lock is there for the scan to take.
CanLock(d) == SharesLocks => ~Locked(d)

\* begin: the run is inserted as running.
BeginScan ==
    /\ At("begin")
    /\ scan' = [scan EXCEPT !.pc = "dangling", !.status = "running"]
    /\ sick' = {d \in Digest : blob[d].row /\ file[d] # "good"}
    /\ UNCHANGED <<archiveVars, findings, harmed>>

\* scan_dangling_artifact_references and its sibling for tombstoned snapshots:
\* one query sees a snapshot, its artifacts and its blob rows together.
ScanDangling ==
    /\ At("dangling")
    /\ findings' = findings \cup
          {[kind |-> "dangling", severity |-> "error", about |-> s] :
              s \in {t \in LiveSnapshots : \E d \in Refs[t] : ~blob[d].row}}
    /\ scan' = [scan EXCEPT !.pc = "snapshots"]
    /\ UNCHANGED <<archiveVars, harmed, sick>>

\* Mutant: only the first page is read.
FirstPage(ids) ==
    LET new == {i \in ids : scan.after = 0}
    IN  {i \in new : Cardinality({j \in new : j < i}) < PageSize}

\* The next page of a table, in the order of its identifiers.
NextPage(ids) ==
    LET new == {i \in ids : i > scan.after}
    IN  {i \in new : Cardinality({j \in new : j < i}) < PageSize}

LastOf(page) == CHOOSE i \in page : \A j \in page : j <= i

\* A page of snapshot rows, each with its state at that time (1 is live); the
\* loop ends with an empty page.
ReadSnapshots ==
    /\ At("snapshots") /\ scan.page = {}
    /\ LET page == NextPage({s \in Snapshot : snap[s] # "none"})
       IN  scan' = IF page = {}
                     THEN [scan EXCEPT !.pc = "blobs", !.after = 0]
                     ELSE [scan EXCEPT !.after = LastOf(page),
                             !.page = {<<s, IF Live(s) THEN 1 ELSE 0>> : s \in page}]
    /\ UNCHANGED <<archiveVars, findings, harmed, sick>>

\* The row that is next in the page.
FirstRow == CHOOSE r \in scan.page : \A q \in scan.page : r[1] <= q[1]
Advance(pc) == scan' = [scan EXCEPT !.pc = pc, !.page = @ \ {FirstRow}]

\* A tombstoned row is noted.  A live one goes on to reconcile_snapshot, whose
\* first query must find the snapshot live.
ScanSnapshot ==
    /\ At("snapshots") /\ scan.page # {}
    /\ LET s == FirstRow[1]
       IN  IF FirstRow[2] = 0 THEN Record("tombstone", "info", s) /\ Advance("snapshots")
           ELSE IF Live(s) THEN /\ scan' = [scan EXCEPT !.pc = "reconcile"]
                                /\ UNCHANGED findings
           ELSE Record("transient", "info", s) /\ Advance("snapshots")
    /\ UNCHANGED <<archiveVars, harmed, sick>>

\* Its second query reads the artifacts, which must match the manifest.
ReconcileArtifacts ==
    /\ At("reconcile")
    /\ scan' = [scan EXCEPT !.pc = "artifacts"]
    /\ IF Live(FirstRow[1]) THEN UNCHANGED findings
                            ELSE Record("drift", "error", FirstRow[1])
    /\ UNCHANGED <<archiveVars, harmed, sick>>

\* artifact_jobs: the artifacts, read once more, become concurrent jobs.
ListArtifacts ==
    /\ At("artifacts")
    /\ scan' = [scan EXCEPT !.pc = "jobs",
                  !.todo = IF Live(FirstRow[1])
                             THEN {<<d, blob[d].gen>> : d \in Refs[FirstRow[1]]} ELSE {}]
    /\ UNCHANGED <<archiveVars, findings, harmed, sick>>

\* scan_artifact_job under the digest's lock.  A stored file that is not healthy
\* is left to the scan of the blobs.
ScanArtifact ==
    /\ At("jobs")
    /\ \E t \in scan.todo :
          /\ CanLock(t[1])
          /\ scan' = [scan EXCEPT !.todo = @ \ {t}]
          /\ IF Live(FirstRow[1]) /\ blob[t[1]].row THEN UNCHANGED findings
             ELSE Record("transient", "info", t[1])
    /\ UNCHANGED <<archiveVars, harmed, sick>>

ArtifactsDone ==
    /\ At("jobs") /\ scan.todo = {}
    /\ Advance("snapshots")
    /\ UNCHANGED <<archiveVars, findings, harmed, sick>>

\* A page of blob rows.
ReadBlobs ==
    /\ At("blobs") /\ scan.page = {} /\ scan.todo = {}
    /\ LET page == NextPage({d \in Digest : blob[d].row})
       IN  scan' = IF page = {}
                     THEN [scan EXCEPT !.pc = "files", !.after = 0]
                     ELSE [scan EXCEPT !.after = LastOf(page),
                             !.page = {<<d, blob[d].gen>> : d \in page}]
    /\ UNCHANGED <<archiveVars, findings, harmed, sick>>

Current(t) == blob[t[1]].row /\ blob[t[1]].gen = t[2]

\* record_blob_liveness.  The clock was read before the rows, so a blob due now
\* may still count as within its grace.
Liveness(d) ==
    IF Referenced(d, LiveSnapshots)
      THEN IF blob[d].cand = "none" THEN {findings}
           ELSE {Found("stale candidate", "warning", d)}
      ELSE CASE blob[d].cand = "none"  -> {Found("orphan", "error", d)}
             [] blob[d].cand = "grace" -> {Found("grace", "info", d)}
             [] blob[d].cand = "due"   -> {Found("grace", "info", d),
                                           Found("eligible", "warning", d)}

\* classify_blob_liveness: the row is read again under the digest's lock, and
\* becomes a job.
ClassifyBlob ==
    /\ At("blobs") /\ scan.page # {}
    /\ CanLock(FirstRow[1])
    /\ IF Current(FirstRow) THEN findings' \in Liveness(FirstRow[1])
                            ELSE Record("transient", "info", FirstRow[1])
    /\ scan' = [scan EXCEPT !.page = @ \ {FirstRow}, !.todo = @ \cup {FirstRow}]
    /\ UNCHANGED <<archiveVars, harmed, sick>>

\* Mutant: the digest's lock is not taken for hashing.
ScanBlobUnlocked ==
    /\ At("blobs") /\ scan.page = {}
    /\ \E t \in scan.todo :
          /\ scan' = [scan EXCEPT !.todo = @ \ {t}]
          /\ IF ~Current(t) THEN Record("transient", "info", t[1])
             ELSE IF file[t[1]] = "good" THEN UNCHANGED findings
             ELSE Record("file", "error", t[1])
    /\ UNCHANGED <<archiveVars, harmed, sick>>

\* scan_blob_job: under the digest's lock the row must still be the one that was
\* read, and its file there with the right bytes.
ScanBlob ==
    /\ At("blobs") /\ scan.page = {}
    /\ \E t \in scan.todo :
          /\ CanLock(t[1])
          /\ scan' = [scan EXCEPT !.todo = @ \ {t}]
          /\ IF ~Current(t) THEN Record("transient", "info", t[1])
             ELSE IF file[t[1]] = "good" THEN UNCHANGED findings
             ELSE Record("file", "error", t[1])
    /\ UNCHANGED <<archiveVars, harmed, sick>>

\* An upload's directory is removed while either job hashes the file.  The stamps
\* differ, and whatever the hash was the change counts as transient.
ScanTouched ==
    /\ At("jobs") \/ (At("blobs") /\ scan.page = {})
    /\ \E t \in scan.todo :
          /\ CanLock(t[1]) /\ Current(t) /\ t[1] \in staged
          /\ scan' = [scan EXCEPT !.todo = @ \ {t}]
          /\ staged' = staged \ {t[1]}
          /\ Record("transient", "info", t[1])
    /\ UNCHANGED <<snap, blob, file, job, late, faults, harmed, sick>>

\* inventory_blob_files: the names in the blob directories.
ListFiles ==
    /\ At("files")
    /\ scan' = [scan EXCEPT !.pc = "inventory",
                  !.todo = {<<d, 0>> : d \in {e \in Digest : file[e] # "absent"}}]
    /\ UNCHANGED <<archiveVars, findings, harmed, sick>>

\* record_unowned_blob_file_if_current
CheckFile ==
    /\ At("inventory")
    /\ \E t \in scan.todo :
          /\ CanLock(t[1])
          /\ scan' = [scan EXCEPT !.todo = @ \ {t}]
          /\ IF ~blob[t[1]].row /\ file[t[1]] # "absent"
               THEN Record("unowned", "error", t[1]) ELSE UNCHANGED findings
    /\ UNCHANGED <<archiveVars, harmed, sick>>

FinalStatus ==
    IF \E f \in findings : f.severity # "info" THEN "action required" ELSE "healthy"

\* complete
CompleteScan ==
    /\ At("inventory") /\ scan.todo = {}
    /\ scan' = [scan EXCEPT !.pc = "over", !.status = FinalStatus, !.after = 0]
    /\ UNCHANGED <<archiveVars, findings, harmed, sick>>

\* A query, a worker or the listing fails: the run is recorded as failed.
FailScan ==
    /\ scan.pc \notin {"begin", "over"}
    /\ scan' = [scan EXCEPT !.pc = "over", !.status = "failed", !.after = 0,
                            !.page = {}, !.todo = {}]
    /\ UNCHANGED <<archiveVars, findings, harmed, sick>>

Next ==
    \/ \E w \in Writer :
          \/ \E s \in Snapshot : BeginComplete(w, s) \/ BeginDelete(w, s)
          \/ \E d \in Digest :
                BeginCollect(w, d) \/ LinkFile(w, d) \/ UnlinkFile(w, d)
          \/ CommitComplete(w) \/ CommitDelete(w) \/ CommitCollect(w)
          \/ FailComplete(w) \/ DropRequest(w)
    \/ \E d \in Digest : GraceEnds(d) \/ RemoveStaged(d) \/ Damage(d)
    \/ LateFileOperation
    \/ BeginScan \/ ScanDangling \/ ReadSnapshots \/ ScanSnapshot
    \/ ReconcileArtifacts \/ ListArtifacts \/ ScanArtifact \/ ArtifactsDone
    \/ ReadBlobs \/ ClassifyBlob \/ ScanBlob \/ ScanTouched \/ ListFiles \/ CheckFile
    \/ CompleteScan \/ FailScan

Spec == Init /\ [][Next]_vars

-----------------------------------------------------------------------------
(* Properties *)

\* integrity.rs: the scan "uses the same per-digest locks as promotion and GC
\* to avoid reporting in-process races as corruption".  A blob or a file is only
\* reported when a fault has touched its digest, however rows and files come and
\* go between the page that listed them and the check.
BlobErrorsAreReal ==
    \A f \in findings :
        /\ f.kind \in {"file", "unowned"} => f.about \in harmed
        /\ f.kind \notin {"dangling", "orphan", "stale candidate"}

\* A run that ends healthy has missed nothing: every blob whose file was bad when
\* it began was repaired or collected meanwhile, or the run says that the blob
\* changed under it.
HealthyMeansSound ==
    scan.status = "healthy" =>
        \A d \in sick : \E f \in findings : f.kind = "transient" /\ f.about = d
=============================================================================
