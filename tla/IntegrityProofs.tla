-------------------------- MODULE IntegrityProofs --------------------------
(***************************************************************************)
(* Proofs about Integrity and Downloads, for any snapshots, digests and    *)
(* requests: what the archive under a scan or a read looks like            *)
(* (ArchiveInv), and with it that a scan reports no race as corruption and *)
(* overlooks nothing, and that a read of a live snapshot succeeds.         *)
(***************************************************************************)
EXTENDS Downloads, FiniteSetTheorems, WellFoundedInduction, TLAPS

-----------------------------------------------------------------------------
(* The archive under the scan *)

\* A request in progress: what it is about, and what it has done so far.
JobSound(w) ==
    /\ job[w].moved \subseteq job[w].about
    /\ job[w].op = "none" => job[w] = Idle
    /\ job[w].op \in {"complete", "delete"} =>
          /\ job[w].snapshot \in Snapshot
          /\ job[w].about = Refs[job[w].snapshot]
          /\ snap[job[w].snapshot] =
                IF job[w].op = "complete" THEN "none" ELSE "live"
    /\ job[w].op = "delete" => job[w].moved = {}
    /\ job[w].op = "complete" =>
          \A d \in job[w].about : blob[d].row \/ blob[d].gen < MaxRows
    /\ job[w].op = "collect" =>
          \A d \in job[w].about : blob[d].row /\ blob[d].cand = "due"

\* Two requests share neither a digest nor a snapshot.
JobsApart ==
    \A v, w \in Writer : v # w =>
        /\ job[v].about \cap job[w].about = {}
        /\ job[v].snapshot # 0 => job[v].snapshot # job[w].snapshot

\* A blob row has a deadline exactly when no live snapshot refers to it, and
\* every digest of a live snapshot has a row.
RowsSound ==
    \A d \in Digest :
        IF Referenced(d, LiveSnapshots)
          THEN blob[d].row /\ blob[d].cand = "none"
          ELSE blob[d].row => blob[d].cand # "none"

Linked(d) == \E w \in Writer : job[w].op = "complete" /\ d \in job[w].moved
Unlinked(d) == \E w \in Writer : job[w].op = "collect" /\ d \in job[w].moved

\* Rows and files of a digest that no fault has touched: they agree, but for
\* the request that is between its file operation and its commit.
FileSound(d) ==
    /\ file[d] # "bad"
    /\ Linked(d) => file[d] = "good"
    /\ Unlinked(d) => file[d] = "absent"
    /\ blob[d].row /\ ~Unlinked(d) => file[d] = "good"
    /\ ~blob[d].row /\ ~Linked(d) => file[d] = "absent"

FilesSound == \A d \in Digest \ harmed : FileSound(d)

\* A file operation is late only after a fault.
LateHarmed == \A o \in late : o[2] \in harmed

ArchiveTyped ==
    /\ snap \in [Snapshot -> {"none", "live", "deleted"}]
    /\ blob \in [Digest -> Blob]
    /\ file \in [Digest -> {"absent", "good", "bad"}]
    /\ staged \in SUBSET Digest
    /\ job \in [Writer -> Job]
    /\ late \in SUBSET ({"link", "unlink"} \X Digest)
    /\ harmed \in SUBSET Digest
    /\ faults \in 0..MaxFaults

ArchiveInv ==
    /\ \A w \in Writer : JobSound(w)
    /\ JobsApart /\ RowsSound /\ FilesSound /\ LateHarmed

-----------------------------------------------------------------------------
(* The scan *)

\* What the phases of the scan keep in "page" and "todo".
PageSound ==
    /\ scan.pc \in {"snapshots", "reconcile", "artifacts", "jobs"} =>
          scan.page \subseteq Snapshot \X Nat
    /\ scan.pc \in {"reconcile", "artifacts", "jobs"} => scan.page # {}
    /\ scan.pc = "blobs" => scan.page \subseteq Digest \X Nat
    /\ scan.pc \notin {"snapshots", "reconcile", "artifacts", "jobs", "blobs"}
          => scan.page = {}
    /\ scan.pc = "begin" => scan.status = "none"
    /\ scan.pc # "over" => scan.status \in {"none", "running"}
    /\ scan.status = "healthy" => \A f \in findings : f.severity = "info"

ScanTyped == scan \in ScanState /\ findings \in SUBSET Finding /\ sick \in SUBSET Digest

\* The scan has something to say about d.
Reported(d) == \E f \in findings : /\ f.about = d
                                   /\ f.kind = "transient" \/ f.severity # "info"

\* Where the scan will still meet the row of d, or has met it.
Covered(d) ==
    \/ scan.pc \in {"begin", "dangling", "snapshots", "reconcile", "artifacts",
                    "jobs"}
    \/ /\ scan.pc = "blobs"
       /\ \/ d > scan.after
          \/ <<d, blob[d].gen>> \in scan.page \cup scan.todo
    \/ scan.status = "failed"
    \/ Reported(d)

SickSound ==
    \A d \in sick : blob[d].row /\ file[d] # "good" /\ Covered(d)

-----------------------------------------------------------------------------
(* A read *)

ReadSound ==
    /\ read.pc # "idle" => /\ read.snapshot \in Snapshot
                           /\ read.digest \in Refs[read.snapshot]
    /\ read.pc \notin {"idle", "over"} /\ ~read.gone => Live(read.snapshot)
    /\ read.pc = "artifacts" => read.of = "snapshot"
    /\ read.pc \in {"open", "hash", "stream"} => read.of = "artifact"
    /\ LiveReadsSucceed

-----------------------------------------------------------------------------
(* Rows and requests *)

\* What the type says of one blob row.
LEMMA BlobFields ==
  ASSUME NEW b \in Blob
  PROVE  /\ b.row \in BOOLEAN
         /\ b.gen \in 0..MaxRows
         /\ b.cand \in {"none", "grace", "due"}
         /\ b.row => b.gen \in 1..MaxRows
         /\ ~b.row => b.cand = "none"
<1>1. CASE b \in [row : {TRUE}, gen : 1..MaxRows,
                  cand : {"none", "grace", "due"}]
  <2>1. /\ b.row = TRUE /\ b.gen \in 1..MaxRows
        /\ b.cand \in {"none", "grace", "due"}
    BY <1>1
  <2>2. b.gen \in 0..MaxRows
    BY <2>1, IntegrityAssumption
  <2> QED BY <2>1, <2>2
<1>2. CASE b \in [row : {FALSE}, gen : 0..MaxRows, cand : {"none"}]
  BY <1>2
<1> QED BY <1>1, <1>2 DEF Blob

\* Two requests that share no digest: a digest of one is not of the other.
LEMMA Owner ==
  ASSUME JobsApart, \A v \in Writer : JobSound(v),
         NEW w \in Writer, NEW d \in job[w].about
  PROVE  /\ Linked(d) <=> job[w].op = "complete" /\ d \in job[w].moved
         /\ Unlinked(d) <=> job[w].op = "collect" /\ d \in job[w].moved
<1>1. \A v \in Writer : v # w => d \notin job[v].moved
  BY DEF JobsApart, JobSound
<1> QED BY <1>1 DEF Linked, Unlinked

\* The same after a step.
LEMMA OwnerNext ==
  ASSUME JobsApart', \A v \in Writer : JobSound(v)',
         NEW w \in Writer, NEW d \in job'[w].about
  PROVE  /\ Linked(d)' <=> job'[w].op = "complete" /\ d \in job'[w].moved
         /\ Unlinked(d)' <=> job'[w].op = "collect" /\ d \in job'[w].moved
<1>1. \A v \in Writer : v # w => d \notin job'[v].moved
  BY DEF JobsApart, JobSound
<1> QED BY <1>1 DEF Linked, Unlinked

\* What the others have done with their files is not changed by w's step.
LEMMA NotMoved ==
  ASSUME NEW w \in Writer, NEW j, job' = [job EXCEPT ![w] = j],
         job \in [Writer -> Job], NEW d, d \notin job[w].moved, d \notin j.moved
  PROVE  (Linked(d)' <=> Linked(d)) /\ (Unlinked(d)' <=> Unlinked(d))
<1>1. job'[w] = j /\ \A v \in Writer : v # w => job'[v] = job[v]
  OBVIOUS
<1> QED BY <1>1 DEF Linked, Unlinked

\* A request is as it was while its snapshot and the rows of its digests are.
LEMMA JobKept ==
  ASSUME NEW v \in Writer, JobSound(v), job'[v] = job[v],
         job[v].snapshot \in Snapshot =>
             snap'[job[v].snapshot] = snap[job[v].snapshot],
         \A d \in job[v].about :
             /\ blob'[d].row = blob[d].row /\ blob'[d].gen = blob[d].gen
             /\ blob[d].cand = "due" => blob'[d].cand = "due"
  PROVE  JobSound(v)'
BY DEF JobSound

\* What one request's step must respect for the others to go on.
LEMMA JobStep ==
  ASSUME ArchiveTyped, JobsApart, \A v \in Writer : JobSound(v),
         NEW w \in Writer, NEW j \in Job, job' = [job EXCEPT ![w] = j],
         \A v \in Writer : v # w =>
             /\ job[v].about \cap j.about = {}
             /\ j.snapshot # 0 => j.snapshot # job[v].snapshot
             /\ job[v].snapshot \in Snapshot =>
                    snap'[job[v].snapshot] = snap[job[v].snapshot]
             /\ \A d \in job[v].about : blob'[d] = blob[d],
         JobSound(w)'
  PROVE  /\ job' \in [Writer -> Job]
         /\ JobsApart' /\ \A v \in Writer : JobSound(v)'
<1>1. job'[w] = j /\ \A v \in Writer : v # w => job'[v] = job[v]
  BY DEF ArchiveTyped
<1>2. job' \in [Writer -> Job]
  BY DEF ArchiveTyped
<1>3. ASSUME NEW v \in Writer, v # w PROVE JobSound(v)'
  BY <1>1, <1>3, JobKept
<1>4. JobsApart'
  BY <1>1 DEF JobsApart
<1> QED BY <1>2, <1>3, <1>4

\* The idle request is sound, and in nobody's way.
LEMMA IdleSound ==
  /\ Idle \in Job
  /\ Idle.about = {} /\ Idle.moved = {} /\ Idle.snapshot = 0
  /\ Idle.op = "none"
BY DEF Idle, Job

\* A request ends: the others' rows and snapshots stay.
LEMMA JobEnds ==
  ASSUME ArchiveTyped, JobsApart, \A v \in Writer : JobSound(v),
         NEW w \in Writer, job' = [job EXCEPT ![w] = Idle],
         \A v \in Writer : v # w =>
             /\ job[v].snapshot \in Snapshot =>
                    snap'[job[v].snapshot] = snap[job[v].snapshot]
             /\ \A d \in job[v].about : blob'[d] = blob[d]
  PROVE  /\ job' \in [Writer -> Job]
         /\ JobsApart' /\ \A v \in Writer : JobSound(v)'
         /\ \A d \in job[w].about : ~Linked(d)' /\ ~Unlinked(d)'
<1>1. job'[w] = Idle /\ \A v \in Writer : v # w => job'[v] = job[v]
  BY DEF ArchiveTyped
<1>2. JobSound(w)'
  BY <1>1, IdleSound DEF JobSound
<1>3. /\ job' \in [Writer -> Job]
      /\ JobsApart' /\ \A v \in Writer : JobSound(v)'
  <2> HIDE DEF Idle
  <2> QED BY <1>2, JobStep, IdleSound
<1>4. ASSUME NEW d \in job[w].about PROVE ~Linked(d)' /\ ~Unlinked(d)'
  <2>1. \A v \in Writer : d \notin job'[v].moved
    BY <1>1, <1>3, IdleSound DEF JobsApart, JobSound
  <2> QED BY <2>1 DEF Linked, Unlinked
<1> QED BY <1>3, <1>4

-----------------------------------------------------------------------------
(* The archive's steps *)

\* A request begins: it has locks of its own, and has done nothing.
LEMMA BeginArchive ==
  ASSUME ArchiveTyped, ArchiveInv, NEW w \in Writer,
         NEW op \in {"complete", "delete", "collect"},
         NEW ds \in SUBSET Digest, NEW s \in Snapshot \cup {0}, Begin(w, op, ds, s),
         s # 0 => \A v \in Writer : job[v].snapshot # s,
         op \in {"complete", "delete"} =>
            /\ s \in Snapshot /\ ds = Refs[s]
            /\ snap[s] = IF op = "complete" THEN "none" ELSE "live",
         op = "complete" => \A d \in ds : blob[d].row \/ blob[d].gen < MaxRows,
         op = "collect" => \A d \in ds : blob[d].row /\ blob[d].cand = "due"
  PROVE  ArchiveTyped' /\ ArchiveInv'
<1> DEFINE j == [op |-> op, about |-> ds, snapshot |-> s, moved |-> {}]
<1>1. /\ j \in Job /\ j.op = op /\ j.about = ds /\ j.snapshot = s /\ j.moved = {}
  BY DEF Job
<1>2. /\ job' = [job EXCEPT ![w] = j] /\ job[w] = Idle
      /\ UNCHANGED <<snap, blob, file, staged, late, faults, harmed>>
      /\ \A d \in ds, v \in Writer : d \notin job[v].about
  BY DEF Begin, Locked
<1>3. job'[w] = j
  BY <1>2 DEF ArchiveTyped
<1> HIDE DEF j
<1>4. JobSound(w)'
  BY <1>1, <1>2, <1>3 DEF JobSound
<1>5. /\ job' \in [Writer -> Job]
      /\ JobsApart' /\ \A v \in Writer : JobSound(v)'
  BY <1>1, <1>2, <1>4, JobStep DEF ArchiveInv
<1>6. RowsSound' /\ LateHarmed'
  BY <1>2 DEF ArchiveInv, RowsSound, LateHarmed, Referenced, LiveSnapshots, Live
<1>7. \A d \in Digest : (Linked(d)' <=> Linked(d)) /\ (Unlinked(d)' <=> Unlinked(d))
  BY <1>1, <1>2, NotMoved, IdleSound DEF ArchiveTyped
<1>8. FilesSound'
  BY <1>2, <1>7 DEF ArchiveInv, FilesSound, FileSound
<1>9. ArchiveTyped'
  BY <1>2, <1>5 DEF ArchiveTyped
<1> QED BY <1>5, <1>6, <1>8, <1>9 DEF ArchiveInv

\* Requests for a snapshot or a candidate.
LEMMA BeginsArchive ==
  ASSUME ArchiveTyped, ArchiveInv, NEW w \in Writer,
         \/ \E s \in Snapshot : BeginComplete(w, s) \/ BeginDelete(w, s)
         \/ \E d \in Digest : BeginCollect(w, d)
  PROVE  ArchiveTyped' /\ ArchiveInv'
<1>0. \A s \in Snapshot : s # 0 /\ Refs[s] \in SUBSET Digest
  BY IntegrityAssumption DEF Snapshot
<1>1. ASSUME NEW s \in Snapshot, BeginComplete(w, s)
      PROVE  ArchiveTyped' /\ ArchiveInv'
  BY <1>0, <1>1, BeginArchive DEF BeginComplete
<1>2. ASSUME NEW s \in Snapshot, BeginDelete(w, s)
      PROVE  ArchiveTyped' /\ ArchiveInv'
  BY <1>0, <1>2, BeginArchive DEF BeginDelete, Live
<1>3. ASSUME NEW d \in Digest, BeginCollect(w, d)
      PROVE  ArchiveTyped' /\ ArchiveInv'
  BY <1>3, BeginArchive DEF BeginCollect
<1> QED BY <1>1, <1>2, <1>3

\* One more file of a request is linked or unlinked.
LEMMA MoveArchive ==
  ASSUME ArchiveTyped, ArchiveInv, NEW w \in Writer, NEW d \in Digest,
         d \in job[w].about, job[w].op \in {"complete", "collect"},
         job' = [job EXCEPT ![w].moved = @ \cup {d}],
         file' = [file EXCEPT ![d] =
                    IF job[w].op = "complete" THEN "good" ELSE "absent"],
         staged' \in SUBSET Digest, UNCHANGED <<snap, blob, late, faults, harmed>>
  PROVE  ArchiveTyped' /\ ArchiveInv'
<1> PICK j : j = [job[w] EXCEPT !.moved = @ \cup {d}]
  OBVIOUS
<1>1. /\ j \in Job /\ j.op = job[w].op /\ j.about = job[w].about
      /\ j.snapshot = job[w].snapshot /\ j.moved = job[w].moved \cup {d}
  <2>1. job[w] \in Job
    BY DEF ArchiveTyped
  <2> QED BY <2>1 DEF Job
<1>2. job' = [job EXCEPT ![w] = j]
  BY DEF ArchiveTyped
<1>3. job'[w] = j
  BY <1>2 DEF ArchiveTyped
<1>4. JobSound(w)'
  BY <1>1, <1>3 DEF ArchiveInv, JobSound
<1>5. /\ job' \in [Writer -> Job]
      /\ JobsApart' /\ \A v \in Writer : JobSound(v)'
  <2>1. \A v \in Writer : v # w =>
           /\ job[v].about \cap j.about = {}
           /\ j.snapshot # 0 => j.snapshot # job[v].snapshot
    BY <1>1 DEF ArchiveInv, JobsApart
  <2> QED BY <1>1, <1>2, <1>4, <2>1, JobStep DEF ArchiveInv
<1>6. RowsSound' /\ LateHarmed'
  BY DEF ArchiveInv, RowsSound, LateHarmed, Referenced, LiveSnapshots, Live
<1>7. ASSUME NEW e \in Digest \ harmed PROVE FileSound(e)'
  <2>1. CASE e = d
    <3>1. /\ Linked(e)' <=> job[w].op = "complete"
          /\ Unlinked(e)' <=> job[w].op = "collect"
      <4>1. e \in job'[w].about /\ e \in job'[w].moved /\ job'[w].op = job[w].op
        BY <1>1, <1>3, <2>1
      <4> QED BY <1>5, <4>1, OwnerNext
    <3>2. file'[e] = IF job[w].op = "complete" THEN "good" ELSE "absent"
      BY <2>1 DEF ArchiveTyped
    <3> QED BY <3>1, <3>2 DEF FileSound
  <2>2. CASE e # d
    <3>1. file'[e] = file[e]
      BY <2>2 DEF ArchiveTyped
    <3>2. (Linked(e)' <=> Linked(e)) /\ (Unlinked(e)' <=> Unlinked(e))
      <4>1. CASE e \in job[w].about
        <5>1. /\ e \in job'[w].about /\ job'[w].op = job[w].op
              /\ e \in job'[w].moved <=> e \in job[w].moved
          BY <1>1, <1>3, <2>2, <4>1
        <5>2. /\ Linked(e)' <=> job'[w].op = "complete" /\ e \in job'[w].moved
              /\ Unlinked(e)' <=> job'[w].op = "collect" /\ e \in job'[w].moved
          BY <1>5, <5>1, OwnerNext
        <5> QED BY <4>1, <5>1, <5>2, Owner DEF ArchiveInv
      <4>2. CASE e \notin job[w].about
        <5>1. e \notin job[w].moved /\ e \notin j.moved
          BY <1>1, <2>2, <4>2 DEF ArchiveInv, JobSound
        <5> QED BY <1>2, <5>1, NotMoved DEF ArchiveTyped
      <4> QED BY <4>1, <4>2
    <3>3. FileSound(e)
      BY DEF ArchiveInv, FilesSound
    <3> QED BY <3>1, <3>2, <3>3 DEF FileSound
  <2> QED BY <2>1, <2>2
<1>8. FilesSound'
  BY <1>7 DEF FilesSound
<1>9. ArchiveTyped'
  BY <1>5 DEF ArchiveTyped
<1> QED BY <1>5, <1>6, <1>8, <1>9 DEF ArchiveInv

\* LinkFile and UnlinkFile.
LEMMA FilesArchive ==
  ASSUME ArchiveTyped, ArchiveInv, NEW w \in Writer, NEW d \in Digest,
         LinkFile(w, d) \/ UnlinkFile(w, d)
  PROVE  ArchiveTyped' /\ ArchiveInv'
<1>1. CASE LinkFile(w, d)
  <2>1. staged' \in SUBSET Digest
    BY <1>1 DEF LinkFile, ArchiveTyped, AlsoStaged
  <2> QED BY <1>1, <2>1, MoveArchive DEF LinkFile
<1>2. CASE UnlinkFile(w, d)
  <2>1. staged' \in SUBSET Digest
    BY <1>2 DEF UnlinkFile, ArchiveTyped
  <2> QED BY <1>2, <2>1, MoveArchive DEF UnlinkFile
<1> QED BY <1>1, <1>2

\* What the end of a request, with a commit or without, must respect.
LEMMA EndArchive ==
  ASSUME ArchiveTyped, ArchiveInv, NEW w \in Writer,
         job' = [job EXCEPT ![w] = Idle],
         UNCHANGED <<late, faults, harmed>>, staged' \in SUBSET Digest,
         snap' \in [Snapshot -> {"none", "live", "deleted"}],
         blob' \in [Digest -> Blob], file' \in [Digest -> {"absent", "good", "bad"}],
         \A s \in Snapshot : s # job[w].snapshot => snap'[s] = snap[s],
         \A d \in Digest \ job[w].about : blob'[d] = blob[d] /\ file'[d] = file[d],
         RowsSound',
         \A d \in job[w].about \ harmed :
             file'[d] = IF blob'[d].row THEN "good" ELSE "absent"
  PROVE  ArchiveTyped' /\ ArchiveInv'
<1>0. /\ JobsApart /\ \A v \in Writer : JobSound(v)
      /\ FilesSound /\ LateHarmed
  BY DEF ArchiveInv
<1>1. ASSUME NEW v \in Writer, v # w
      PROVE  /\ job[v].snapshot \in Snapshot =>
                    snap'[job[v].snapshot] = snap[job[v].snapshot]
             /\ \A d \in job[v].about : blob'[d] = blob[d]
  <2>1. job[v] \in Job
    BY DEF ArchiveTyped
  <2>2. job[v].about \subseteq Digest
    BY <2>1 DEF Job
  <2>3. job[v].snapshot \in Snapshot => job[v].snapshot # 0
    BY IntegrityAssumption DEF Snapshot
  <2> QED BY <1>0, <1>1, <2>2, <2>3 DEF JobsApart
<1>2. /\ job' \in [Writer -> Job]
      /\ JobsApart' /\ \A v \in Writer : JobSound(v)'
      /\ \A d \in job[w].about : ~Linked(d)' /\ ~Unlinked(d)'
  BY <1>0, <1>1, JobEnds
<1>3. ASSUME NEW d \in Digest \ harmed PROVE FileSound(d)'
  <2>1. CASE d \in job[w].about
    BY <1>2, <2>1 DEF FileSound
  <2>2. CASE d \notin job[w].about
    <3>1. d \notin job[w].moved /\ d \notin Idle.moved
      BY <1>0, <2>2, IdleSound DEF JobSound
    <3>2. (Linked(d)' <=> Linked(d)) /\ (Unlinked(d)' <=> Unlinked(d))
      BY <3>1, NotMoved DEF ArchiveTyped
    <3> QED BY <1>0, <2>2, <3>2 DEF FilesSound, FileSound
  <2> QED BY <2>1, <2>2
<1>4. FilesSound' /\ LateHarmed'
  BY <1>0, <1>3 DEF FilesSound, LateHarmed
<1>5. ArchiveTyped'
  BY <1>2 DEF ArchiveTyped
<1> QED BY <1>2, <1>4, <1>5 DEF ArchiveInv

\* A commit of an upload makes its snapshot live, and all its files are there.
LEMMA CommitCompleteArchive ==
  ASSUME ArchiveTyped, ArchiveInv, NEW w \in Writer, CommitComplete(w)
  PROVE  ArchiveTyped' /\ ArchiveInv'
<1> PICK s : s = job[w].snapshot
  OBVIOUS
<1>1. /\ s \in Snapshot /\ job[w].about = Refs[s] /\ snap[s] = "none"
      /\ job[w].op = "complete" /\ job[w].moved = job[w].about
      /\ \A d \in job[w].about : blob[d].row \/ blob[d].gen < MaxRows
      /\ job[w].about \subseteq Digest
  <2>1. JobSound(w)
    BY DEF ArchiveInv
  <2>2. \A t \in Snapshot : Refs[t] \subseteq Digest
    BY IntegrityAssumption
  <2> QED BY <2>1, <2>2 DEF JobSound, CommitComplete
<1>2. snap' = [snap EXCEPT ![s] = "live"]
  BY DEF CommitComplete
<1>3. /\ snap' \in [Snapshot -> {"none", "live", "deleted"}]
      /\ snap'[s] = "live" /\ \A t \in Snapshot : t # s => snap'[t] = snap[t]
  BY <1>1, <1>2 DEF ArchiveTyped
<1>4. ASSUME NEW d \in Digest
      PROVE  /\ blob'[d] \in Blob
             /\ d \in job[w].about => blob'[d].row /\ blob'[d].cand = "none"
             /\ d \notin job[w].about => blob'[d] = blob[d]
  <2>1. blob[d] \in Blob
    BY DEF ArchiveTyped
  <2>2. blob'[d] = IF d \in job[w].about THEN ReferencedRow(blob[d]) ELSE blob[d]
    BY DEF CommitComplete
  <2>3. CASE d \in job[w].about
    <3> PICK g : g = IF blob[d].row THEN blob[d].gen ELSE blob[d].gen + 1
      OBVIOUS
    <3>1. g \in 1..MaxRows
      <4>1. /\ blob[d].gen \in 0..MaxRows
            /\ blob[d].row => blob[d].gen \in 1..MaxRows
        BY <2>1, BlobFields
      <4>2. blob[d].row \/ blob[d].gen < MaxRows
        BY <1>1, <2>3
      <4> QED BY <4>1, <4>2, IntegrityAssumption
    <3>2. blob'[d] = [row |-> TRUE, cand |-> "none", gen |-> g]
      BY <2>2, <2>3 DEF ReferencedRow
    <3> QED BY <2>3, <3>1, <3>2 DEF Blob
  <2> QED BY <2>1, <2>2, <2>3
<1>5. blob' \in [Digest -> Blob]
  <2>1. blob' = [d \in Digest |-> blob'[d]]
    BY DEF CommitComplete
  <2> QED BY <1>4, <2>1
<1>6. RowsSound'
  <2> SUFFICES ASSUME NEW d \in Digest
               PROVE  IF Referenced(d, LiveSnapshots)'
                        THEN blob'[d].row /\ blob'[d].cand = "none"
                        ELSE blob'[d].row => blob'[d].cand # "none"
    BY DEF RowsSound
  <2>1. Referenced(d, LiveSnapshots)' <=>
           Referenced(d, LiveSnapshots) \/ d \in job[w].about
    BY <1>1, <1>3 DEF Referenced, LiveSnapshots, Live
  <2> QED BY <1>4, <2>1 DEF ArchiveInv, RowsSound
<1>7. ASSUME NEW d \in job[w].about \ harmed PROVE file[d] = "good"
  BY <1>1, <1>7 DEF ArchiveInv, FilesSound, FileSound, Linked
<1>8. /\ job' = [job EXCEPT ![w] = Idle]
      /\ UNCHANGED <<file, staged, late, faults, harmed>>
  BY DEF CommitComplete, Commit
<1> QED
  <2>1. /\ staged' \in SUBSET Digest
        /\ file' \in [Digest -> {"absent", "good", "bad"}]
    BY <1>8 DEF ArchiveTyped
  <2> QED BY <1>1, <1>3, <1>4, <1>5, <1>6, <1>7, <1>8, <2>1, EndArchive

\* A commit of a deletion takes one snapshot from the live ones; its rows stay,
\* and begin their grace where it was the last.
LEMMA CommitDeleteArchive ==
  ASSUME ArchiveTyped, ArchiveInv, NEW w \in Writer, CommitDelete(w)
  PROVE  ArchiveTyped' /\ ArchiveInv'
<1> PICK s : s = job[w].snapshot
  OBVIOUS
<1>1. /\ s \in Snapshot /\ job[w].about = Refs[s] /\ snap[s] = "live"
      /\ job[w].op = "delete" /\ job[w].moved = {}
      /\ job[w].about \subseteq Digest
  <2>1. JobSound(w)
    BY DEF ArchiveInv
  <2>2. \A t \in Snapshot : Refs[t] \subseteq Digest
    BY IntegrityAssumption
  <2> QED BY <2>1, <2>2 DEF JobSound, CommitDelete
<1>2. snap' = [snap EXCEPT ![s] = "deleted"]
  BY DEF CommitDelete
<1>3. /\ snap' \in [Snapshot -> {"none", "live", "deleted"}]
      /\ snap'[s] = "deleted" /\ \A t \in Snapshot : t # s => snap'[t] = snap[t]
  BY <1>1, <1>2 DEF ArchiveTyped
<1>4. \A d \in job[w].about : blob[d].row /\ blob[d].cand = "none"
  <2>1. \A d \in job[w].about : Referenced(d, LiveSnapshots)
    BY <1>1 DEF Referenced, LiveSnapshots, Live
  <2> QED BY <1>1, <2>1 DEF ArchiveInv, RowsSound
<1>5. ASSUME NEW d \in Digest
      PROVE  /\ blob'[d] \in Blob /\ (blob'[d].row <=> blob[d].row)
             /\ IF d \in job[w].about /\ ~Referenced(d, LiveSnapshots)'
                  THEN blob'[d].cand = "grace" ELSE blob'[d] = blob[d]
             /\ d \notin job[w].about =>
                   (Referenced(d, LiveSnapshots)' <=> Referenced(d, LiveSnapshots))
  <2>1. blob[d] \in Blob
    BY DEF ArchiveTyped
  <2>2. LiveSnapshots' = LiveSnapshots \ {s}
    BY <1>3 DEF LiveSnapshots, Live
  <2>3. Referenced(d, LiveSnapshots)' <=> Referenced(d, LiveSnapshots \ {s})
    BY <2>2 DEF Referenced
  <2>4. blob'[d] = IF d \in job[w].about /\ ~Referenced(d, LiveSnapshots \ {s})
                     THEN [blob[d] EXCEPT !.cand = "grace"] ELSE blob[d]
    BY DEF CommitDelete
  <2>5. CASE d \in job[w].about /\ ~Referenced(d, LiveSnapshots \ {s})
    <3>1. blob[d].row
      BY <1>4, <2>5
    <3>2. blob[d] \in [row : {TRUE}, gen : 1..MaxRows,
                        cand : {"none", "grace", "due"}]
      BY <2>1, <3>1 DEF Blob
    <3>3. /\ [blob[d] EXCEPT !.cand = "grace"] \in Blob
          /\ [blob[d] EXCEPT !.cand = "grace"].row
          /\ [blob[d] EXCEPT !.cand = "grace"].cand = "grace"
      BY <3>2 DEF Blob
    <3> QED BY <2>3, <2>4, <2>5, <3>1, <3>3
  <2>6. CASE ~(d \in job[w].about /\ ~Referenced(d, LiveSnapshots \ {s}))
    <3>1. d \notin job[w].about =>
             (Referenced(d, LiveSnapshots \ {s}) <=> Referenced(d, LiveSnapshots))
      BY <1>1 DEF Referenced
    <3> QED BY <2>1, <2>3, <2>4, <2>6, <3>1
  <2> QED BY <2>5, <2>6
<1>6. blob' \in [Digest -> Blob]
  <2>1. blob' = [d \in Digest |-> blob'[d]]
    BY DEF CommitDelete
  <2> QED BY <1>5, <2>1
<1>7. RowsSound'
  <2> SUFFICES ASSUME NEW d \in Digest
               PROVE  IF Referenced(d, LiveSnapshots)'
                        THEN blob'[d].row /\ blob'[d].cand = "none"
                        ELSE blob'[d].row => blob'[d].cand # "none"
    BY DEF RowsSound
  <2> QED BY <1>4, <1>5 DEF ArchiveInv, RowsSound
<1>8. ASSUME NEW d \in job[w].about \ harmed
      PROVE  file[d] = "good" /\ blob'[d].row /\ d \in Digest
  <2>1. ~Unlinked(d)
    BY <1>1, Owner DEF ArchiveInv
  <2> QED BY <1>1, <1>4, <1>5, <2>1 DEF ArchiveInv, FilesSound, FileSound
<1>9. /\ job' = [job EXCEPT ![w] = Idle]
      /\ UNCHANGED <<file, staged, late, faults, harmed>>
  BY DEF CommitDelete, Commit
<1> QED
  <2>1. /\ staged' \in SUBSET Digest
        /\ file' \in [Digest -> {"absent", "good", "bad"}]
    BY <1>9 DEF ArchiveTyped
  <2>2. \A d \in Digest \ job[w].about : blob'[d] = blob[d] /\ file'[d] = file[d]
    BY <1>5, <1>9
  <2>3. \A d \in job[w].about \ harmed :
           file'[d] = IF blob'[d].row THEN "good" ELSE "absent"
    BY <1>8, <1>9
  <2> QED BY <1>3, <1>6, <1>7, <1>9, <2>1, <2>2, <2>3, EndArchive

\* A commit of a collection takes a row that is not referenced, after its file.
LEMMA CommitCollectArchive ==
  ASSUME ArchiveTyped, ArchiveInv, NEW w \in Writer, CommitCollect(w)
  PROVE  ArchiveTyped' /\ ArchiveInv'
<1>1. /\ job[w].op = "collect" /\ job[w].moved = job[w].about
      /\ \A d \in job[w].about : blob[d].row /\ blob[d].cand = "due"
      /\ job[w].about \subseteq Digest
  <2>1. JobSound(w)
    BY DEF ArchiveInv
  <2>2. job[w] \in Job
    BY DEF ArchiveTyped
  <2>3. job[w].about \subseteq Digest
    BY <2>2 DEF Job
  <2> QED BY <2>1, <2>3 DEF JobSound, CommitCollect
<1>2. ASSUME NEW d \in Digest
      PROVE  /\ blob'[d] \in Blob
             /\ d \in job[w].about => ~blob'[d].row
             /\ d \notin job[w].about => blob'[d] = blob[d]
  <2>1. blob[d] \in Blob
    BY DEF ArchiveTyped
  <2>2. blob'[d] = IF d \in job[w].about
                     THEN [blob[d] EXCEPT !.row = FALSE, !.cand = "none"]
                     ELSE blob[d]
    BY DEF CommitCollect
  <2>3. CASE d \in job[w].about
    <3>1. blob[d] \in [row : {TRUE}, gen : 1..MaxRows,
                        cand : {"none", "grace", "due"}]
      BY <1>1, <2>1, <2>3 DEF Blob
    <3>2. blob[d].gen \in 0..MaxRows
      BY <2>1, BlobFields
    <3>3. /\ [blob[d] EXCEPT !.row = FALSE, !.cand = "none"] \in
                [row : {FALSE}, gen : 0..MaxRows, cand : {"none"}]
          /\ [blob[d] EXCEPT !.row = FALSE, !.cand = "none"].row = FALSE
      BY <3>1, <3>2
    <3> QED BY <2>2, <2>3, <3>3 DEF Blob
  <2> QED BY <2>1, <2>2, <2>3
<1>3. blob' \in [Digest -> Blob]
  <2>1. blob' = [d \in Digest |-> blob'[d]]
    BY DEF CommitCollect
  <2> QED BY <1>2, <2>1
<1>4. /\ job' = [job EXCEPT ![w] = Idle]
      /\ UNCHANGED <<snap, file, staged, late, faults, harmed>>
  BY DEF CommitCollect, Commit
<1>5. RowsSound'
  <2> SUFFICES ASSUME NEW d \in Digest
               PROVE  IF Referenced(d, LiveSnapshots)'
                        THEN blob'[d].row /\ blob'[d].cand = "none"
                        ELSE blob'[d].row => blob'[d].cand # "none"
    BY DEF RowsSound
  <2>1. Referenced(d, LiveSnapshots)' <=> Referenced(d, LiveSnapshots)
    BY <1>4 DEF Referenced, LiveSnapshots, Live
  <2>2. d \in job[w].about => ~Referenced(d, LiveSnapshots)
    BY <1>1 DEF ArchiveInv, RowsSound
  <2> QED BY <1>2, <2>1, <2>2 DEF ArchiveInv, RowsSound
<1>6. ASSUME NEW d \in job[w].about \ harmed PROVE file[d] = "absent"
  BY <1>1, <1>6 DEF ArchiveInv, FilesSound, FileSound, Unlinked
<1> QED
  <2>1. /\ staged' \in SUBSET Digest
        /\ file' \in [Digest -> {"absent", "good", "bad"}]
        /\ snap' \in [Snapshot -> {"none", "live", "deleted"}]
    BY <1>4 DEF ArchiveTyped
  <2> QED BY <1>1, <1>2, <1>3, <1>4, <1>5, <1>6, <2>1, EndArchive

\* A failed promotion takes away what it linked, where no row knows it.
LEMMA FailCompleteArchive ==
  ASSUME ArchiveTyped, ArchiveInv, NEW w \in Writer, FailComplete(w)
  PROVE  ArchiveTyped' /\ ArchiveInv'
<1>1. /\ job[w].op = "complete" /\ job[w].moved \subseteq job[w].about
      /\ job[w].about \subseteq Digest
  <2>1. JobSound(w) /\ job[w] \in Job
    BY DEF ArchiveInv, ArchiveTyped
  <2>2. job[w].about \subseteq Digest
    BY <2>1 DEF Job
  <2> QED BY <2>1, <2>2 DEF JobSound, FailComplete
<1>2. /\ job' = [job EXCEPT ![w] = Idle]
      /\ UNCHANGED <<snap, blob, late, faults, harmed>>
      /\ staged' \in SUBSET Digest
  BY DEF FailComplete, ArchiveTyped
<1>3. ASSUME NEW d \in Digest
      PROVE  /\ file'[d] \in {"absent", "good", "bad"}
             /\ file'[d] = IF d \in job[w].moved /\ ~blob[d].row
                              THEN "absent" ELSE file[d]
  BY DEF FailComplete, ArchiveTyped
<1>4. file' \in [Digest -> {"absent", "good", "bad"}]
  <2>1. file' = [d \in Digest |-> file'[d]]
    BY DEF FailComplete
  <2> QED BY <1>3, <2>1
<1>5. RowsSound'
  BY <1>2 DEF ArchiveInv, RowsSound, Referenced, LiveSnapshots, Live
<1>6. ASSUME NEW d \in job[w].about \ harmed
      PROVE  file'[d] = IF blob'[d].row THEN "good" ELSE "absent"
  <2>1. /\ Linked(d) <=> d \in job[w].moved
        /\ ~Unlinked(d)
    BY <1>1, Owner DEF ArchiveInv
  <2>2. FileSound(d) /\ d \in Digest
    BY <1>1 DEF ArchiveInv, FilesSound
  <2> QED BY <1>2, <1>3, <2>1, <2>2 DEF FileSound
<1> QED
  <2>1. /\ snap' \in [Snapshot -> {"none", "live", "deleted"}]
        /\ blob' \in [Digest -> Blob]
    BY <1>2 DEF ArchiveTyped
  <2> QED BY <1>1, <1>2, <1>3, <1>4, <1>5, <1>6, <2>1, EndArchive

\* A dropped request leaves its digests in the history of faults, and a file
\* operation that comes late.
LEMMA DropArchive ==
  ASSUME ArchiveTyped, ArchiveInv, NEW w \in Writer, DropRequest(w)
  PROVE  ArchiveTyped' /\ ArchiveInv'
<1>1. job[w].about \subseteq Digest
  <2>1. job[w] \in Job
    BY DEF ArchiveTyped
  <2> QED BY <2>1 DEF Job
<1>2. /\ job' = [job EXCEPT ![w] = Idle]
      /\ UNCHANGED <<snap, blob, file, staged>>
      /\ harmed' = harmed \cup job[w].about
      /\ faults < MaxFaults /\ faults' = faults + 1
      /\ \A o \in late' : o \in late \/ o \in {"link", "unlink"} \X job[w].about
  BY DEF DropRequest, Fault
<1>3. /\ job' \in [Writer -> Job]
      /\ JobsApart' /\ \A v \in Writer : JobSound(v)'
  BY <1>2, JobEnds DEF ArchiveInv
<1>4. RowsSound' /\ LateHarmed'
  BY <1>2 DEF ArchiveInv, RowsSound, Referenced, LiveSnapshots, Live, LateHarmed
<1>5. ASSUME NEW d \in Digest \ harmed' PROVE FileSound(d)'
  <2>1. d \notin job[w].about /\ d \notin job[w].moved /\ d \notin Idle.moved
    BY <1>2, IdleSound DEF ArchiveInv, JobSound
  <2>2. (Linked(d)' <=> Linked(d)) /\ (Unlinked(d)' <=> Unlinked(d))
    BY <1>2, <2>1, NotMoved DEF ArchiveTyped
  <2> QED BY <1>2, <2>2 DEF ArchiveInv, FilesSound, FileSound
<1>6. FilesSound'
  BY <1>5 DEF FilesSound
<1>7. faults' \in 0..MaxFaults
  BY <1>2, IntegrityAssumption DEF ArchiveTyped
<1>8. ArchiveTyped'
  BY <1>1, <1>2, <1>3, <1>7 DEF ArchiveTyped
<1> QED BY <1>3, <1>4, <1>6, <1>8 DEF ArchiveInv

\* Steps that change files of harmed digests only, or none.
LEMMA QuietArchive ==
  ASSUME ArchiveTyped, ArchiveInv, UNCHANGED <<snap, blob, job>>,
         staged' \in SUBSET Digest, late' \subseteq late,
         harmed \subseteq harmed', harmed' \in SUBSET Digest,
         faults' \in 0..MaxFaults,
         file' \in [Digest -> {"absent", "good", "bad"}],
         \A d \in Digest \ harmed' : file'[d] = file[d]
  PROVE  ArchiveTyped' /\ ArchiveInv'
<1>1. \A d : (Linked(d)' <=> Linked(d)) /\ (Unlinked(d)' <=> Unlinked(d))
  BY DEF Linked, Unlinked
<1>2. FilesSound'
  BY <1>1 DEF ArchiveInv, FilesSound, FileSound
<1>3. RowsSound' /\ LateHarmed'
  BY DEF ArchiveInv, RowsSound, Referenced, LiveSnapshots, Live, LateHarmed
<1>4. JobsApart' /\ \A w \in Writer : JobSound(w)'
  BY DEF ArchiveInv, JobsApart, JobSound
<1>5. ArchiveTyped'
  BY DEF ArchiveTyped
<1> QED BY <1>2, <1>3, <1>4, <1>5 DEF ArchiveInv

\* The steps that no request takes: late file operations, damage, the removal of
\* upload directories.
LEMMA OthersArchive ==
  ASSUME ArchiveTyped, ArchiveInv,
         LateFileOperation \/ \E d \in Digest : RemoveStaged(d) \/ Damage(d)
  PROVE  ArchiveTyped' /\ ArchiveInv'
<1>1. CASE LateFileOperation
  <2>1. PICK o \in late :
          /\ late' = late \ {o}
          /\ file' = [file EXCEPT ![o[2]] =
                        IF o[1] = "unlink" THEN "absent"
                        ELSE IF @ = "absent" THEN "good" ELSE @]
          /\ staged' = IF o[1] = "unlink" THEN staged \ {o[2]}
                       ELSE IF file[o[2]] = "absent" THEN AlsoStaged(o[2])
                       ELSE staged
    BY <1>1 DEF LateFileOperation
  <2>2. o[2] \in Digest /\ o[2] \in harmed
    BY DEF ArchiveTyped, ArchiveInv, LateHarmed
  <2>3. /\ file' \in [Digest -> {"absent", "good", "bad"}]
        /\ \A d \in Digest \ harmed : file'[d] = file[d]
    BY <2>1, <2>2 DEF ArchiveTyped
  <2>4. staged' \in SUBSET Digest
    BY <2>1, <2>2 DEF ArchiveTyped, AlsoStaged
  <2>5. UNCHANGED <<snap, blob, job, faults, harmed>>
    BY <1>1 DEF LateFileOperation
  <2>6. harmed' \in SUBSET Digest /\ faults' \in 0..MaxFaults
    BY <2>5 DEF ArchiveTyped
  <2> QED BY <2>1, <2>3, <2>4, <2>5, <2>6, QuietArchive
<1>2. ASSUME NEW d \in Digest, RemoveStaged(d)
      PROVE  ArchiveTyped' /\ ArchiveInv'
  <2>1. /\ UNCHANGED <<snap, blob, file, job, late, faults, harmed>>
        /\ staged' = staged \ {d}
    BY <1>2 DEF RemoveStaged
  <2> QED BY <2>1, QuietArchive DEF ArchiveTyped
<1>3. ASSUME NEW d \in Digest, Damage(d)
      PROVE  ArchiveTyped' /\ ArchiveInv'
  <2>1. /\ UNCHANGED <<snap, blob, job, late>>
        /\ harmed' = harmed \cup {d} /\ faults < MaxFaults /\ faults' = faults + 1
        /\ staged' \subseteq staged
        /\ \E x \in {"bad", "absent"} : file' = [file EXCEPT ![d] = x]
    BY <1>3 DEF Damage, Fault
  <2>2. faults' \in 0..MaxFaults
    BY <2>1, IntegrityAssumption DEF ArchiveTyped
  <2>3. /\ file' \in [Digest -> {"absent", "good", "bad"}]
        /\ \A e \in Digest \ harmed' : file'[e] = file[e]
    BY <2>1 DEF ArchiveTyped
  <2> QED BY <2>1, <2>2, <2>3, QuietArchive DEF ArchiveTyped
<1> QED BY <1>1, <1>2, <1>3

\* The grace of an orphan ends.
LEMMA GraceArchive ==
  ASSUME ArchiveTyped, ArchiveInv, NEW d \in Digest, GraceEnds(d)
  PROVE  /\ ArchiveTyped' /\ ArchiveInv'
         /\ \A e \in Digest : blob'[e].row = blob[e].row /\ blob'[e].gen = blob[e].gen
<1>1. UNCHANGED <<snap, file, staged, job, late, faults, harmed>>
  BY DEF GraceEnds
<1>2. blob[d] \in [row : {TRUE}, gen : 1..MaxRows, cand : {"none", "grace", "due"}]
  <2>1. blob[d] \in Blob /\ blob[d].cand = "grace"
    BY DEF GraceEnds, ArchiveTyped
  <2> QED BY <2>1 DEF Blob
<1> PICK b : b = [blob[d] EXCEPT !.cand = "due"]
  OBVIOUS
<1>3. /\ b \in [row : {TRUE}, gen : 1..MaxRows, cand : {"none", "grace", "due"}]
      /\ b.row = blob[d].row /\ b.gen = blob[d].gen /\ b.cand = "due"
  BY <1>2
<1>4. /\ blob' = [blob EXCEPT ![d] = b] /\ b \in Blob
  BY <1>3 DEF GraceEnds, ArchiveTyped, Blob
<1>5. /\ blob' \in [Digest -> Blob] /\ blob'[d] = b
      /\ \A e \in Digest : e # d => blob'[e] = blob[e]
  BY <1>4 DEF ArchiveTyped
<1>6. ASSUME NEW e \in Digest
      PROVE  /\ blob'[e].row = blob[e].row /\ blob'[e].gen = blob[e].gen
             /\ blob'[e].cand =
                   IF e = d THEN "due" ELSE blob[e].cand
  BY <1>3, <1>5
<1>7. ASSUME NEW w \in Writer PROVE JobSound(w)'
  <2>1. job[w] \in Job /\ job'[w] = job[w]
    BY <1>1 DEF ArchiveTyped
  <2>2. job[w].about \subseteq Digest
    BY <2>1 DEF Job
  <2> QED BY <1>1, <1>6, <2>1, <2>2, JobKept DEF ArchiveInv
<1>8. RowsSound'
  <2>1. blob[d].cand = "grace"
    BY DEF GraceEnds
  <2>2. \A e : Referenced(e, LiveSnapshots)' <=> Referenced(e, LiveSnapshots)
    BY <1>1 DEF Referenced, LiveSnapshots, Live
  <2> QED BY <1>6, <2>1, <2>2 DEF ArchiveInv, RowsSound
<1>9. JobsApart' /\ LateHarmed'
  BY <1>1 DEF ArchiveInv, JobsApart, LateHarmed
<1>10. FilesSound'
  BY <1>1, <1>6 DEF ArchiveInv, FilesSound, FileSound, Linked, Unlinked
<1>11. ArchiveTyped'
  BY <1>1, <1>5 DEF ArchiveTyped
<1> QED BY <1>6, <1>7, <1>8, <1>9, <1>10, <1>11 DEF ArchiveInv

-----------------------------------------------------------------------------
(* Pages *)

\* A set of numbers has a least one.
LEMMA LeastNumber ==
  ASSUME NEW T, T \subseteq Nat, T # {}
  PROVE  \E x \in T : \A y \in T : x <= y
<1>1. PICK x \in T : \A y \in T : ~(<<y, x>> \in OpToRel(<, Nat))
  BY NatLessThanWellFounded, WFMin, Zenon
<1>2. ASSUME NEW y \in T PROVE x <= y
  <2>1. ~(y < x)
    BY <1>1 DEF OpToRel
  <2> QED BY <2>1
<1> QED BY <1>2

\* LastOf is the greatest identifier of a page.
LEMMA LastIsGreatest ==
  ASSUME NEW n \in Nat, NEW page \in SUBSET (1..n), page # {}
  PROVE  LastOf(page) \in page /\ \A j \in page : j <= LastOf(page)
<1> DEFINE T == {n - i : i \in page}
<1>1. T \subseteq Nat /\ T # {}
  <2>1. \A i \in page : i \in 1..n
    OBVIOUS
  <2>2. \A i \in page : n - i \in Nat
    BY <2>1
  <2> QED BY <2>2
<1>2. PICK x \in T : \A y \in T : x <= y
  BY <1>1, LeastNumber
<1>3. PICK k \in page : x = n - k
  OBVIOUS
<1>4. ASSUME NEW j \in page PROVE j <= k
  <2>1. n - k <= n - j
    BY <1>2, <1>3
  <2>2. j \in Int /\ k \in Int
    OBVIOUS
  <2> QED BY <2>1, <2>2
<1> QED BY <1>4 DEF LastOf

\* FirstRow is a row of the page.
LEMMA FirstIsRow ==
  ASSUME scan.page \in SUBSET (Nat \X Nat), scan.page # {}
  PROVE  FirstRow \in scan.page
<1> DEFINE T == {r[1] : r \in scan.page}
<1>1. T \subseteq Nat /\ T # {}
  OBVIOUS
<1>2. PICK x \in T : \A y \in T : x <= y
  BY <1>1, LeastNumber
<1>3. PICK r \in scan.page : x = r[1]
  OBVIOUS
<1>4. \A q \in scan.page : r[1] <= q[1]
  BY <1>2, <1>3
<1> QED BY <1>4 DEF FirstRow

\* A page leaves no identifier behind: what it does not hold lies beyond its last
\* one, and it is empty only at the end.
LEMMA PageCut ==
  ASSUME NEW n \in Nat, NEW ids \in SUBSET (1..n), scan.after \in Nat
  PROVE  /\ NextPage(ids) \subseteq ids
         /\ \A i \in ids : i > scan.after /\ i \notin NextPage(ids) =>
               /\ NextPage(ids) # {}
               /\ i > LastOf(NextPage(ids))
<1> DEFINE new == {i \in ids : i > scan.after}
           below(i) == {j \in new : j < i}
           page == {i \in new : Cardinality(below(i)) < PageSize}
<1>0. \A i \in new : i \in Nat
  OBVIOUS
<1>1. NextPage(ids) = page
  BY DEF NextPage
<1>2. \A i \in new : IsFiniteSet(below(i)) /\ Cardinality(below(i)) \in Nat
  <2>1. IsFiniteSet(1..n)
    BY FS_Interval
  <2>2. \A i \in new : below(i) \in SUBSET (1..n)
    OBVIOUS
  <2> QED BY <2>1, <2>2, FS_Subset, FS_CardinalityType
<1>3. ASSUME NEW i \in ids, i > scan.after, i \notin page
      PROVE  page # {} /\ \A k \in page : k < i
  <2>1. i \in new /\ ~(Cardinality(below(i)) < PageSize)
    BY <1>3
  <2>2. ASSUME NEW k \in page, ~(k < i) PROVE FALSE
    <3>1. k \in new /\ Cardinality(below(k)) < PageSize
      OBVIOUS
    <3>2. below(i) \in SUBSET below(k)
      <4>1. \A j \in new : j < i => j < k
        <5> HIDE DEF new
        <5> QED BY <1>0, <2>1, <2>2, <3>1
      <4> HIDE DEF new
      <4> QED BY <4>1
    <3>3. Cardinality(below(i)) <= Cardinality(below(k))
      <4> HIDE DEF below, new
      <4> QED BY <1>2, <3>1, <3>2, FS_Subset
    <3>4. /\ Cardinality(below(i)) \in Nat /\ Cardinality(below(k)) \in Nat
          /\ PageSize \in Nat
      BY <1>2, <2>1, <3>1, IntegrityAssumption
    <3> HIDE DEF below, new, page
    <3> QED BY <2>1, <3>1, <3>3, <3>4
  <2>3. page # {}
    <3>1. PICK m \in new : \A j \in new : m <= j
      <4>1. new \subseteq Nat /\ new # {}
        BY <1>0, <2>1
      <4> HIDE DEF new
      <4> QED BY <4>1, LeastNumber
    <3>2. below(m) = {}
      <4> HIDE DEF new
      <4> QED BY <1>0, <3>1
    <3>3. Cardinality(below(m)) = 0
      BY <3>2, FS_EmptySet
    <3> QED BY <3>1, <3>3, IntegrityAssumption
  <2> QED BY <2>2, <2>3
<1>4. page \in SUBSET (1..n) /\ page \subseteq ids
  OBVIOUS
<1>5. page # {} => LastOf(page) \in page
  BY <1>4, LastIsGreatest
<1> HIDE DEF page
<1> QED BY <1>1, <1>3, <1>4, <1>5

-----------------------------------------------------------------------------
(* The scan's steps *)

ScanNext ==
    \/ BeginScan \/ ScanDangling \/ ReadSnapshots \/ ScanSnapshot
    \/ ReconcileArtifacts \/ ListArtifacts \/ ScanArtifact \/ ArtifactsDone
    \/ ReadBlobs \/ ClassifyBlob \/ ScanBlob \/ ScanTouched \/ ListFiles \/ CheckFile
    \/ CompleteScan \/ FailScan

\* A scan changes nothing of the archive but what ScanTouched stands for.
LEMMA ScanLeavesArchive ==
  ASSUME ArchiveTyped, ScanNext
  PROVE  /\ UNCHANGED <<snap, blob, file, job, late, faults, harmed>>
         /\ staged' \subseteq staged
BY DEF ScanNext, BeginScan, ScanDangling, ReadSnapshots, ScanSnapshot,
       ReconcileArtifacts, ListArtifacts, ScanArtifact, ArtifactsDone, ReadBlobs,
       ClassifyBlob, ScanBlob, ScanTouched, ListFiles, CheckFile, CompleteScan,
       FailScan, archiveVars

\* The next row of a page is one of the kind that the page holds.
LEMMA RowOfPage ==
  ASSUME ScanTyped, PageSound, scan.page # {}
  PROVE  /\ FirstRow \in scan.page
         /\ scan.pc \in {"snapshots", "reconcile", "artifacts", "jobs"} =>
               FirstRow[1] \in Snapshot
         /\ scan.pc = "blobs" => FirstRow \in Digest \X Nat
<1>1. scan.page \in SUBSET (Nat \X Nat)
  BY DEF ScanTyped, ScanState
<1>2. FirstRow \in scan.page
  BY <1>1, FirstIsRow
<1> QED BY <1>2 DEF PageSound

\* A recorded finding has its type.
LEMMA FoundTyped ==
  ASSUME findings \in SUBSET Finding,
         NEW k \in {"dangling", "tombstone", "drift", "transient", "stale candidate",
                    "grace", "eligible", "orphan", "file", "unowned"},
         NEW v \in {"info", "warning", "error"}, NEW a \in Snapshot \cup Digest
  PROVE  Found(k, v, a) \in SUBSET Finding
<1>1. [kind |-> k, severity |-> v, about |-> a] \in Finding
  BY DEF Finding
<1> QED BY <1>1 DEF Found

\* The phases keep their types, and their pages what they are pages of.
LEMMA ScanStepTyped ==
  ASSUME ArchiveTyped, ScanTyped, PageSound, ScanNext
  PROVE  ScanTyped' /\ PageSound'
<1> USE DEF At
<1>0. /\ scan \in ScanState /\ scan.page \in SUBSET (Nat \X Nat)
      /\ scan.todo \in SUBSET (Digest \X Nat) /\ scan.after \in Nat
      /\ findings \in SUBSET Finding /\ sick \in SUBSET Digest
  BY DEF ScanTyped, ScanState
<1>a. Snapshot \subseteq Nat /\ Digest \subseteq Nat
  BY IntegrityAssumption DEF Snapshot, Digest
<1>1. CASE BeginScan
  <2>1. scan' = [scan EXCEPT !.pc = "dangling", !.status = "running"]
    BY <1>1 DEF BeginScan
  <2>2. /\ scan' \in ScanState /\ scan'.pc = "dangling" /\ scan'.status = "running"
        /\ scan'.page = scan.page
    BY <1>0, <2>1 DEF ScanState
  <2>3. findings' = findings /\ sick' \in SUBSET Digest /\ scan.page = {}
    BY <1>1 DEF BeginScan, PageSound
  <2> QED BY <1>0, <2>2, <2>3 DEF ScanTyped, PageSound
<1>2. CASE ScanDangling
  <2>1. /\ scan' = [scan EXCEPT !.pc = "snapshots"] /\ scan.pc = "dangling"
        /\ sick' = sick
    BY <1>2 DEF ScanDangling
  <2>2. /\ scan' \in ScanState /\ scan'.pc = "snapshots"
        /\ scan'.status = scan.status /\ scan'.page = scan.page
    BY <1>0, <2>1 DEF ScanState
  <2>3. findings' \in SUBSET Finding
    <3>1. \A s \in Snapshot :
             [kind |-> "dangling", severity |-> "error", about |-> s] \in Finding
      BY DEF Finding
    <3> QED BY <1>0, <1>2, <3>1 DEF ScanDangling, LiveSnapshots
  <2>4. scan.page = {} /\ scan.status \in {"none", "running"}
    BY <2>1 DEF PageSound
  <2> QED BY <1>0, <2>1, <2>2, <2>3, <2>4 DEF ScanTyped, PageSound
<1>3. CASE ReadSnapshots
  <2> PICK ids : ids = {s \in Snapshot : snap[s] # "none"}
    OBVIOUS
  <2> PICK page : page = NextPage(ids)
    OBVIOUS
  <2>1. /\ scan.pc = "snapshots" /\ scan.page = {} /\ findings' = findings
        /\ sick' = sick
        /\ scan' = IF page = {}
                     THEN [scan EXCEPT !.pc = "blobs", !.after = 0]
                     ELSE [scan EXCEPT !.after = LastOf(page),
                             !.page = {<<s, IF Live(s) THEN 1 ELSE 0>> : s \in page}]
    BY <1>3 DEF ReadSnapshots
  <2>2. page \subseteq ids /\ ids \subseteq 1..Snapshots /\ Snapshots \in Nat
    BY <1>0, PageCut, IntegrityAssumption DEF Snapshot
  <2>3. page # {} => LastOf(page) \in Nat
    <3>1. page # {} => LastOf(page) \in page
      BY <2>2, LastIsGreatest
    <3> QED BY <1>a, <2>2, <3>1
  <2>4. {<<s, IF Live(s) THEN 1 ELSE 0>> : s \in page} \in SUBSET (Snapshot \X Nat)
    BY <2>2
  <2> PICK rows : rows = {<<s, IF Live(s) THEN 1 ELSE 0>> : s \in page}
    OBVIOUS
  <2>5. rows \in SUBSET (Nat \X Nat)
    BY <1>a, <2>4
  <2>6. CASE page = {}
    <3>1. /\ scan' \in ScanState /\ scan'.pc = "blobs"
          /\ scan'.status = scan.status /\ scan'.page = scan.page
      BY <1>0, <2>1, <2>6 DEF ScanState
    <3> QED BY <1>0, <2>1, <3>1 DEF ScanTyped, PageSound
  <2>7. CASE page # {}
    <3>1. /\ scan' \in ScanState /\ scan'.pc = "snapshots"
          /\ scan'.status = scan.status /\ scan'.page = rows
      BY <1>0, <2>1, <2>3, <2>5, <2>7 DEF ScanState
    <3> QED BY <1>0, <2>1, <2>4, <3>1 DEF ScanTyped, PageSound
  <2> QED BY <2>6, <2>7
<1>4. CASE ScanSnapshot
  <2>1. /\ scan.pc = "snapshots" /\ scan.page # {} /\ sick' = sick
        /\ FirstRow[1] \in Snapshot /\ scan.status \in {"none", "running"}
    BY <1>4, RowOfPage DEF ScanSnapshot, PageSound
  <2>2. findings' \in SUBSET Finding
    <3>1. /\ Found("tombstone", "info", FirstRow[1]) \in SUBSET Finding
          /\ Found("transient", "info", FirstRow[1]) \in SUBSET Finding
      BY <1>0, <2>1, FoundTyped
    <3>2. \/ findings' = Found("tombstone", "info", FirstRow[1])
          \/ findings' = Found("transient", "info", FirstRow[1])
          \/ findings' = findings
      BY <1>4 DEF ScanSnapshot, Record
    <3> QED BY <1>0, <3>1, <3>2
  <2>3. CASE scan' = [scan EXCEPT !.pc = "reconcile"]
    <3>1. /\ scan' \in ScanState /\ scan'.pc = "reconcile"
          /\ scan'.status = scan.status /\ scan'.page = scan.page
      BY <1>0, <2>3 DEF ScanState
    <3> QED BY <1>0, <2>1, <2>2, <3>1 DEF ScanTyped, PageSound
  <2>4. CASE Advance("snapshots")
    <3>1. /\ scan' \in ScanState /\ scan'.pc = "snapshots"
          /\ scan'.status = scan.status /\ scan'.page \subseteq scan.page
      BY <1>0, <2>4 DEF ScanState, Advance
    <3> QED BY <1>0, <2>1, <2>2, <3>1 DEF ScanTyped, PageSound
  <2> QED BY <1>4, <2>3, <2>4 DEF ScanSnapshot
<1>5. CASE ReconcileArtifacts
  <2>1. /\ scan.pc = "reconcile" /\ scan.page # {} /\ sick' = sick
        /\ FirstRow[1] \in Snapshot /\ scan.status \in {"none", "running"}
        /\ scan' = [scan EXCEPT !.pc = "artifacts"]
    BY <1>5, RowOfPage DEF ReconcileArtifacts, PageSound
  <2>2. findings' \in SUBSET Finding
    <3>1. Found("drift", "error", FirstRow[1]) \in SUBSET Finding
      BY <1>0, <2>1, FoundTyped
    <3> QED BY <1>0, <1>5, <3>1 DEF ReconcileArtifacts, Record
  <2>3. /\ scan' \in ScanState /\ scan'.pc = "artifacts"
        /\ scan'.status = scan.status /\ scan'.page = scan.page
    BY <1>0, <2>1 DEF ScanState
  <2> QED BY <1>0, <2>1, <2>2, <2>3 DEF ScanTyped, PageSound
<1>6. CASE ListArtifacts
  <2>1. /\ scan.pc = "artifacts" /\ scan.page # {} /\ sick' = sick
        /\ FirstRow[1] \in Snapshot /\ scan.status \in {"none", "running"}
        /\ findings' = findings
    BY <1>6, RowOfPage DEF ListArtifacts, PageSound
  <2> PICK jobs : jobs = IF Live(FirstRow[1])
                           THEN {<<d, blob[d].gen>> : d \in Refs[FirstRow[1]]} ELSE {}
    OBVIOUS
  <2>2. jobs \in SUBSET (Digest \X Nat)
    <3>1. Refs[FirstRow[1]] \subseteq Digest
      BY <2>1, IntegrityAssumption
    <3>2. \A d \in Digest : blob[d].gen \in Nat
      BY BlobFields, IntegrityAssumption DEF ArchiveTyped
    <3> QED BY <3>1, <3>2
  <2>3. scan' = [scan EXCEPT !.pc = "jobs", !.todo = jobs]
    BY <1>6 DEF ListArtifacts
  <2>4. /\ scan' \in ScanState /\ scan'.pc = "jobs"
        /\ scan'.status = scan.status /\ scan'.page = scan.page
    BY <1>0, <2>2, <2>3 DEF ScanState
  <2> QED BY <1>0, <2>1, <2>4 DEF ScanTyped, PageSound
<1>7. CASE ScanArtifact
  <2>1. /\ scan.pc = "jobs" /\ sick' = sick /\ scan.status \in {"none", "running"}
    BY <1>7 DEF ScanArtifact, PageSound
  <2>2. PICK t \in scan.todo :
          /\ scan' = [scan EXCEPT !.todo = @ \ {t}]
          /\ IF Live(FirstRow[1]) /\ blob[t[1]].row THEN UNCHANGED findings
             ELSE Record("transient", "info", t[1])
    BY <1>7 DEF ScanArtifact
  <2>3. findings' \in SUBSET Finding
    <3>1. t[1] \in Digest
      BY <1>0
    <3> QED BY <1>0, <2>2, <3>1, FoundTyped DEF Record
  <2>4. /\ scan' \in ScanState /\ scan'.pc = scan.pc
        /\ scan'.status = scan.status /\ scan'.page = scan.page
    BY <1>0, <2>2 DEF ScanState
  <2> QED BY <1>0, <2>1, <2>3, <2>4 DEF ScanTyped, PageSound
<1>8. CASE ArtifactsDone
  <2>1. /\ scan.pc = "jobs" /\ sick' = sick /\ scan.status \in {"none", "running"}
        /\ findings' = findings
        /\ scan' = [scan EXCEPT !.pc = "snapshots", !.page = @ \ {FirstRow}]
    BY <1>8 DEF ArtifactsDone, PageSound, Advance
  <2>2. /\ scan' \in ScanState /\ scan'.pc = "snapshots"
        /\ scan'.status = scan.status /\ scan'.page \subseteq scan.page
    BY <1>0, <2>1 DEF ScanState
  <2> QED BY <1>0, <2>1, <2>2 DEF ScanTyped, PageSound
<1>9. CASE ReadBlobs
  <2> PICK ids : ids = {d \in Digest : blob[d].row}
    OBVIOUS
  <2> PICK page : page = NextPage(ids)
    OBVIOUS
  <2> PICK rows : rows = {<<d, blob[d].gen>> : d \in page}
    OBVIOUS
  <2>1. /\ scan.pc = "blobs" /\ scan.page = {} /\ findings' = findings
        /\ sick' = sick /\ scan.status \in {"none", "running"}
        /\ scan' = IF page = {}
                     THEN [scan EXCEPT !.pc = "files", !.after = 0]
                     ELSE [scan EXCEPT !.after = LastOf(page), !.page = rows]
    BY <1>9 DEF ReadBlobs, PageSound
  <2>2. page \subseteq ids /\ ids \subseteq 1..Digests /\ Digests \in Nat
    BY <1>0, PageCut, IntegrityAssumption DEF Digest
  <2>3. page # {} => LastOf(page) \in Nat
    <3>1. page # {} => LastOf(page) \in page
      BY <2>2, LastIsGreatest
    <3> QED BY <1>a, <2>2, <3>1
  <2>4. rows \in SUBSET (Digest \X Nat)
    <3>1. \A d \in Digest : blob[d].gen \in Nat
      BY BlobFields, IntegrityAssumption DEF ArchiveTyped
    <3> QED BY <2>2, <3>1
  <2>5. rows \in SUBSET (Nat \X Nat)
    BY <1>a, <2>4
  <2>6. CASE page = {}
    <3>1. /\ scan' \in ScanState /\ scan'.pc = "files"
          /\ scan'.status = scan.status /\ scan'.page = scan.page
      BY <1>0, <2>1, <2>6 DEF ScanState
    <3> QED BY <1>0, <2>1, <3>1 DEF ScanTyped, PageSound
  <2>7. CASE page # {}
    <3>1. /\ scan' \in ScanState /\ scan'.pc = "blobs"
          /\ scan'.status = scan.status /\ scan'.page = rows
      BY <1>0, <2>1, <2>3, <2>5, <2>7 DEF ScanState
    <3> QED BY <1>0, <2>1, <2>4, <3>1 DEF ScanTyped, PageSound
  <2> QED BY <2>6, <2>7
<1>10. CASE ClassifyBlob
  <2>1. /\ scan.pc = "blobs" /\ scan.page # {} /\ sick' = sick
        /\ scan.status \in {"none", "running"}
        /\ FirstRow \in Digest \X Nat
        /\ scan' = [scan EXCEPT !.page = @ \ {FirstRow}, !.todo = @ \cup {FirstRow}]
    BY <1>10, RowOfPage DEF ClassifyBlob, PageSound
  <2>2. findings' \in SUBSET Finding
    <3>1. FirstRow[1] \in Digest
      BY <2>1
    <3> PICK d : d = FirstRow[1]
      OBVIOUS
    <3>2. /\ Found("transient", "info", d) \in SUBSET Finding
          /\ Found("stale candidate", "warning", d) \in SUBSET Finding
          /\ Found("orphan", "error", d) \in SUBSET Finding
          /\ Found("grace", "info", d) \in SUBSET Finding
          /\ Found("eligible", "warning", d) \in SUBSET Finding
      BY <1>0, <3>1, FoundTyped
    <3>3. Liveness(d) \subseteq SUBSET Finding
      <4>1. blob[d].cand \in {"none", "grace", "due"}
        BY <3>1, BlobFields DEF ArchiveTyped
      <4> QED BY <1>0, <3>2, <4>1 DEF Liveness
    <3>4. \/ findings' \in Liveness(d)
          \/ findings' = Found("transient", "info", d)
      BY <1>10 DEF ClassifyBlob, Record
    <3> QED BY <3>2, <3>3, <3>4
  <2>3. /\ scan' \in ScanState /\ scan'.pc = scan.pc
        /\ scan'.status = scan.status /\ scan'.page \subseteq scan.page
    BY <1>0, <2>1 DEF ScanState
  <2> QED BY <1>0, <2>1, <2>2, <2>3 DEF ScanTyped, PageSound
<1>11. CASE ScanBlob
  <2>1. /\ scan.pc = "blobs" /\ sick' = sick /\ scan.status \in {"none", "running"}
    BY <1>11 DEF ScanBlob, PageSound
  <2>2. PICK t \in scan.todo :
          /\ scan' = [scan EXCEPT !.todo = @ \ {t}]
          /\ IF ~Current(t) THEN Record("transient", "info", t[1])
             ELSE IF file[t[1]] = "good" THEN UNCHANGED findings
             ELSE Record("file", "error", t[1])
    BY <1>11 DEF ScanBlob
  <2>3. findings' \in SUBSET Finding
    <3>1. t[1] \in Digest
      BY <1>0
    <3> QED BY <1>0, <2>2, <3>1, FoundTyped DEF Record
  <2>4. /\ scan' \in ScanState /\ scan'.pc = scan.pc
        /\ scan'.status = scan.status /\ scan'.page = scan.page
    BY <1>0, <2>2 DEF ScanState
  <2> QED BY <1>0, <2>1, <2>3, <2>4 DEF ScanTyped, PageSound
<1>12. CASE ScanTouched
  <2>1. /\ scan.pc \in {"jobs", "blobs"} /\ sick' = sick
        /\ scan.status \in {"none", "running"}
    BY <1>12 DEF ScanTouched, PageSound
  <2>2. PICK t \in scan.todo :
          /\ scan' = [scan EXCEPT !.todo = @ \ {t}]
          /\ Record("transient", "info", t[1])
    BY <1>12 DEF ScanTouched
  <2>3. findings' \in SUBSET Finding
    <3>1. t[1] \in Digest
      BY <1>0
    <3> QED BY <1>0, <2>2, <3>1, FoundTyped DEF Record
  <2>4. /\ scan' \in ScanState /\ scan'.pc = scan.pc
        /\ scan'.status = scan.status /\ scan'.page = scan.page
    BY <1>0, <2>2 DEF ScanState
  <2> QED BY <1>0, <2>1, <2>3, <2>4 DEF ScanTyped, PageSound
<1>13. CASE ListFiles
  <2> PICK names : names = {<<d, 0>> : d \in {e \in Digest : file[e] # "absent"}}
    OBVIOUS
  <2>1. /\ scan.pc = "files" /\ sick' = sick /\ scan.status \in {"none", "running"}
        /\ findings' = findings /\ scan.page = {}
        /\ scan' = [scan EXCEPT !.pc = "inventory", !.todo = names]
    BY <1>13 DEF ListFiles, PageSound
  <2>2. names \in SUBSET (Digest \X Nat)
    OBVIOUS
  <2>3. /\ scan' \in ScanState /\ scan'.pc = "inventory"
        /\ scan'.status = scan.status /\ scan'.page = scan.page
    BY <1>0, <2>1, <2>2 DEF ScanState
  <2> QED BY <1>0, <2>1, <2>3 DEF ScanTyped, PageSound
<1>14. CASE CheckFile
  <2>1. /\ scan.pc = "inventory" /\ sick' = sick
        /\ scan.status \in {"none", "running"}
    BY <1>14 DEF CheckFile, PageSound
  <2>2. PICK t \in scan.todo :
          /\ scan' = [scan EXCEPT !.todo = @ \ {t}]
          /\ IF ~blob[t[1]].row /\ file[t[1]] # "absent"
               THEN Record("unowned", "error", t[1]) ELSE UNCHANGED findings
    BY <1>14 DEF CheckFile
  <2>3. findings' \in SUBSET Finding
    <3>1. t[1] \in Digest
      BY <1>0
    <3> QED BY <1>0, <2>2, <3>1, FoundTyped DEF Record
  <2>4. /\ scan' \in ScanState /\ scan'.pc = scan.pc
        /\ scan'.status = scan.status /\ scan'.page = scan.page
    BY <1>0, <2>2 DEF ScanState
  <2> QED BY <1>0, <2>1, <2>3, <2>4 DEF ScanTyped, PageSound
<1>15. CASE CompleteScan
  <2>1. /\ scan.pc = "inventory" /\ sick' = sick /\ findings' = findings
        /\ scan.page = {}
        /\ scan' = [scan EXCEPT !.pc = "over", !.status = FinalStatus, !.after = 0]
    BY <1>15 DEF CompleteScan, PageSound
  <2>2. /\ FinalStatus \in {"action required", "healthy"}
        /\ FinalStatus = "healthy" => \A f \in findings : f.severity = "info"
    BY DEF FinalStatus
  <2>3. /\ scan' \in ScanState /\ scan'.pc = "over"
        /\ scan'.status = FinalStatus /\ scan'.page = scan.page
    BY <1>0, <2>1, <2>2 DEF ScanState
  <2> QED BY <1>0, <2>1, <2>2, <2>3 DEF ScanTyped, PageSound
<1>16. CASE FailScan
  <2>1. /\ sick' = sick /\ findings' = findings
        /\ scan' = [scan EXCEPT !.pc = "over", !.status = "failed", !.after = 0,
                                !.page = {}, !.todo = {}]
    BY <1>16 DEF FailScan
  <2>2. /\ scan' \in ScanState /\ scan'.pc = "over"
        /\ scan'.status = "failed" /\ scan'.page = {}
    BY <1>0, <2>1 DEF ScanState
  <2> QED BY <1>0, <2>1, <2>2 DEF ScanTyped, PageSound
<1> QED BY <1>1, <1>2, <1>3, <1>4, <1>5, <1>6, <1>7, <1>8, <1>9, <1>10, <1>11,
           <1>12, <1>13, <1>14, <1>15, <1>16 DEF ScanNext

-----------------------------------------------------------------------------
(* Types and the archive, for every behaviour *)

ArchiveNext ==
    \/ \E w \in Writer :
          \/ \E s \in Snapshot : BeginComplete(w, s) \/ BeginDelete(w, s)
          \/ \E d \in Digest :
                BeginCollect(w, d) \/ LinkFile(w, d) \/ UnlinkFile(w, d)
          \/ CommitComplete(w) \/ CommitDelete(w) \/ CommitCollect(w)
          \/ FailComplete(w) \/ DropRequest(w)
    \/ \E d \in Digest : GraceEnds(d) \/ RemoveStaged(d) \/ Damage(d)
    \/ LateFileOperation

\* The server's steps leave the scan alone; rows are healed, never made sick.
LEMMA ArchiveLeavesScan ==
  ASSUME ArchiveNext
  PROVE  UNCHANGED <<scan, findings>> /\ sick' \subseteq sick
<1>1. ASSUME NEW w \in Writer,
             \/ \E s \in Snapshot : BeginComplete(w, s) \/ BeginDelete(w, s)
             \/ \E d \in Digest : BeginCollect(w, d)
      PROVE  UNCHANGED <<scan, findings>> /\ sick' \subseteq sick
  BY <1>1 DEF BeginComplete, BeginDelete, BeginCollect, Begin, scanVars
<1>2. ASSUME NEW w \in Writer, NEW d \in Digest, LinkFile(w, d) \/ UnlinkFile(w, d)
      PROVE  UNCHANGED <<scan, findings>> /\ sick' \subseteq sick
  BY <1>2 DEF LinkFile, UnlinkFile, Heal, scanVars
<1>3. ASSUME NEW w \in Writer,
             CommitComplete(w) \/ CommitDelete(w) \/ CommitCollect(w)
      PROVE  UNCHANGED <<scan, findings>> /\ sick' \subseteq sick
  BY <1>3 DEF CommitComplete, CommitDelete, CommitCollect, Commit, Heal, scanVars
<1>4. ASSUME NEW w \in Writer, FailComplete(w) \/ DropRequest(w)
      PROVE  UNCHANGED <<scan, findings>> /\ sick' \subseteq sick
  BY <1>4 DEF FailComplete, DropRequest, scanVars
<1>5. ASSUME NEW d \in Digest, GraceEnds(d) \/ RemoveStaged(d) \/ Damage(d)
      PROVE  UNCHANGED <<scan, findings>> /\ sick' \subseteq sick
  BY <1>5 DEF GraceEnds, RemoveStaged, Damage, scanVars
<1>6. ASSUME LateFileOperation
      PROVE  UNCHANGED <<scan, findings>> /\ sick' \subseteq sick
  BY <1>6 DEF LateFileOperation, Heal, scanVars
<1> QED BY <1>1, <1>2, <1>3, <1>4, <1>5, <1>6 DEF ArchiveNext

\* Faults are never forgotten.
LEMMA HarmedGrows ==
  ASSUME ArchiveTyped, Next
  PROVE  harmed \subseteq harmed'
<1>1. ASSUME NEW w \in Writer,
             \/ \E s \in Snapshot : BeginComplete(w, s) \/ BeginDelete(w, s)
             \/ \E d \in Digest : BeginCollect(w, d)
             \/ \E d \in Digest : LinkFile(w, d) \/ UnlinkFile(w, d)
             \/ FailComplete(w) \/ DropRequest(w)
      PROVE  harmed \subseteq harmed'
  BY <1>1 DEF BeginComplete, BeginDelete, BeginCollect, Begin, LinkFile, UnlinkFile,
              FailComplete, DropRequest, Fault
<1>2. ASSUME NEW w \in Writer,
             CommitComplete(w) \/ CommitDelete(w) \/ CommitCollect(w)
      PROVE  harmed \subseteq harmed'
  BY <1>2 DEF CommitComplete, CommitDelete, CommitCollect, Commit
<1>3. ASSUME \/ \E d \in Digest : GraceEnds(d) \/ RemoveStaged(d) \/ Damage(d)
             \/ LateFileOperation
      PROVE  harmed \subseteq harmed'
  BY <1>3 DEF GraceEnds, RemoveStaged, Damage, Fault, LateFileOperation
<1>4. ASSUME ScanNext PROVE harmed \subseteq harmed'
  BY <1>4, ScanLeavesArchive
<1> QED BY <1>1, <1>2, <1>3, <1>4 DEF Next, ScanNext

CoreInv == ArchiveTyped /\ ArchiveInv /\ ScanTyped /\ PageSound

\* The initial state.
LEMMA CoreInit == Init => CoreInv
<1> SUFFICES ASSUME Init PROVE CoreInv
  OBVIOUS
<1>1. \A w \in Writer : job[w] = Idle
  BY DEF Init
<1>2. [row |-> FALSE, gen |-> 0, cand |-> "none"] \in Blob
  BY IntegrityAssumption DEF Blob
<1>3. ArchiveTyped
  BY <1>2, IdleSound, IntegrityAssumption DEF Init, ArchiveTyped
<1>4. JobsApart /\ \A w \in Writer : JobSound(w)
  BY <1>1, IdleSound DEF JobsApart, JobSound
<1>5. RowsSound /\ LateHarmed
  <2>1. \A d : ~Referenced(d, LiveSnapshots)
    BY DEF Init, Referenced, LiveSnapshots, Live
  <2>2. \A d \in Digest : blob[d].row = FALSE
    BY DEF Init
  <2> QED BY <2>1, <2>2 DEF Init, RowsSound, LateHarmed
<1>6. FilesSound
  <2>1. \A d : ~Linked(d) /\ ~Unlinked(d)
    BY <1>1, IdleSound DEF Linked, Unlinked
  <2>2. \A d \in Digest : blob[d].row = FALSE /\ file[d] = "absent"
    BY DEF Init
  <2> QED BY <2>1, <2>2 DEF FilesSound, FileSound
<1>7. ScanTyped /\ PageSound
  BY DEF Init, ScanTyped, ScanState, PageSound
<1> QED BY <1>3, <1>4, <1>5, <1>6, <1>7 DEF CoreInv, ArchiveInv

\* Every step keeps the archive sound and the scan typed.
LEMMA CoreStep ==
  ASSUME CoreInv, [Next]_vars
  PROVE  CoreInv'
<1>0. ArchiveTyped /\ ArchiveInv /\ ScanTyped /\ PageSound
  BY DEF CoreInv
<1>1. CASE ArchiveNext
  <2>1. ArchiveTyped' /\ ArchiveInv'
    BY <1>0, <1>1, BeginsArchive, FilesArchive, CommitCompleteArchive,
       CommitDeleteArchive, CommitCollectArchive, FailCompleteArchive, DropArchive,
       OthersArchive, GraceArchive DEF ArchiveNext
  <2>2. ScanTyped' /\ PageSound'
    BY <1>0, <1>1, ArchiveLeavesScan DEF ScanTyped, PageSound
  <2> QED BY <2>1, <2>2 DEF CoreInv
<1>2. CASE ScanNext
  <2>1. /\ UNCHANGED <<snap, blob, file, job, late, faults, harmed>>
        /\ staged' \subseteq staged
    BY <1>0, <1>2, ScanLeavesArchive
  <2>2. ArchiveTyped' /\ ArchiveInv'
    <3>1. /\ staged' \in SUBSET Digest /\ late' \subseteq late
          /\ harmed \subseteq harmed' /\ harmed' \in SUBSET Digest
          /\ faults' \in 0..MaxFaults
          /\ file' \in [Digest -> {"absent", "good", "bad"}]
          /\ \A d \in Digest \ harmed' : file'[d] = file[d]
      BY <1>0, <2>1 DEF ArchiveTyped
    <3> QED BY <1>0, <2>1, <3>1, QuietArchive
  <2> QED BY <1>0, <1>2, <2>2, ScanStepTyped DEF CoreInv
<1>3. CASE UNCHANGED vars
  <2>1. UNCHANGED <<snap, blob, file, staged, job, late, faults, scan, findings,
                    harmed, sick>>
    BY <1>3 DEF vars, archiveVars, scanVars
  <2>2. ArchiveTyped' /\ ScanTyped' /\ PageSound'
    BY <1>0, <2>1 DEF ArchiveTyped, ScanTyped, PageSound
  <2>3. ArchiveInv'
    <3>1. /\ staged' \in SUBSET Digest /\ late' \subseteq late
          /\ harmed \subseteq harmed' /\ harmed' \in SUBSET Digest
          /\ faults' \in 0..MaxFaults
          /\ file' \in [Digest -> {"absent", "good", "bad"}]
          /\ \A d \in Digest \ harmed' : file'[d] = file[d]
      BY <1>0, <2>1 DEF ArchiveTyped
    <3> QED BY <1>0, <2>1, <3>1, QuietArchive
  <2> QED BY <2>2, <2>3 DEF CoreInv
<1>4. Next => ArchiveNext \/ ScanNext
  BY DEF Next, ArchiveNext, ScanNext
<1> QED BY <1>1, <1>2, <1>3, <1>4

\* What holds of the archive beside a scan: rows agree with the references of the
\* live snapshots, and files with rows but for the request between its file
\* operation and its commit (complete_upload, delete_snapshot,
\* collect_orphaned_blobs), unless a fault has touched them.
THEOREM IntegrityInvariant == Spec => []CoreInv
<1>1. CoreInv /\ [Next]_vars => CoreInv'
  BY CoreStep
<1> QED BY <1>1, CoreInit, PTL DEF Spec

\* The rows, files, findings and the phases of run_scan keep their types.
THEOREM IntegrityTypes == Spec => []TypeOK
<1>1. CoreInv => TypeOK
  BY DEF CoreInv, ArchiveTyped, ScanTyped, TypeOK
<1> QED BY <1>1, IntegrityInvariant, PTL

-----------------------------------------------------------------------------
(* No race is reported as corruption *)

\* A step of the scan records an error about a blob or a file only if a fault
\* has touched it.
LEMMA ErrorsStep ==
  ASSUME SharesLocks, CoreInv, BlobErrorsAreReal, [Next]_vars
  PROVE  BlobErrorsAreReal'
<1> DEFINE Fine(f) == /\ f.kind \in {"file", "unowned"} => f.about \in harmed
                      /\ f.kind \notin {"dangling", "orphan", "stale candidate"}
<1>0. ArchiveTyped /\ ArchiveInv /\ ScanTyped /\ PageSound
  BY DEF CoreInv
<1>1. ASSUME \A f \in findings' : f \in findings \/ Fine(f), harmed \subseteq harmed'
      PROVE  BlobErrorsAreReal'
  BY <1>1 DEF BlobErrorsAreReal
<1>2. ASSUME NEW k \in {"tombstone", "drift", "transient", "grace", "eligible"},
             NEW v, NEW a
      PROVE  Fine([kind |-> k, severity |-> v, about |-> a])
  OBVIOUS
<1>3. ASSUME NEW k \in {"file", "unowned"}, NEW v, NEW a \in harmed
      PROVE  Fine([kind |-> k, severity |-> v, about |-> a])
  OBVIOUS
<1>4. ASSUME NEW k \in {"tombstone", "drift", "transient", "grace", "eligible"},
             NEW v, NEW a
      PROVE  \A f \in Found(k, v, a) : f \in findings \/ Fine(f)
  BY <1>2 DEF Found
<1>5. ASSUME NEW k \in {"file", "unowned"}, NEW v, NEW a \in harmed
      PROVE  \A f \in Found(k, v, a) : f \in findings \/ Fine(f)
  BY <1>3 DEF Found
<1>6. ASSUME NEW d \in Digest, CanLock(d)
      PROVE  ~Linked(d) /\ ~Unlinked(d)
  <2>1. \A w \in Writer : d \notin job[w].moved
    BY <1>0, <1>6 DEF CanLock, Locked, ArchiveInv, JobSound
  <2> QED BY <2>1 DEF Linked, Unlinked
<1>7. scan.todo \in SUBSET (Digest \X Nat)
  BY <1>0 DEF ScanTyped, ScanState
<1> HIDE DEF Fine
<1>8. CASE ScanNext
  <2>1. harmed' = harmed
    BY <1>0, <1>8, ScanLeavesArchive
  <2>2. CASE ScanDangling
    <3>1. ASSUME NEW s \in LiveSnapshots, NEW d \in Refs[s] PROVE blob[d].row
      <4>1. Referenced(d, LiveSnapshots) /\ d \in Digest
        BY IntegrityAssumption DEF Referenced, LiveSnapshots
      <4> QED BY <1>0, <4>1 DEF ArchiveInv, RowsSound
    <3>2. findings' = findings
      BY <2>2, <3>1 DEF ScanDangling
    <3> QED BY <1>1, <2>1, <3>2
  <2>3. CASE ScanSnapshot \/ ReconcileArtifacts \/ ScanArtifact \/ ScanTouched
    <3>1. \/ findings' = findings
          \/ \E k \in {"tombstone", "drift", "transient"} :
                \E v, a : findings' = Found(k, v, a)
      BY <2>3 DEF ScanSnapshot, ReconcileArtifacts, ScanArtifact, ScanTouched, Record
    <3> QED BY <1>1, <1>4, <2>1, <3>1
  <2>4. CASE ClassifyBlob
    <3>1. PICK d : d = FirstRow[1]
      OBVIOUS
    <3>2. /\ d \in Digest /\ IF Current(FirstRow) THEN findings' \in Liveness(d)
                               ELSE findings' = Found("transient", "info", d)
          /\ Current(FirstRow) => blob[d].row
      BY <1>0, <2>4, <3>1, RowOfPage DEF ClassifyBlob, At, Record, Current
    <3>3. CASE Current(FirstRow)
      <4>1. /\ Referenced(d, LiveSnapshots) => blob[d].cand = "none"
            /\ ~Referenced(d, LiveSnapshots) => blob[d].cand # "none"
        BY <1>0, <3>2, <3>3 DEF ArchiveInv, RowsSound
      <4>2. blob[d].cand \in {"none", "grace", "due"}
        BY <1>0, <3>2, BlobFields DEF ArchiveTyped
      <4>3. \/ findings' = findings
            \/ findings' = Found("grace", "info", d)
            \/ findings' = Found("eligible", "warning", d)
        BY <3>2, <3>3, <4>1, <4>2 DEF Liveness
      <4> QED BY <1>1, <1>4, <2>1, <4>3
    <3>4. CASE ~Current(FirstRow)
      BY <1>1, <1>4, <2>1, <3>2, <3>4
    <3> QED BY <3>3, <3>4
  <2>5. CASE ScanBlob
    <3>1. PICK t \in scan.todo :
            /\ CanLock(t[1])
            /\ IF ~Current(t) THEN Record("transient", "info", t[1])
               ELSE IF file[t[1]] = "good" THEN UNCHANGED findings
               ELSE Record("file", "error", t[1])
      BY <2>5 DEF ScanBlob
    <3>2. t[1] \in Digest
      BY <1>7
    <3>3. Current(t) /\ file[t[1]] # "good" => t[1] \in harmed
      BY <1>0, <1>6, <3>1, <3>2 DEF Current, ArchiveInv, FilesSound, FileSound
    <3> QED BY <1>1, <1>4, <1>5, <2>1, <3>1, <3>3 DEF Record
  <2>6. CASE CheckFile
    <3>1. PICK t \in scan.todo :
            /\ CanLock(t[1])
            /\ IF ~blob[t[1]].row /\ file[t[1]] # "absent"
                 THEN Record("unowned", "error", t[1]) ELSE UNCHANGED findings
      BY <2>6 DEF CheckFile
    <3>2. t[1] \in Digest
      BY <1>7
    <3>3. ~blob[t[1]].row /\ file[t[1]] # "absent" => t[1] \in harmed
      BY <1>0, <1>6, <3>1, <3>2 DEF ArchiveInv, FilesSound, FileSound
    <3> QED BY <1>1, <1>5, <2>1, <3>1, <3>3 DEF Record
  <2>7. CASE \/ BeginScan \/ ReadSnapshots \/ ListArtifacts \/ ArtifactsDone
             \/ ReadBlobs \/ ListFiles \/ CompleteScan \/ FailScan
    <3>1. findings' = findings
      BY <2>7 DEF BeginScan, ReadSnapshots, ListArtifacts, ArtifactsDone, ReadBlobs,
                  ListFiles, CompleteScan, FailScan
    <3> QED BY <1>1, <2>1, <3>1
  <2> QED BY <1>8, <2>2, <2>3, <2>4, <2>5, <2>6, <2>7 DEF ScanNext
<1>9. CASE ArchiveNext
  <2>1. harmed \subseteq harmed'
    BY <1>0, <1>9, HarmedGrows DEF Next, ArchiveNext
  <2> QED BY <1>1, <1>9, <2>1, ArchiveLeavesScan
<1>10. CASE UNCHANGED vars
  BY <1>1, <1>10 DEF vars, scanVars
<1>11. Next => ArchiveNext \/ ScanNext
  BY DEF Next, ArchiveNext, ScanNext
<1> QED BY <1>8, <1>9, <1>10, <1>11

\* integrity.rs: a scan in the server's process reports a blob or a file only
\* when a fault has touched its digest, whatever completions, deletions and
\* collections commit between its pages and its checks.
THEOREM ErrorsAreReal ==
  ASSUME SharesLocks
  PROVE  Spec => []BlobErrorsAreReal
<1>1. Init => BlobErrorsAreReal
  BY DEF Init, BlobErrorsAreReal
<1>2. CoreInv /\ BlobErrorsAreReal /\ [Next]_vars => BlobErrorsAreReal'
  BY ErrorsStep
<1> QED BY <1>1, <1>2, IntegrityInvariant, PTL DEF Spec

-----------------------------------------------------------------------------
(* Nothing is overlooked *)

\* The requests leave a sick row what it is, or heal it.
LEMMA SickKept ==
  ASSUME CoreInv, SickSound, ArchiveNext, NEW d \in sick'
  PROVE  /\ d \in Digest /\ d \in sick
         /\ blob'[d].row /\ file'[d] # "good" /\ blob'[d].gen = blob[d].gen
<1>0. ArchiveTyped /\ ArchiveInv /\ ScanTyped
  BY DEF CoreInv
<1>1. d \in sick /\ d \in Digest /\ blob[d].row /\ file[d] # "good"
  BY <1>0, ArchiveLeavesScan DEF SickSound, ScanTyped
<1>2. ASSUME NEW w \in Writer,
             \/ \E s \in Snapshot : BeginComplete(w, s) \/ BeginDelete(w, s)
             \/ \E e \in Digest : BeginCollect(w, e)
             \/ DropRequest(w)
      PROVE  UNCHANGED <<blob, file>>
  BY <1>2 DEF BeginComplete, BeginDelete, BeginCollect, Begin, DropRequest
<1>3. ASSUME NEW w \in Writer, NEW e \in Digest, LinkFile(w, e) \/ UnlinkFile(w, e)
      PROVE  blob' = blob /\ file'[d] # "good"
  <2>1. blob' = blob /\ (d # e => file'[d] = file[d])
    BY <1>0, <1>1, <1>3 DEF LinkFile, UnlinkFile, ArchiveTyped
  <2>2. d = e => UnlinkFile(w, e)
    BY <1>3 DEF LinkFile, Heal
  <2>3. UnlinkFile(w, e) => file'[e] = "absent"
    BY <1>0 DEF UnlinkFile, ArchiveTyped
  <2> QED BY <1>1, <2>1, <2>2, <2>3
<1>4. ASSUME NEW w \in Writer, CommitComplete(w)
      PROVE  blob'[d].row /\ blob'[d].gen = blob[d].gen /\ file' = file
  <2>1. blob'[d] = IF d \in job[w].about THEN ReferencedRow(blob[d]) ELSE blob[d]
    BY <1>1, <1>4 DEF CommitComplete
  <2>2. ReferencedRow(blob[d]) = [row |-> TRUE, cand |-> "none", gen |-> blob[d].gen]
    BY <1>1 DEF ReferencedRow
  <2>3. file' = file
    BY <1>4 DEF CommitComplete, Commit
  <2> QED BY <1>1, <2>1, <2>2, <2>3
<1>5. ASSUME NEW w \in Writer, CommitDelete(w)
      PROVE  blob'[d].row /\ blob'[d].gen = blob[d].gen /\ file' = file
  <2>1. blob'[d] \in {[blob[d] EXCEPT !.cand = "grace"], blob[d]}
    BY <1>1, <1>5 DEF CommitDelete
  <2>2. blob[d] \in [row : {TRUE}, gen : 1..MaxRows,
                      cand : {"none", "grace", "due"}]
    BY <1>0, <1>1 DEF ArchiveTyped, Blob
  <2>3. /\ [blob[d] EXCEPT !.cand = "grace"].row = TRUE
        /\ [blob[d] EXCEPT !.cand = "grace"].gen = blob[d].gen
    BY <2>2
  <2>4. file' = file
    BY <1>5 DEF CommitDelete, Commit
  <2> QED BY <1>1, <2>1, <2>3, <2>4
<1>6. ASSUME NEW w \in Writer, CommitCollect(w)
      PROVE  blob'[d] = blob[d] /\ file' = file
  <2>1. d \notin job[w].about
    BY <1>6 DEF CommitCollect, Heal
  <2> QED BY <1>1, <1>6, <2>1 DEF CommitCollect, Commit
<1>7. ASSUME NEW w \in Writer, FailComplete(w)
      PROVE  blob' = blob /\ file'[d] # "good"
  BY <1>1, <1>7 DEF FailComplete
<1>8. ASSUME NEW e \in Digest, RemoveStaged(e) \/ Damage(e)
      PROVE  blob' = blob /\ file'[d] # "good"
  BY <1>0, <1>1, <1>8 DEF RemoveStaged, Damage, ArchiveTyped
<1>9. ASSUME NEW e \in Digest, GraceEnds(e)
      PROVE  /\ blob'[d].row /\ blob'[d].gen = blob[d].gen /\ file' = file
  <2>1. \A c \in Digest : blob'[c].row = blob[c].row /\ blob'[c].gen = blob[c].gen
    BY <1>0, <1>9, GraceArchive
  <2>2. file' = file
    BY <1>9 DEF GraceEnds
  <2> QED BY <1>1, <2>1, <2>2
<1>10. ASSUME LateFileOperation
       PROVE  blob' = blob /\ file'[d] # "good"
  <2>1. PICK o \in late :
          /\ file' = [file EXCEPT ![o[2]] =
                        IF o[1] = "unlink" THEN "absent"
                        ELSE IF @ = "absent" THEN "good" ELSE @]
          /\ IF o[1] = "link" THEN Heal({o[2]}) ELSE UNCHANGED sick
    BY <1>10 DEF LateFileOperation
  <2>2. o[1] \in {"link", "unlink"} /\ o[2] \in Digest
    BY <1>0 DEF ArchiveTyped
  <2>3. d = o[2] => o[1] = "unlink"
    BY <2>1, <2>2 DEF Heal
  <2>4. file'[d] # "good"
    BY <1>0, <1>1, <2>1, <2>2, <2>3 DEF ArchiveTyped
  <2> QED BY <1>10, <2>4 DEF LateFileOperation
<1> QED BY <1>1, <1>2, <1>3, <1>4, <1>5, <1>6, <1>7, <1>8, <1>9, <1>10
        DEF ArchiveNext

\* Findings are only ever added.
LEMMA FindingsGrow ==
  ASSUME CoreInv, ScanNext
  PROVE  findings \subseteq findings'
<1>1. CASE \/ BeginScan \/ ReadSnapshots \/ ListArtifacts \/ ArtifactsDone
           \/ ReadBlobs \/ ListFiles \/ CompleteScan \/ FailScan
  BY <1>1 DEF BeginScan, ReadSnapshots, ListArtifacts, ArtifactsDone, ReadBlobs,
              ListFiles, CompleteScan, FailScan
<1>2. CASE ScanDangling \/ ScanSnapshot \/ ReconcileArtifacts \/ ScanArtifact
  BY <1>2 DEF ScanDangling, ScanSnapshot, ReconcileArtifacts, ScanArtifact, Record,
              Found
<1>3. CASE ScanBlob \/ ScanTouched \/ CheckFile
  BY <1>3 DEF ScanBlob, ScanTouched, CheckFile, Record, Found
<1>4. CASE ClassifyBlob
  <2>1. \/ findings' \in Liveness(FirstRow[1])
        \/ findings' = Found("transient", "info", FirstRow[1])
    BY <1>4 DEF ClassifyBlob, Record
  <2> PICK d : d = FirstRow[1]
    OBVIOUS
  <2>2. d \in Digest
    BY <1>4, RowOfPage DEF ClassifyBlob, At, CoreInv
  <2>3. blob[d].cand \in {"none", "grace", "due"}
    BY <2>2, BlobFields DEF CoreInv, ArchiveTyped
  <2>4. \A k, v : findings \subseteq Found(k, v, d)
    BY DEF Found
  <2>5. \A F \in Liveness(d) : findings \subseteq F
    <3> SUFFICES ASSUME NEW F \in Liveness(d) PROVE findings \subseteq F
      OBVIOUS
    <3>1. F = findings \/ \E k, v : F = Found(k, v, d)
      <4> HIDE DEF Found
      <4> QED BY <2>3 DEF Liveness
    <3> QED BY <2>4, <3>1
  <2> QED BY <2>1, <2>4, <2>5
<1> QED BY <1>1, <1>2, <1>3, <1>4 DEF ScanNext

\* A row that is sick stays within reach of the scan until it has been reported.
LEMMA CoveredStep ==
  ASSUME CoreInv, SickSound, ScanNext, ~BeginScan, NEW d \in sick
  PROVE  Covered(d)'
<1> USE DEF At
<1>0. /\ ArchiveTyped /\ ScanTyped /\ PageSound
      /\ d \in Digest /\ blob[d].row /\ file[d] # "good" /\ Covered(d)
  BY DEF CoreInv, SickSound, ScanTyped
<1>1. scan \in ScanState /\ scan.after \in Nat
  BY <1>0 DEF ScanTyped, ScanState
<1>2. blob' = blob
  BY <1>0, ScanLeavesArchive
<1>3. Reported(d) => Reported(d)'
  BY FindingsGrow DEF Reported
<1>4. CASE scan.pc \in {"dangling", "snapshots", "reconcile", "artifacts", "jobs"}
           /\ ~FailScan
  <2>1. CASE ReadSnapshots
    <3>1. scan' = [scan EXCEPT !.pc = "blobs", !.after = 0] \/
          \E x, y : scan' = [scan EXCEPT !.after = x, !.page = y]
      BY <2>1 DEF ReadSnapshots
    <3>2. d > 0
      BY <1>0, IntegrityAssumption DEF Digest
    <3>3. \/ scan'.pc = "blobs" /\ scan'.after = 0
          \/ scan'.pc = scan.pc
      BY <1>1, <3>1 DEF ScanState
    <3> QED BY <1>4, <3>2, <3>3 DEF Covered
  <2>2. CASE ~ReadSnapshots
    <3>1. scan'.pc \in {"snapshots", "reconcile", "artifacts", "jobs"}
      <4>1. CASE ScanDangling \/ ScanSnapshot \/ ReconcileArtifacts
        BY <1>1, <1>4, <4>1 DEF ScanState, ScanDangling, ScanSnapshot,
                                ReconcileArtifacts, Advance
      <4>2. CASE ListArtifacts \/ ScanArtifact \/ ArtifactsDone \/ ScanTouched
        BY <1>1, <1>4, <4>2 DEF ScanState, ListArtifacts, ScanArtifact,
                                ArtifactsDone, Advance, ScanTouched
      <4> QED BY <1>4, <2>2, <4>1, <4>2
              DEF ScanNext, BeginScan, ReadBlobs, ClassifyBlob, ScanBlob, ListFiles,
                  CheckFile, CompleteScan
    <3> QED BY <3>1 DEF Covered
  <2> QED BY <2>1, <2>2
<1>5. CASE FailScan
  <2>1. scan'.status = "failed"
    BY <1>1, <1>5 DEF FailScan, ScanState
  <2> QED BY <2>1 DEF Covered
<1>6. CASE scan.pc \in {"files", "inventory"} /\ ~FailScan
  <2>1. scan.status # "failed"
    BY <1>0, <1>6 DEF PageSound
  <2> QED BY <1>0, <1>3, <1>6, <2>1 DEF Covered
<1>7. CASE scan.pc = "blobs" /\ ~FailScan
  <2> PICK t : t = <<d, blob[d].gen>>
    OBVIOUS
  <2>0. \/ Reported(d)
        \/ d > scan.after
        \/ t \in scan.page \cup scan.todo
    <3>1. scan.status # "failed"
      BY <1>0, <1>7 DEF PageSound
    <3> QED BY <1>0, <1>7, <3>1 DEF Covered
  <2>1. SUFFICES ASSUME ~Reported(d)
                 PROVE  \/ Reported(d)'
                        \/ /\ scan'.pc = "blobs"
                           /\ \/ d > scan'.after
                              \/ t \in scan'.page \cup scan'.todo
    BY <1>2, <1>3 DEF Covered
  <2>2. CASE ReadBlobs
    <3> PICK ids : ids = {e \in Digest : blob[e].row}
      OBVIOUS
    <3> PICK page : page = NextPage(ids)
      OBVIOUS
    <3> PICK rows : rows = {<<e, blob[e].gen>> : e \in page}
      OBVIOUS
    <3>1. /\ scan.page = {} /\ scan.todo = {}
          /\ scan' = IF page = {}
                       THEN [scan EXCEPT !.pc = "files", !.after = 0]
                       ELSE [scan EXCEPT !.after = LastOf(page), !.page = rows]
      BY <2>2 DEF ReadBlobs
    <3>2. d > scan.after /\ d \in ids
      BY <1>0, <2>0, <2>1, <3>1
    <3>3. d \notin page => page # {} /\ d > LastOf(page)
      <4>1. ids \in SUBSET (1..Digests) /\ Digests \in Nat
        BY IntegrityAssumption DEF Digest
      <4> HIDE DEF NextPage
      <4> QED BY <1>1, <3>2, <4>1, PageCut
    <3>4. scan' = [scan EXCEPT !.after = LastOf(page), !.page = rows]
      BY <3>1, <3>3
    <3>5. scan'.pc = "blobs" /\ scan'.after = LastOf(page) /\ scan'.page = rows
      BY <1>1, <1>7, <3>4 DEF ScanState
    <3>6. d \in page => t \in rows
      OBVIOUS
    <3> QED BY <3>3, <3>5, <3>6
  <2>3. CASE ClassifyBlob
    <3>1. scan' = [scan EXCEPT !.page = @ \ {FirstRow}, !.todo = @ \cup {FirstRow}]
      BY <2>3 DEF ClassifyBlob
    <3>2. /\ scan'.pc = "blobs" /\ scan'.after = scan.after
          /\ scan'.page = scan.page \ {FirstRow}
          /\ scan'.todo = scan.todo \cup {FirstRow}
      BY <1>1, <1>7, <3>1 DEF ScanState
    <3> QED BY <2>0, <2>1, <3>2
  <2>4. CASE ScanBlob
    <3>1. PICK u \in scan.todo :
            /\ scan' = [scan EXCEPT !.todo = @ \ {u}]
            /\ IF ~Current(u) THEN Record("transient", "info", u[1])
               ELSE IF file[u[1]] = "good" THEN UNCHANGED findings
               ELSE Record("file", "error", u[1])
      BY <2>4 DEF ScanBlob
    <3>2. /\ scan'.pc = "blobs" /\ scan'.after = scan.after
          /\ scan'.page = scan.page /\ scan'.todo = scan.todo \ {u}
      BY <1>1, <1>7, <3>1 DEF ScanState
    <3>3. CASE u = t
      <4>1. Current(u) /\ u[1] = d
        BY <1>0, <3>3 DEF Current
      <4>2. findings' = Found("file", "error", d)
        BY <1>0, <3>1, <4>1 DEF Record
      <4>3. Reported(d)'
        <5> PICK f : f = [kind |-> "file", severity |-> "error", about |-> d]
          OBVIOUS
        <5>1. f \in findings' /\ f.about = d /\ f.severity # "info"
          BY <4>2 DEF Found
        <5> QED BY <5>1 DEF Reported
      <4> QED BY <4>3
    <3> QED BY <2>0, <2>1, <3>2, <3>3
  <2>5. CASE ScanTouched
    <3>1. PICK u \in scan.todo :
            /\ scan' = [scan EXCEPT !.todo = @ \ {u}]
            /\ Record("transient", "info", u[1])
      BY <2>5 DEF ScanTouched
    <3>2. /\ scan'.pc = "blobs" /\ scan'.after = scan.after
          /\ scan'.page = scan.page /\ scan'.todo = scan.todo \ {u}
      BY <1>1, <1>7, <3>1 DEF ScanState
    <3>3. CASE u = t
      <4>1. findings' = Found("transient", "info", d)
        BY <3>1, <3>3 DEF Record
      <4>2. Reported(d)'
        <5> PICK f : f = [kind |-> "transient", severity |-> "info", about |-> d]
          OBVIOUS
        <5>1. f \in findings' /\ f.about = d /\ f.kind = "transient"
          BY <4>1 DEF Found
        <5> QED BY <5>1 DEF Reported
      <4> QED BY <4>2
    <3> QED BY <2>0, <2>1, <3>2, <3>3
  <2> QED BY <1>7, <2>2, <2>3, <2>4, <2>5
          DEF ScanNext, BeginScan, ScanDangling, ReadSnapshots, ScanSnapshot,
              ReconcileArtifacts, ListArtifacts, ScanArtifact, ArtifactsDone,
              ListFiles, CheckFile, CompleteScan
<1>8. scan.pc \notin {"begin", "over"}
  BY DEF ScanNext, ScanDangling, ReadSnapshots, ScanSnapshot,
         ReconcileArtifacts, ListArtifacts, ScanArtifact, ArtifactsDone, ReadBlobs,
         ClassifyBlob, ScanBlob, ScanTouched, ListFiles, CheckFile, CompleteScan,
         FailScan
<1> QED BY <1>1, <1>4, <1>5, <1>6, <1>7, <1>8 DEF ScanState

\* Every step keeps the sick rows within reach.
LEMMA SickStep ==
  ASSUME CoreInv, SickSound, [Next]_vars
  PROVE  SickSound'
<1>1. CASE ArchiveNext
  <2> SUFFICES ASSUME NEW d \in sick'
               PROVE  blob'[d].row /\ file'[d] # "good" /\ Covered(d)'
    BY DEF SickSound
  <2>1. /\ d \in sick /\ blob'[d].row /\ file'[d] # "good"
        /\ blob'[d].gen = blob[d].gen
    BY <1>1, SickKept
  <2>2. UNCHANGED <<scan, findings>>
    BY <1>1, ArchiveLeavesScan
  <2>3. Covered(d)'
    BY <2>1, <2>2 DEF SickSound, Covered, Reported
  <2> QED BY <2>1, <2>3
<1>2. CASE ScanNext /\ ~BeginScan
  <2>1. sick' = sick /\ blob' = blob /\ file' = file
    BY <1>2 DEF ScanNext, ScanDangling, ReadSnapshots, ScanSnapshot,
       ReconcileArtifacts, ListArtifacts, ScanArtifact, ArtifactsDone, ReadBlobs,
       ClassifyBlob, ScanBlob, ScanTouched, ListFiles, CheckFile, CompleteScan,
       FailScan, archiveVars
  <2>2. \A d \in sick : Covered(d)'
    BY <1>2, CoveredStep
  <2> QED BY <2>1, <2>2 DEF SickSound
<1>3. CASE BeginScan
  <2>1. scan \in ScanState
    BY DEF CoreInv, ScanTyped
  <2>2. scan'.pc = "dangling" /\ blob' = blob /\ file' = file
    BY <1>3, <2>1 DEF BeginScan, ScanState, archiveVars
  <2>3. sick' = {d \in Digest : blob[d].row /\ file[d] # "good"}
    BY <1>3 DEF BeginScan
  <2> QED BY <2>2, <2>3 DEF SickSound, Covered
<1>4. CASE UNCHANGED vars
  BY <1>4 DEF vars, archiveVars, scanVars, SickSound, Covered, Reported
<1>5. Next => ArchiveNext \/ ScanNext
  BY DEF Next, ArchiveNext, ScanNext
<1> QED BY <1>1, <1>2, <1>3, <1>4, <1>5

\* A run that ends healthy has looked at every row whose file was bad all the
\* time, page after page, or says that the row changed under it, for any number
\* of rows and any page size (scan_blobs, complete).
THEOREM HealthyIsSound == Spec => []HealthyMeansSound
<1>1. Init => SickSound
  BY DEF Init, SickSound
<1>2. CoreInv /\ SickSound /\ [Next]_vars => SickSound'
  BY SickStep
<1>3. CoreInv /\ SickSound => HealthyMeansSound
  <2> SUFFICES ASSUME CoreInv, SickSound, scan.status = "healthy", NEW d \in sick
               PROVE  \E f \in findings : f.kind = "transient" /\ f.about = d
    BY DEF HealthyMeansSound
  <2>1. scan.pc = "over" /\ \A f \in findings : f.severity = "info"
    BY DEF CoreInv, PageSound
  <2>2. Reported(d)
    BY <2>1 DEF SickSound, Covered
  <2> QED BY <2>1, <2>2 DEF Reported
<1> QED BY <1>1, <1>2, <1>3, IntegrityInvariant, PTL DEF Spec

-----------------------------------------------------------------------------
(* Reads *)

\* Reads leave the archive and the scan alone: what is proved of them for Spec
\* holds beside a read of get_snapshot or download_artifact.
THEOREM ReadsImplementSpec == ReadSpec => Spec
<1>1. ReadInit => Init
  BY DEF ReadInit
<1>2. [ReadNext]_readVars => [Next]_vars
  <2>1. ReadStep => UNCHANGED vars
    BY DEF ReadStep, BeginRead, ReadRow, ReconcileRow, ReconcileRows, ReadArtifacts,
           OpenBlob, HashBlob, StreamBlob
  <2>2. ArchiveStep => Next
    BY DEF ArchiveStep
  <2> QED BY <2>1, <2>2 DEF ReadNext, readVars
<1> QED BY <1>1, <1>2, PTL DEF ReadSpec, Spec

ReadInv == read \in Read /\ ReadSound

\* A digest of a live snapshot that no fault has touched has its file.
LEMMA LiveIsStored ==
  ASSUME CoreInv, NEW s \in Snapshot, Live(s), NEW d \in Refs[s], d \notin harmed
  PROVE  file[d] = "good"
<1>0. ArchiveInv /\ d \in Digest
  BY IntegrityAssumption DEF CoreInv
<1>1. Referenced(d, LiveSnapshots)
  BY DEF Referenced, LiveSnapshots
<1>2. blob[d].row /\ blob[d].cand = "none"
  BY <1>0, <1>1 DEF ArchiveInv, RowsSound
<1>3. ~Unlinked(d)
  BY <1>0, <1>2 DEF Unlinked, ArchiveInv, JobSound
<1> QED BY <1>0, <1>2, <1>3 DEF ArchiveInv, FilesSound, FileSound

\* The archive's steps under a read.
LEMMA ArchiveStepRead ==
  ASSUME ReadInv, ArchiveStep
  PROVE  ReadInv'
<1>1. CASE read.pc = "idle"
  <2>1. read' = read
    BY <1>1 DEF ArchiveStep
  <2> QED BY <1>1, <2>1 DEF ReadInv, ReadSound, LiveReadsSucceed
<1>2. CASE read.pc # "idle"
  <2> PICK g : g = (read.gone \/ snap'[read.snapshot] # "live")
    OBVIOUS
  <2> PICK t : t = (read.touched \/ (read.pc = "hash" /\ Touches(read.digest)))
    OBVIOUS
  <2>1. read.pc # "over" /\ read' = [read EXCEPT !.gone = g, !.touched = t]
    BY <1>2 DEF ArchiveStep
  <2>2. g \in BOOLEAN /\ t \in BOOLEAN
    OBVIOUS
  <2>3. /\ read' \in Read
        /\ read'.pc = read.pc /\ read'.of = read.of /\ read'.digest = read.digest
        /\ read'.snapshot = read.snapshot /\ read'.gone = g
    BY <2>1, <2>2 DEF ReadInv, Read
  <2>4. ~read'.gone => Live(read.snapshot)'
    BY <2>3 DEF Live
  <2> QED BY <1>2, <2>1, <2>3, <2>4 DEF ReadInv, ReadSound, LiveReadsSucceed
<1> QED BY <1>1, <1>2

\* The queries of a read.
LEMMA ReadStepRead ==
  ASSUME CoreInv, ReadInv, ReadStep
  PROVE  ReadInv'
<1>0. read \in Read /\ ReadSound
  BY DEF ReadInv
<1>1. ASSUME NEW of \in {"snapshot", "artifact"}, NEW s \in Snapshot, NEW d \in Digest,
             BeginRead(of, s, d)
      PROVE  ReadInv'
  <2> PICK g : g = (~Live(s))
    OBVIOUS
  <2>1. /\ read' = [pc |-> "row", of |-> of, snapshot |-> s, digest |-> d,
                    gone |-> g, touched |-> FALSE, answer |-> "none"]
        /\ d \in Refs[s] /\ UNCHANGED vars
    BY <1>1 DEF BeginRead, NoRead
  <2>2. g \in BOOLEAN
    OBVIOUS
  <2>3. read' \in Read
    BY <2>1, <2>2 DEF Read
  <2>4. /\ read'.pc = "row" /\ read'.snapshot = s /\ read'.digest = d
        /\ read'.gone = g
    BY <2>1
  <2>5. snap' = snap
    BY <2>1 DEF vars, archiveVars
  <2>6. ReadSound'
    BY <2>1, <2>4, <2>5 DEF ReadSound, LiveReadsSucceed, Live
  <2> QED BY <2>3, <2>6 DEF ReadInv
<1>2. ASSUME NEW pc \in {"manifest", "rows", "artifacts", "open", "hash", "stream"},
             GotoRead(pc), UNCHANGED vars, read.pc \notin {"idle", "over"},
             pc = "artifacts" => read.of = "snapshot",
             pc \in {"open", "hash", "stream"} => read.of = "artifact"
      PROVE  ReadInv'
  <2>1. /\ read' \in Read
        /\ read'.pc = pc /\ read'.of = read.of /\ read'.digest = read.digest
        /\ read'.snapshot = read.snapshot /\ read'.gone = read.gone
    BY <1>0, <1>2 DEF GotoRead, Read
  <2>2. snap' = snap
    BY <1>2 DEF vars, archiveVars
  <2>3. ReadSound'
    BY <1>0, <1>2, <2>1, <2>2 DEF ReadSound, LiveReadsSucceed, Live
  <2> QED BY <2>1, <2>3 DEF ReadInv
<1>3. ASSUME NEW a \in {"ok", "torn", "not found", "internal", "integrity"},
             Answer(a), UNCHANGED vars, read.pc \notin {"idle", "over"},
             ~read.gone => \/ a = "ok"
                           \/ /\ read.of = "artifact"
                              /\ read.touched \/ read.digest \in harmed
      PROVE  ReadInv'
  <2>1. /\ read' \in Read
        /\ read'.pc = "over" /\ read'.of = read.of /\ read'.digest = read.digest
        /\ read'.snapshot = read.snapshot /\ read'.gone = read.gone
        /\ read'.touched = read.touched /\ read'.answer = a
    BY <1>0, <1>3 DEF Answer, Read
  <2>2. harmed' = harmed
    BY <1>3 DEF vars
  <2>3. LiveReadsSucceed'
    BY <1>3, <2>1, <2>2 DEF LiveReadsSucceed
  <2>4. ReadSound'
    BY <1>0, <1>3, <2>1, <2>3 DEF ReadSound
  <2> QED BY <2>1, <2>4 DEF ReadInv
<1>4. read.pc \notin {"idle", "over"} /\ ~read.gone => ReadIsLive
  BY <1>0 DEF ReadSound, ReadIsLive
<1>5. CASE ReadRow \/ ReconcileRow \/ ReconcileRows
  BY <1>0, <1>2, <1>3, <1>4, <1>5 DEF ReadRow, ReconcileRow, ReconcileRows, Read
<1>6. CASE ReadArtifacts \/ StreamBlob
  BY <1>0, <1>3, <1>4, <1>6 DEF ReadArtifacts, StreamBlob, ReadSound
<1>7. CASE OpenBlob \/ HashBlob
  <2>1. /\ read.pc \in {"open", "hash"} /\ read.of = "artifact"
        /\ read.snapshot \in Snapshot /\ read.digest \in Refs[read.snapshot]
    BY <1>0, <1>7 DEF OpenBlob, HashBlob, ReadSound
  <2>2. ~read.gone /\ read.digest \notin harmed => file[read.digest] = "good"
    BY <1>4, <2>1, LiveIsStored DEF ReadIsLive
  <2> QED BY <1>2, <1>3, <1>7, <2>1, <2>2 DEF OpenBlob, HashBlob
<1> QED BY <1>1, <1>5, <1>6, <1>7 DEF ReadStep

\* What a read knows at each of its queries.
THEOREM ReadInvariant == ReadSpec => []ReadInv
<1>1. ReadInit => ReadInv
  BY DEF ReadInit, ReadInv, NoRead, Read, ReadSound, LiveReadsSucceed
<1>2. CoreInv /\ ReadInv /\ [ReadNext]_readVars => ReadInv'
  <2> SUFFICES ASSUME CoreInv, ReadInv, [ReadNext]_readVars PROVE ReadInv'
    OBVIOUS
  <2>1. CASE UNCHANGED readVars
    BY <2>1 DEF readVars, vars, archiveVars, ReadInv, ReadSound, LiveReadsSucceed,
                Live
  <2> QED BY <2>1, ArchiveStepRead, ReadStepRead DEF ReadNext
<1> QED BY <1>1, <1>2, ReadsImplementSpec, IntegrityInvariant, PTL DEF ReadSpec

\* The archive, the scan and the read keep their types.
THEOREM ReadTypes == ReadSpec => []ReadTypeOK
<1>1. ReadInv /\ TypeOK => ReadTypeOK
  BY DEF ReadInv, ReadTypeOK
<1> QED BY <1>1, ReadInvariant, IntegrityTypes, ReadsImplementSpec, PTL

\* A snapshot that stays live while get_snapshot or download_artifact reads it is
\* served, unless a fault or the removal of an upload's directory touched the file.
THEOREM LiveReadsServed == ReadSpec => []LiveReadsSucceed
<1>1. ReadInv => LiveReadsSucceed
  BY DEF ReadInv, ReadSound
<1> QED BY <1>1, ReadInvariant, PTL
=============================================================================
