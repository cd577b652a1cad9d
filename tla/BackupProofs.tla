--------------------------- MODULE BackupProofs ---------------------------
(***************************************************************************)
(* Proofs about the maintenance gate and about backup create beside a      *)
(* running server.                                                         *)
(*                                                                         *)
(* First the gate by itself, for any number of requests, backups and       *)
(* bootstraps, any durations and any interleaving: its two sides exclude   *)
(* each other, and the lease of a pending backup stands.  Then the         *)
(* composition implements the gate, so that the same holds of it, and with *)
(* it every finished backup is complete, whatever requests, crashes and    *)
(* late file operations do.                                                *)
(***************************************************************************)
EXTENDS ArchiveBackup, TLAPS

-----------------------------------------------------------------------------
(* The gate *)

\* A lease that somebody may still clear by its token: in the row, or read by a
\* request as expired.
Seen(p, b) == entry[p].pc = "expire" /\ entry[p].seen = b

\* A token is in use only after its backup has claimed it.
TokensClaimed ==
    \A b \in Backup : hold[b] = "idle" =>
        lease.token # b /\ \A p \in Sharer : ~Seen(p, b)

\* A request that has read a pending backup's lease as expired read the truth.
SeenIsOver ==
    \A b \in Backup, p \in Sharer : Pending(b) /\ Seen(p, b) =>
        clock >= since[b] + LeaseDuration

LeaseInv == PendingLeaseStands /\ TokensClaimed /\ SeenIsOver

\* The types of the gate's state, which all the other proofs use.
THEOREM GateTypes == GateSpec => []GateTypeOK
<1>1. GateInit => GateTypeOK
  BY GateAssumption DEF GateInit, GateTypeOK, Entry, Out, Hold, NoLease, Sharer
<1>2. GateTypeOK /\ [GateNext]_gateVars => GateTypeOK'
  <2> SUFFICES ASSUME GateTypeOK, [GateNext]_gateVars PROVE GateTypeOK'
    OBVIOUS
  <2> USE DEF GateTypeOK, Entry, Hold
  <2>1. ASSUME NEW p \in Sharer, TakeShared(p) PROVE GateTypeOK'
    BY <2>1, GateAssumption DEF TakeShared, Checking
  <2>2. ASSUME NEW p \in Sharer, CheckLease(p) PROVE GateTypeOK'
    BY <2>2, GateAssumption DEF CheckLease, Leave, Out
  <2>3. ASSUME NEW p \in Sharer, ExpireLease(p) PROVE GateTypeOK'
    BY <2>3, GateAssumption DEF ExpireLease, Leave, Out, Checking, NoLease
  <2>4. ASSUME NEW p \in Sharer, LeaveShared(p) PROVE GateTypeOK'
    BY <2>4 DEF LeaveShared, Leave, Out
  <2>5. ASSUME DropSharers PROVE GateTypeOK'
    BY <2>5 DEF DropSharers, Out
  <2>6. ASSUME NEW b \in Backup, ClaimLease(b) PROVE GateTypeOK'
    BY <2>6, GateAssumption DEF ClaimLease
  <2>7. ASSUME NEW b \in Backup, TakeExclusive(b) PROVE GateTypeOK'
    BY <2>7 DEF TakeExclusive
  <2>8. ASSUME NEW b \in Backup, GiveUp(b) \/ AcquireFails(b) PROVE GateTypeOK'
    BY <2>8 DEF GiveUp, AcquireFails, ClearLease, NoLease
  <2>9. ASSUME NEW b \in Backup, ReleaseLease(b) PROVE GateTypeOK'
    BY <2>9 DEF ReleaseLease, ClearLease, NoLease
  <2>10. ASSUME NEW b \in Backup, Unlock(b) \/ Die(b) PROVE GateTypeOK'
    BY <2>10 DEF Unlock, Die
  <2>11. ASSUME Tick PROVE GateTypeOK'
    BY <2>11 DEF Tick
  <2>12. ASSUME UNCHANGED gateVars PROVE GateTypeOK'
    BY <2>12 DEF gateVars
  <2> QED
    BY <2>1, <2>2, <2>3, <2>4, <2>5, <2>6, <2>7, <2>8, <2>9, <2>10, <2>11,
       <2>12 DEF GateNext
<1> QED
  BY <1>1, <1>2, PTL DEF GateSpec

\* The file lock alone keeps requests and backups apart: the lease may expire
\* under its owner, be cleared or be taken over at any time.
THEOREM GateExcludes == GateSpec => []Excluded
<1>1. GateInit => Excluded
  BY GateAssumption DEF GateInit, Excluded, Out
<1>2. GateTypeOK /\ Excluded /\ [GateNext]_gateVars => Excluded'
  <2> SUFFICES ASSUME GateTypeOK, Excluded, [GateNext]_gateVars PROVE Excluded'
    OBVIOUS
  <2> USE DEF GateTypeOK, Excluded, Entry, Hold
  <2>1. ASSUME NEW p \in Sharer, TakeShared(p) PROVE Excluded'
    BY <2>1 DEF TakeShared, Checking
  <2>2. ASSUME NEW p \in Sharer, CheckLease(p) PROVE Excluded'
    BY <2>2 DEF CheckLease, Leave, Out
  <2>3. ASSUME NEW p \in Sharer, ExpireLease(p) PROVE Excluded'
    BY <2>3 DEF ExpireLease, Leave, Out
  <2>4. ASSUME NEW p \in Sharer, LeaveShared(p) PROVE Excluded'
    BY <2>4 DEF LeaveShared, Leave, Out
  <2>5. ASSUME DropSharers PROVE Excluded'
    BY <2>5 DEF DropSharers, Out
  <2>6. ASSUME NEW b \in Backup, ClaimLease(b) PROVE Excluded'
    BY <2>6 DEF ClaimLease
  <2>7. ASSUME NEW b \in Backup, TakeExclusive(b) PROVE Excluded'
    BY <2>7, GateAssumption DEF TakeExclusive, LockFree
  <2>8. ASSUME NEW b \in Backup, GiveUp(b) \/ AcquireFails(b) PROVE Excluded'
    BY <2>8 DEF GiveUp, AcquireFails
  <2>9. ASSUME NEW b \in Backup, ReleaseLease(b) PROVE Excluded'
    BY <2>9, GateAssumption DEF ReleaseLease
  <2>10. ASSUME NEW b \in Backup, Unlock(b) \/ Die(b) PROVE Excluded'
    BY <2>10, GateAssumption DEF Unlock, Die
  <2>11. ASSUME Tick PROVE Excluded'
    BY <2>11 DEF Tick
  <2>12. ASSUME UNCHANGED gateVars PROVE Excluded'
    BY <2>12 DEF gateVars
  <2> QED
    BY <2>1, <2>2, <2>3, <2>4, <2>5, <2>6, <2>7, <2>8, <2>9, <2>10, <2>11,
       <2>12 DEF GateNext
<1> QED
  BY <1>1, <1>2, GateTypes, PTL DEF GateSpec

\* The lease's inductive invariant holds at first and is kept by every step.
LEMMA LeaseInit == GateInit => LeaseInv
  BY GateAssumption
  DEF GateInit, LeaseInv, PendingLeaseStands, TokensClaimed, SeenIsOver, Pending,
      Seen, Out, NoLease

LEMMA LeaseStep ==
  ASSUME GateTypeOK, LeaseInv, [GateNext]_gateVars
  PROVE  LeaseInv'
<1> USE DEF GateTypeOK, Entry, Hold, Pending, Seen, LeaseInv, PendingLeaseStands,
            TokensClaimed, SeenIsOver
<1>1. ASSUME NEW p \in Sharer, TakeShared(p) PROVE LeaseInv'
  BY <1>1 DEF TakeShared, Checking
<1>2. ASSUME NEW p \in Sharer, CheckLease(p) PROVE LeaseInv'
  <2>1. PendingLeaseStands'
    BY <1>2 DEF CheckLease
  <2>2. TokensClaimed'
    BY <1>2 DEF CheckLease, Leave, Out
  <2>3. SeenIsOver'
    BY <1>2, GateAssumption DEF CheckLease, Leave, Out, LeaseActive
  <2> QED BY <2>1, <2>2, <2>3
<1>3. ASSUME NEW p \in Sharer, ExpireLease(p) PROVE LeaseInv'
  <2>1. PendingLeaseStands'
    BY <1>3, GateAssumption DEF ExpireLease
  <2>2. TokensClaimed'
    <3>1. \A q \in Sharer : entry'[q] = entry[q] \/ entry'[q].pc # "expire"
      BY <1>3 DEF ExpireLease, Leave, Out, Checking
    <3> QED
      BY <1>3, <3>1, GateAssumption DEF ExpireLease, NoLease
  <2>3. SeenIsOver'
    <3>1. \A q \in Sharer : entry'[q] = entry[q] \/ entry'[q].pc # "expire"
      BY <1>3 DEF ExpireLease, Leave, Out, Checking
    <3> QED
      BY <1>3, <3>1 DEF ExpireLease
  <2> QED BY <2>1, <2>2, <2>3
<1>4. ASSUME NEW p \in Sharer, LeaveShared(p) PROVE LeaseInv'
  BY <1>4 DEF LeaveShared, Leave, Out
<1>5. ASSUME DropSharers PROVE LeaseInv'
  BY <1>5 DEF DropSharers, Out
<1>6. ASSUME NEW b \in Backup, ClaimLease(b) PROVE LeaseInv'
  <2>1. PendingLeaseStands'
    BY <1>6, GateAssumption DEF ClaimLease, LeaseActive
  <2>2. TokensClaimed'
    BY <1>6 DEF ClaimLease
  <2>3. SeenIsOver'
    BY <1>6, GateAssumption DEF ClaimLease
  <2> QED BY <2>1, <2>2, <2>3
<1>7. ASSUME NEW b \in Backup, TakeExclusive(b) PROVE LeaseInv'
  BY <1>7 DEF TakeExclusive
<1>8. ASSUME NEW b \in Backup, GiveUp(b) \/ AcquireFails(b) PROVE LeaseInv'
  BY <1>8, GateAssumption DEF GiveUp, AcquireFails, ClearLease, NoLease
<1>9. ASSUME NEW b \in Backup, ReleaseLease(b) PROVE LeaseInv'
  BY <1>9, GateAssumption DEF ReleaseLease, ClearLease, NoLease
<1>10. ASSUME NEW b \in Backup, Unlock(b) \/ Die(b) PROVE LeaseInv'
  BY <1>10 DEF Unlock, Die
<1>11. ASSUME Tick PROVE LeaseInv'
  BY <1>11, GateAssumption DEF Tick
<1>12. ASSUME UNCHANGED gateVars PROVE LeaseInv'
  BY <1>12 DEF gateVars
<1> QED
  BY <1>1, <1>2, <1>3, <1>4, <1>5, <1>6, <1>7, <1>8, <1>9, <1>10, <1>11, <1>12
  DEF GateNext

\* clear_lease and the expiry in maintenance_is_active compare tokens, and that is
\* enough: no process ever takes the lease of a backup that is still pending and
\* within its time.
THEOREM LeaseStands == GateSpec => []PendingLeaseStands
<1>1. GateTypeOK /\ LeaseInv /\ [GateNext]_gateVars => LeaseInv'
  BY LeaseStep
<1>2. LeaseInv => PendingLeaseStands
  BY DEF LeaseInv
<1> QED
  BY <1>1, <1>2, LeaseInit, GateTypes, PTL DEF GateSpec

\* Hence ensure_not_active lets nobody in while a backup is pending.
THEOREM NobodyEnters == GateSpec => NoEntryWhilePending
<1> DEFINE Entering ==
      \A p \in Sharer : entry[p].pc # "in" /\ entry'[p].pc = "in" =>
          \A b \in Backup : Pending(b) => clock >= since[b] + LeaseDuration
<1>1. GateTypeOK /\ PendingLeaseStands /\ [GateNext]_gateVars => [Entering]_gateVars
  <2> SUFFICES ASSUME GateTypeOK, PendingLeaseStands, GateNext,
                      NEW p \in Sharer, entry[p].pc # "in", entry'[p].pc = "in",
                      NEW b \in Backup, Pending(b)
               PROVE  clock >= since[b] + LeaseDuration
    OBVIOUS
  <2>1. CheckLease(p) /\ lease.token = None
    <3>1. ASSUME NEW q \in Sharer, TakeShared(q) \/ ExpireLease(q) \/ LeaveShared(q)
          PROVE  FALSE
      <4>1. entry'[q].pc \in {"out", "check"} /\ \A r \in Sharer : r # q => entry'[r] = entry[r]
        BY <3>1 DEF TakeShared, ExpireLease, LeaveShared, Leave, Out, Checking, GateTypeOK
      <4> QED BY <4>1
    <3>2. ASSUME NEW q \in Sharer, CheckLease(q)
          PROVE  CheckLease(p) /\ lease.token = None
      <4>1. \A r \in Sharer : r # q => entry'[r] = entry[r]
        BY <3>2 DEF CheckLease, Leave, GateTypeOK
      <4>2. q = p
        BY <4>1
      <4>3. lease.token = None
        <5>1. CASE LeaseActive /\ Leave(p)
          BY <5>1 DEF Leave, Out, GateTypeOK
        <5>2. CASE entry' = [entry EXCEPT ![p].pc = "expire", ![p].seen = lease.token]
          BY <5>2 DEF GateTypeOK, Entry
        <5> QED BY <3>2, <4>2, <5>1, <5>2 DEF CheckLease
      <4> QED BY <3>2, <4>2, <4>3
    <3>3. CASE DropSharers
      BY <3>3 DEF DropSharers, Out
    <3>4. CASE \E c \in Backup :
                 \/ ClaimLease(c) \/ TakeExclusive(c) \/ GiveUp(c) \/ AcquireFails(c)
                 \/ ReleaseLease(c) \/ Unlock(c) \/ Die(c)
      BY <3>4 DEF ClaimLease, TakeExclusive, GiveUp, AcquireFails, ReleaseLease,
                  Unlock, Die
    <3>5. CASE Tick
      BY <3>5 DEF Tick
    <3> QED BY <3>1, <3>2, <3>3, <3>4, <3>5 DEF GateNext
  <2> QED
    BY <2>1, GateAssumption DEF PendingLeaseStands, GateTypeOK
<1>2. GateSpec => [][Entering]_gateVars
  BY <1>1, GateTypes, LeaseStands, PTL DEF GateSpec
<1> QED
  BY <1>2 DEF NoEntryWhilePending

-----------------------------------------------------------------------------
(* Backups *)

\* What a backup has staged so far: only the backup that works is past its first
\* step, and what it has listed and copied is what the database still holds.
StagedAsListed ==
    \A b \in Backup :
        /\ hold[b] # "working" => step[b] \in {"count", "over"}
        /\ step[b] \in {"database", "blobs"} => copy[b].listed = rows
        /\ step[b] = "blobs" => copy[b].rows = rows /\ ~copy[b].lease

\* Every user of the gate goes by its rules: each step of the server and of the
\* backup command is a step of the gate or leaves it alone.
THEOREM UsesGate == Spec => GateSpec
<1>1. Init => GateInit
  BY DEF Init
<1>2. [Next]_vars => [GateNext]_gateVars
  <2> SUFFICES ASSUME [Next]_vars PROVE [GateNext]_gateVars
    OBVIOUS
  <2>1. ASSUME NEW p \in Request,
               \/ EnterRequest(p) \/ OpenUpload(p) \/ EndUpload(p)
               \/ CommitJob(p) \/ DropRequest(p)
        PROVE  GateNext
    BY <2>1 DEF EnterRequest, OpenUpload, EndUpload, CommitJob, DropRequest,
                GateNext, Sharer
  <2>2. ASSUME NEW p \in Request,
               MoveFile(p) \/ \E d \in Digest : StartJob(p, d)
        PROVE  UNCHANGED gateVars
    BY <2>2 DEF MoveFile, StartJob
  <2>3. ASSUME NEW p \in Sharer, CheckGate(p) PROVE GateNext
    BY <2>3 DEF CheckGate, GateNext
  <2>4. ASSUME LateFileOperation PROVE UNCHANGED gateVars
    BY <2>4 DEF LateFileOperation
  <2>5. ASSUME CrashServer \/ BeginBootstrap \/ FinishBootstrap \/ AdvanceClock
        PROVE  GateNext
    BY <2>5 DEF CrashServer, BeginBootstrap, FinishBootstrap, AdvanceClock,
                GateNext, Sharer
  <2>6. ASSUME NEW b \in Backup,
               GateStep(b) \/ FailAcquire(b) \/ KillBackup(b) \/ ReleasePermit(b)
        PROVE  GateNext
    BY <2>6 DEF GateStep, FailAcquire, KillBackup, ReleasePermit, GateNext
  <2>7. ASSUME NEW b \in Backup,
               \/ CountUploads(b) \/ ListBlobs(b) \/ CopyDatabase(b) \/ CopyBlob(b)
               \/ FinalizeBackup(b) \/ FailBackup(b)
        PROVE  UNCHANGED gateVars
    BY <2>7 DEF CountUploads, ListBlobs, CopyDatabase, CopyBlob, FinalizeBackup,
                FailBackup
  <2>8. ASSUME UNCHANGED vars PROVE UNCHANGED gateVars
    BY <2>8 DEF vars
  <2> QED
    BY <2>1, <2>2, <2>3, <2>4, <2>5, <2>6, <2>7, <2>8 DEF Next
<1> QED
  BY <1>1, <1>2, PTL DEF Spec, GateSpec

\* The exclusion of requests, bootstraps and backups, in the composition.
THEOREM BackupExcluded == Spec => []Excluded
  BY UsesGate, GateExcludes, PTL

\* Who changes the database: only steps of requests and of the bootstrap that
\* were let in.
LEMMA DatabaseStep ==
  ASSUME Excluded, [Next]_vars
  PROVE  owner # None => UNCHANGED <<rows, active>>
<1> USE DEF Excluded, archiveVars
<1>1. ASSUME NEW p \in Request, OpenUpload(p) \/ EndUpload(p) PROVE owner = None
  BY <1>1 DEF OpenUpload, EndUpload, Admitted, Sharer
<1>2. ASSUME NEW p \in Request, CommitJob(p) PROVE owner = None
  BY <1>2 DEF CommitJob, LeaveShared, Sharer
<1>3. ASSUME FinishBootstrap PROVE owner = None
  BY <1>3 DEF FinishBootstrap, Admitted, Sharer
<1>4. ASSUME NEW p \in Request,
             \/ EnterRequest(p) \/ MoveFile(p) \/ DropRequest(p)
             \/ \E d \in Digest : StartJob(p, d)
      PROVE  UNCHANGED <<rows, active>>
  BY <1>4 DEF EnterRequest, MoveFile, DropRequest, StartJob
<1>5. ASSUME NEW p \in Sharer, CheckGate(p) PROVE UNCHANGED <<rows, active>>
  BY <1>5 DEF CheckGate
<1>6. ASSUME LateFileOperation \/ CrashServer \/ BeginBootstrap \/ AdvanceClock
      PROVE  UNCHANGED <<rows, active>>
  BY <1>6 DEF LateFileOperation, CrashServer, BeginBootstrap, AdvanceClock
<1>7. ASSUME NEW b \in Backup,
             \/ GateStep(b) \/ FailAcquire(b) \/ KillBackup(b) \/ ReleasePermit(b)
             \/ CountUploads(b) \/ ListBlobs(b) \/ CopyDatabase(b) \/ CopyBlob(b)
             \/ FinalizeBackup(b) \/ FailBackup(b)
      PROVE  UNCHANGED <<rows, active>>
  BY <1>7 DEF GateStep, FailAcquire, KillBackup, ReleasePermit, CountUploads,
              ListBlobs, CopyDatabase, CopyBlob, FinalizeBackup, FailBackup
<1>8. ASSUME UNCHANGED vars PROVE UNCHANGED <<rows, active>>
  BY <1>8 DEF vars
<1> QED
  BY <1>1, <1>2, <1>3, <1>4, <1>5, <1>6, <1>7, <1>8 DEF Next

\* While a backup owns the file lock the database stands still, also when its
\* lease has expired.
THEOREM BackupQuiet == Spec => DatabaseQuiet
<1>1. Excluded /\ [Next]_vars => [owner # None => UNCHANGED <<rows, active>>]_vars
  BY DatabaseStep
<1> QED
  BY <1>1, BackupExcluded, PTL DEF Spec, DatabaseQuiet

\* The state of the server's side, and of the backup command's.
ServerTypes ==
    /\ rows \in SUBSET Digest /\ files \in SUBSET Digest
    /\ active \in BOOLEAN
    /\ job \in [Request -> Job]
    /\ late \in SUBSET Job
    /\ server \in {"up", "down"}
    /\ crashes \in Nat

CommandTypes ==
    /\ step \in [Backup -> {"count", "list", "database", "blobs", "over"}]
    /\ copy \in [Backup -> Copy]
    /\ outputs \in SUBSET Copy

\* A request that works on a file works on the file of a digest.
JobsNamed ==
    /\ \A p \in Request : job[p].op # "none" => job[p].digest \in Digest
    /\ \A j \in late : j.digest \in Digest

\* Every step keeps the types of the server's state.
LEMMA ServerStep ==
  ASSUME ServerTypes, JobsNamed, [Next]_vars
  PROVE  ServerTypes' /\ JobsNamed'
<1> USE DEF ServerTypes, JobsNamed, archiveVars
<1>n. NoJob \in Job /\ NoJob.op = "none"
  BY DEF NoJob, Job
<1>1. ASSUME NEW p \in Request, EnterRequest(p) \/ OpenUpload(p) \/ EndUpload(p)
      PROVE  ServerTypes' /\ JobsNamed'
  BY <1>1 DEF EnterRequest, OpenUpload, EndUpload
<1>2. ASSUME NEW p \in Request, MoveFile(p) PROVE ServerTypes' /\ JobsNamed'
  <2>1. job[p].digest \in Digest
    BY <1>2 DEF MoveFile
  <2>2. files' \in SUBSET Digest
    BY <1>2, <2>1 DEF MoveFile, FilesAfter
  <2>3. job' \in [Request -> Job]
    BY <1>2 DEF MoveFile, Job
  <2>4. \A q \in Request : job'[q].digest = job[q].digest
    BY <1>2 DEF MoveFile, Job
  <2>5. \A q \in Request : job'[q].op # "none" => job[q].op # "none"
    BY <1>2 DEF MoveFile, Job
  <2> QED BY <1>2, <2>2, <2>3, <2>4, <2>5 DEF MoveFile
<1>3. ASSUME NEW p \in Request, CommitJob(p) PROVE ServerTypes' /\ JobsNamed'
  <2>1. job[p].digest \in Digest
    BY <1>3 DEF CommitJob
  <2>2. rows' \in SUBSET Digest /\ active' \in BOOLEAN
    BY <1>3, <2>1 DEF CommitJob
  <2>3. job' \in [Request -> Job]
    BY <1>3, <1>n DEF CommitJob
  <2>4. \A q \in Request : job'[q] = job[q] \/ job'[q] = NoJob
    BY <1>3 DEF CommitJob
  <2> QED BY <1>3, <1>n, <2>2, <2>3, <2>4 DEF CommitJob
<1>4. ASSUME NEW p \in Request, DropRequest(p) PROVE ServerTypes' /\ JobsNamed'
  <2>1. job' \in [Request -> Job]
    BY <1>4, <1>n DEF DropRequest
  <2>2. \A q \in Request : job'[q] = job[q] \/ job'[q] = NoJob
    BY <1>4 DEF DropRequest
  <2>3. late' \in SUBSET Job /\ \A j \in late' : j.digest \in Digest
    BY <1>4 DEF DropRequest
  <2> QED BY <1>4, <1>n, <2>1, <2>2, <2>3 DEF DropRequest
<1>5. ASSUME NEW p \in Request, NEW d \in Digest, StartJob(p, d)
      PROVE  ServerTypes' /\ JobsNamed'
  <2>1. PICK op \in {"link", "unlink"} :
            job' = [job EXCEPT ![p] = [op |-> op, digest |-> d]]
    BY <1>5 DEF StartJob
  <2>2. [op |-> op, digest |-> d] \in Job
    BY DEF Job
  <2> QED BY <1>5, <2>1, <2>2 DEF StartJob
<1>6. ASSUME NEW p \in Sharer, CheckGate(p) PROVE ServerTypes' /\ JobsNamed'
  BY <1>6 DEF CheckGate
<1>7. ASSUME LateFileOperation PROVE ServerTypes' /\ JobsNamed'
  <2>1. PICK j \in late : files' = FilesAfter(j.op, j.digest) /\ late' = late \ {j}
    BY <1>7 DEF LateFileOperation
  <2>2. files' \in SUBSET Digest
    BY <2>1 DEF FilesAfter
  <2> QED BY <1>7, <2>1, <2>2 DEF LateFileOperation
<1>8. ASSUME CrashServer PROVE ServerTypes' /\ JobsNamed'
  BY <1>8, <1>n DEF CrashServer
<1>9. ASSUME BeginBootstrap \/ FinishBootstrap \/ AdvanceClock
      PROVE  ServerTypes' /\ JobsNamed'
  BY <1>9 DEF BeginBootstrap, FinishBootstrap, AdvanceClock
<1>10. ASSUME NEW b \in Backup,
              \/ GateStep(b) \/ FailAcquire(b) \/ KillBackup(b) \/ ReleasePermit(b)
              \/ CountUploads(b) \/ ListBlobs(b) \/ CopyDatabase(b) \/ CopyBlob(b)
              \/ FinalizeBackup(b) \/ FailBackup(b)
       PROVE  ServerTypes' /\ JobsNamed'
  <2>1. UNCHANGED archiveVars
    BY <1>10 DEF GateStep, FailAcquire, KillBackup, ReleasePermit, CountUploads,
                 ListBlobs, CopyDatabase, CopyBlob, FinalizeBackup, FailBackup
  <2> QED BY <2>1
<1>11. ASSUME UNCHANGED vars PROVE ServerTypes' /\ JobsNamed'
  BY <1>11 DEF vars
<1> QED
  BY <1>1, <1>2, <1>3, <1>4, <1>5, <1>6, <1>7, <1>8, <1>9, <1>10, <1>11 DEF Next

\* Every step keeps the types of the backup command's state; what is listed and
\* copied comes from the server's.
LEMMA CommandStep ==
  ASSUME ServerTypes, CommandTypes, [Next]_vars
  PROVE  CommandTypes'
<1> USE DEF CommandTypes, createVars
<1>e. EmptyCopy \in Copy
  BY DEF EmptyCopy, Copy
<1>1. ASSUME NEW p \in Request,
             \/ EnterRequest(p) \/ OpenUpload(p) \/ EndUpload(p) \/ MoveFile(p)
             \/ CommitJob(p) \/ DropRequest(p) \/ \E d \in Digest : StartJob(p, d)
      PROVE  CommandTypes'
  BY <1>1 DEF EnterRequest, OpenUpload, EndUpload, MoveFile, CommitJob,
              DropRequest, StartJob
<1>2. ASSUME NEW p \in Sharer, CheckGate(p) PROVE CommandTypes'
  BY <1>2 DEF CheckGate
<1>3. ASSUME \/ LateFileOperation \/ CrashServer \/ BeginBootstrap
             \/ FinishBootstrap \/ AdvanceClock
      PROVE  CommandTypes'
  BY <1>3 DEF LateFileOperation, CrashServer, BeginBootstrap, FinishBootstrap,
              AdvanceClock
<1>4. ASSUME NEW b \in Backup,
             \/ GateStep(b) \/ FailAcquire(b) \/ ReleasePermit(b)
             \/ CountUploads(b)
      PROVE  CommandTypes'
  BY <1>4 DEF GateStep, FailAcquire, ReleasePermit, CountUploads, SetStep
<1>5. ASSUME NEW b \in Backup, KillBackup(b) \/ FailBackup(b)
      PROVE  CommandTypes'
  BY <1>5, <1>e DEF KillBackup, FailBackup, SetStep, Discard
<1>6. ASSUME NEW b \in Backup, FinalizeBackup(b) PROVE CommandTypes'
  BY <1>6, <1>e DEF FinalizeBackup, SetStep, Discard
<1>7. ASSUME NEW b \in Backup, ListBlobs(b) \/ CopyDatabase(b)
      PROVE  CommandTypes'
  <2>1. copy' \in [Backup -> Copy]
    BY <1>7 DEF ListBlobs, CopyDatabase, Copy, ServerTypes
  <2> QED BY <1>7, <2>1 DEF ListBlobs, CopyDatabase, SetStep
<1>8. ASSUME NEW b \in Backup, CopyBlob(b) PROVE CommandTypes'
  <2>1. PICK d \in copy[b].listed :
            \/ copy' = [copy EXCEPT ![b].files = @ \cup {d}] /\ UNCHANGED step
            \/ SetStep(b, "over") /\ Discard(b)
    BY <1>8 DEF CopyBlob
  <2>2. d \in Digest
    BY <2>1 DEF Copy
  <2>3. ASSUME copy' = [copy EXCEPT ![b].files = @ \cup {d}]
        PROVE  copy' \in [Backup -> Copy]
    BY <2>2, <2>3 DEF Copy
  <2>4. outputs' = outputs
    BY <1>8 DEF CopyBlob
  <2> QED BY <1>e, <2>1, <2>3, <2>4 DEF SetStep, Discard
<1>9. ASSUME UNCHANGED vars PROVE CommandTypes'
  BY <1>9 DEF vars
<1> QED
  BY <1>1, <1>2, <1>3, <1>4, <1>5, <1>6, <1>7, <1>8, <1>9 DEF Next

\* The types of the composition's state.
THEOREM BackupTypes == Spec => []TypeOK
<1>1. Init => ServerTypes /\ JobsNamed
  <2>1. NoJob \in Job /\ NoJob.op = "none"
    BY DEF NoJob, Job
  <2> SUFFICES ASSUME Init PROVE ServerTypes /\ JobsNamed
    OBVIOUS
  <2>2. job \in [Request -> Job] /\ JobsNamed
    BY <2>1 DEF Init, JobsNamed
  <2>3. active \in BOOLEAN
    BY Zenon DEF Init
  <2> QED BY <2>2, <2>3 DEF Init, ServerTypes
<1>2. Init => CommandTypes
  <2>1. EmptyCopy \in Copy
    BY DEF EmptyCopy, Copy
  <2> QED BY <2>1 DEF Init, CommandTypes
<1>3. ServerTypes /\ JobsNamed /\ [Next]_vars => ServerTypes' /\ JobsNamed'
  BY ServerStep
<1>4. ServerTypes /\ CommandTypes /\ [Next]_vars => CommandTypes'
  BY CommandStep
<1>5. GateTypeOK /\ ServerTypes /\ CommandTypes => TypeOK
  BY DEF TypeOK, ServerTypes, CommandTypes
<1> QED
  BY <1>1, <1>2, <1>3, <1>4, <1>5, UsesGate, GateTypes, PTL DEF Spec

CreateInv == StagedAsListed /\ BackupsAreComplete

\* A step that leaves the staging directories alone, and changes the database or
\* who works only where no copy is being made, keeps the invariant.
LEMMA CreateFrame ==
  ASSUME CreateInv, UNCHANGED <<createVars, outputs>>,
         rows' = rows \/ \A b \in Backup : hold[b] # "working",
         \A b \in Backup : \/ hold'[b] = hold[b]
                           \/ hold[b] # "working"
                           \/ step[b] = "over"
  PROVE  CreateInv'
  BY DEF CreateInv, StagedAsListed, BackupsAreComplete, createVars

\* Every step keeps the invariant.
LEMMA CreateStep ==
  ASSUME TypeOK, Excluded, CreateInv, [Next]_vars
  PROVE  CreateInv'
<1> USE DEF archiveVars, gateVars
<1>1. rows' = rows \/ \A b \in Backup : hold[b] # "working"
  BY DatabaseStep, GateAssumption DEF Excluded
<1>2. ASSUME NEW p \in Request,
             \/ EnterRequest(p) \/ OpenUpload(p) \/ EndUpload(p) \/ MoveFile(p)
             \/ CommitJob(p) \/ DropRequest(p) \/ \E d \in Digest : StartJob(p, d)
      PROVE  CreateInv'
  <2>1. hold' = hold /\ UNCHANGED <<createVars, outputs>>
    BY <1>2 DEF EnterRequest, OpenUpload, EndUpload, MoveFile, CommitJob,
                DropRequest, StartJob, TakeShared, LeaveShared
  <2> QED BY <1>1, <2>1, CreateFrame
<1>3. ASSUME NEW p \in Sharer, CheckGate(p) PROVE CreateInv'
  <2>1. hold' = hold /\ UNCHANGED <<createVars, outputs>>
    BY <1>3 DEF CheckGate, CheckLease, ExpireLease
  <2> QED BY <1>1, <2>1, CreateFrame
<1>4. ASSUME \/ LateFileOperation \/ CrashServer \/ BeginBootstrap
             \/ FinishBootstrap \/ AdvanceClock
      PROVE  CreateInv'
  <2>1. hold' = hold /\ UNCHANGED <<createVars, outputs>>
    BY <1>4 DEF LateFileOperation, CrashServer, BeginBootstrap, FinishBootstrap,
                AdvanceClock, TakeShared, LeaveShared, DropSharers, Tick
  <2> QED BY <1>1, <2>1, CreateFrame
<1>5. ASSUME NEW b \in Backup, GateStep(b) \/ FailAcquire(b) \/ ReleasePermit(b)
      PROVE  CreateInv'
  <2>1. UNCHANGED <<createVars, outputs>>
    BY <1>5 DEF GateStep, FailAcquire, ReleasePermit
  <2>2. \A c \in Backup : \/ hold'[c] = hold[c]
                          \/ hold[c] # "working"
                          \/ step[c] = "over"
    BY <1>5 DEF GateStep, FailAcquire, ReleasePermit, ClaimLease, TakeExclusive,
                GiveUp, AcquireFails, Unlock, ReleaseLease, TypeOK, GateTypeOK
  <2> QED BY <1>1, <2>1, <2>2, CreateFrame
<1>6. ASSUME NEW b \in Backup, KillBackup(b) PROVE CreateInv'
  BY <1>6 DEF KillBackup, Die, Discard, TypeOK, GateTypeOK, CreateInv,
              StagedAsListed, BackupsAreComplete
<1>7. ASSUME NEW b \in Backup, CountUploads(b) PROVE CreateInv'
  BY <1>7 DEF CountUploads, AtStep, SetStep, TypeOK, CreateInv, StagedAsListed,
              BackupsAreComplete
<1>8. ASSUME NEW b \in Backup, ListBlobs(b) PROVE CreateInv'
  BY <1>8 DEF ListBlobs, AtStep, SetStep, TypeOK, Copy, CreateInv, StagedAsListed,
              BackupsAreComplete
<1>9. ASSUME NEW b \in Backup, CopyDatabase(b) PROVE CreateInv'
  BY <1>9 DEF CopyDatabase, AtStep, SetStep, TypeOK, Copy, CreateInv,
              StagedAsListed, BackupsAreComplete
<1>10. ASSUME NEW b \in Backup, CopyBlob(b) PROVE CreateInv'
  BY <1>10 DEF CopyBlob, AtStep, SetStep, Discard, TypeOK, Copy, CreateInv,
               StagedAsListed, BackupsAreComplete
<1>11. ASSUME NEW b \in Backup, FinalizeBackup(b) PROVE CreateInv'
  BY <1>11 DEF FinalizeBackup, AtStep, SetStep, Discard, TypeOK, Copy, CreateInv,
               StagedAsListed, BackupsAreComplete
<1>12. ASSUME NEW b \in Backup, FailBackup(b) PROVE CreateInv'
  BY <1>12 DEF FailBackup, SetStep, Discard, TypeOK, CreateInv, StagedAsListed,
               BackupsAreComplete
<1>13. ASSUME UNCHANGED vars PROVE CreateInv'
  BY <1>13, CreateFrame DEF vars
<1> QED
  BY <1>2, <1>3, <1>4, <1>5, <1>6, <1>7, <1>8, <1>9, <1>10, <1>11, <1>12, <1>13
  DEF Next

\* create_locked lists the rows, copies the database and copies the blobs in
\* separate steps; what it finishes is nevertheless one consistent archive.
THEOREM BackupComplete == Spec => []BackupsAreComplete
<1>1. Init => CreateInv
  BY DEF Init, GateInit, CreateInv, StagedAsListed, BackupsAreComplete
<1>2. TypeOK /\ Excluded /\ CreateInv /\ [Next]_vars => CreateInv'
  BY CreateStep
<1>3. CreateInv => BackupsAreComplete
  BY DEF CreateInv
<1> QED
  BY <1>1, <1>2, <1>3, BackupTypes, BackupExcluded, PTL DEF Spec

\* The lease of a pending backup stands until its time is over, in the
\* composition.
THEOREM BackupLease == Spec => []PendingLeaseStands
  BY UsesGate, LeaseStands, PTL

\* No request and no bootstrap is let in while a backup is pending, in the
\* composition.
THEOREM BackupEntry == Spec => NoEntryWhilePending
  BY UsesGate, NobodyEnters, PTL
=============================================================================
