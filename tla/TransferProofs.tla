--------------------------- MODULE TransferProofs ---------------------------
(***************************************************************************)
(* Proofs about Transfer, for any number of uploads, requests, chunks and  *)
(* lock stripes, any expiry, and crashes with or without a loss of power.  *)
(*                                                                         *)
(* The order: what a request carries (RequestsSound), which lock it holds  *)
(* (LocksHeld), what becomes of a row (RowChange), then the safety         *)
(* properties that rest on them.                                           *)
(***************************************************************************)
EXTENDS Transfer, TLAPS

-----------------------------------------------------------------------------
(* The inductive invariant, part by part *)

\* Where a request works on one upload, and where it works on one chunk.
HoldingPC == {"sweepCheck", "check", "link", "sync", "unlink", "record",
              "refresh", "conflict", "commit", "removeDir"}
ChunkPC == {"link", "sync", "unlink", "record", "refresh", "conflict"}

\* A request carries what its kind needs.
RequestSound(r) ==
    /\ r.pc \in HoldingPC \cup {"lock"} => r.upload \in Upload
    /\ r.kind = "create" => r.capture \in Capture /\ r.manifest \in Manifest
    /\ r.kind = "put" => r.chunk \in Chunk /\ r.body \in Body
    /\ r.pc \in ChunkPC => r.kind = "put"
    /\ r.pc = "persist" => r.kind = "create"

RequestsSound == \A w \in Worker : RequestSound(req[w])

\* A request that has read an upload's row under the lock still holds it.
LocksHeld ==
    \A w \in Worker :
        req[w].pc \in HoldingPC => lock[StripeOf[req[w].upload]] = w

\* Recovery runs alone.
RecoveryAlone ==
    server # "up" => late = {} /\ \A w \in Worker : req[w].pc = "idle"

\* An ended upload has no row, a row names its manifest, and an upload that was
\* never issued has no chunks.
RowSound(u) ==
    /\ Ended(u) => upload[u].status = "absent"
    /\ upload[u].status # "absent" => upload[u].manifest \in Manifest
    /\ ~Issued(u) => \A c \in Chunk : accepted[u][c] = None

RowsDisjoint == \A u \in Upload : RowSound(u)

\* A reading of the clock lies in the past.
ReadingsPast == \A w \in Worker : req[w].now <= clock

\* What a request knows of its chunk's file and row at each step, and that a
\* directory is removed only when its upload's fate is sealed.
Knows(w) ==
    LET u == req[w].upload
        c == req[w].chunk
    IN
    /\ req[w].pc \in {"link", "sync", "unlink"} => accepted[u][c] = None
    /\ req[w].pc \in {"sync", "record"} => chunkFile[u][c] = req[w].body
    /\ req[w].pc = "removeDir" => Issued(u) /\ ~Open(u)

FilesKnown == \A w \in Worker : Knows(w)

\* An upload that requests may meet: all of them while the server serves, and
\* those that recovery has treated.
Treated(u) == server = "up" \/ (server = "recover" /\ u \notin recovering)

\* AcceptedChunksStored and UploadedMeansAllAccepted, of treated uploads.
FilesSound ==
    \A u \in Upload, c \in Chunk :
        Treated(u) /\ Open(u) /\ accepted[u][c] # None
            => chunkFile[u][c] = accepted[u][c]

StatusSound ==
    \A u \in Upload :
        Treated(u) /\ upload[u].status = "artifact_uploaded" => AllAccepted(u)

NoLateUnlink == \A e \in late : e.op # "unlink"

-----------------------------------------------------------------------------
(* What a request carries *)

\* The record of a request that does not run.
LEMMA IdleSound == Idle \in Request /\ RequestSound(Idle)
<1>1. Idle \in Request
  BY DEF Idle, Request, PC, Kind
<1>2. RequestSound(Idle)
  BY DEF Idle, RequestSound, HoldingPC, ChunkPC
<1> QED BY <1>1, <1>2

\* A handler's step replaces its own record only.
LEMMA UpdateSound ==
    ASSUME req \in [Worker -> Request], RequestsSound,
           NEW w \in Worker, NEW r \in Request, RequestSound(r), Update(w, r)
    PROVE  /\ req' \in [Worker -> Request]
           /\ RequestsSound'
           /\ req'[w] = r
           /\ \A v \in Worker \ {w} : req'[v] = req[v]
<1>1. /\ req' \in [Worker -> Request]
      /\ req'[w] = r
      /\ \A v \in Worker \ {w} : req'[v] = req[v]
  BY DEF Update
<1>2. ASSUME NEW v \in Worker PROVE RequestSound(req'[v])
  BY <1>1, req'[v] = r \/ req'[v] = req[v] DEF RequestsSound
<1> QED BY <1>1, <1>2 DEF RequestsSound

\* A request that ends keeps no lock; the others keep theirs.
LEMMA FinishSound ==
    ASSUME req \in [Worker -> Request], RequestsSound,
           lock \in [Stripe -> Worker \cup {None}],
           NEW w \in Worker, Finish(w)
    PROVE  /\ req' \in [Worker -> Request]
           /\ RequestsSound'
           /\ req'[w] = Idle
           /\ \A v \in Worker \ {w} : req'[v] = req[v]
           /\ lock' \in [Stripe -> Worker \cup {None}]
           /\ \A s \in Stripe : lock[s] # w => lock'[s] = lock[s]
<1>1. Update(w, Idle) /\ Unlock(w)
  BY DEF Finish
<1>2. /\ lock' \in [Stripe -> Worker \cup {None}]
      /\ \A s \in Stripe : lock[s] # w => lock'[s] = lock[s]
  BY <1>1 DEF Unlock
<1> QED BY <1>1, <1>2, IdleSound, UpdateSound

\* A request that moves on keeps what it carries.
LEMMA GoToSound ==
    ASSUME req \in [Worker -> Request], RequestsSound,
           NEW w \in Worker, NEW pc \in PC, GoTo(w, pc),
           pc \in HoldingPC \cup {"lock"} => req[w].upload \in Upload,
           pc \in ChunkPC => req[w].kind = "put",
           pc = "persist" => req[w].kind = "create"
    PROVE  /\ req' \in [Worker -> Request]
           /\ RequestsSound'
           /\ req'[w] = [req[w] EXCEPT !.pc = pc]
           /\ \A v \in Worker \ {w} : req'[v] = req[v]
<1> DEFINE r == [req[w] EXCEPT !.pc = pc]
<1>1. r \in Request
  BY DEF Request
<1>2. RequestSound(req[w])
  BY DEF RequestsSound
<1>3. RequestSound(r)
  BY <1>2, req[w] \in Request DEF RequestSound, Request
<1>4. Update(w, r)
  BY DEF GoTo
<1> HIDE DEF r
<1> QED BY <1>1, <1>3, <1>4, UpdateSound DEF r

-----------------------------------------------------------------------------
(* Type correctness *)

RowsTyped ==
    /\ upload \in [Upload -> UploadRow]
    /\ audit \in [Upload -> AuditRow]
    /\ accepted \in [Upload -> [Chunk -> Body \cup {None}]]
DiskTyped ==
    /\ chunkFile \in [Upload -> [Chunk -> Body \cup {None}]]
    /\ unsynced \subseteq Upload \X Chunk
    /\ late \subseteq Blocking
RequestsTyped ==
    /\ req \in [Worker -> Request]
    /\ RequestsSound
    /\ lock \in [Stripe -> Worker \cup {None}]
EnvironmentTyped ==
    /\ server \in {"up", "down", "recover"}
    /\ recovering \subseteq Upload
    /\ clock \in Nat
    /\ crashes \in Nat

Typed == RowsTyped /\ DiskTyped /\ RequestsTyped /\ EnvironmentTyped

\* Typed is the type invariant with RequestsSound.
LEMMA TypedMeans == Typed <=> TypeOK /\ RequestsSound
BY DEF Typed, RowsTyped, DiskTyped, RequestsTyped, EnvironmentTyped, TypeOK

\* Ending an upload keeps the rows' types.
LEMMA TerminalizeTyped ==
    ASSUME RowsTyped, clock \in Nat, NEW u \in Upload,
           NEW reason \in {"abandoned", "expired"}, Terminalize(u, reason)
    PROVE  RowsTyped'
<1>1. /\ NoUpload \in UploadRow
      /\ NoChunks \in [Chunk -> Body \cup {None}]
  BY DEF NoUpload, UploadRow, Status, NoChunks
<1>2. [reason |-> reason, capture |-> upload[u].capture,
       manifest |-> upload[u].manifest, at |-> clock] \in AuditRow
  BY DEF RowsTyped, AuditRow, UploadRow
<1> QED BY <1>1, <1>2 DEF RowsTyped, Terminalize

-----------------------------------------------------------------------------
(* What a request's step does to requests and locks *)

Held(w) == req[w].pc \in HoldingPC => lock[StripeOf[req[w].upload]] = w
Past(w) == req[w].now <= clock

\* A step of w leaves the other requests and their locks alone, and leaves w
\* with the lock that its next step relies on.
Moved(w) ==
    /\ RequestsTyped'
    /\ \A v \in Worker \ {w} : req'[v] = req[v]
    /\ \A s \in Stripe : lock[s] \notin {w, None} => lock'[s] = lock[s]
    /\ req'[w].pc \in HoldingPC => lock'[StripeOf[req'[w].upload]] = w
    /\ req'[w].now <= clock

\* A request that ends.
LEMMA FinishMoves ==
    ASSUME RequestsTyped, clock \in Nat, NEW w \in Worker, Finish(w)
    PROVE  Moved(w)
<1>1. Idle.pc \notin HoldingPC /\ Idle.now = 0
  BY DEF Idle, HoldingPC
<1>2. 0 <= clock
  OBVIOUS
<1> QED BY <1>1, <1>2, FinishSound DEF RequestsTyped, Moved

\* A request that moves on without touching a lock.
LEMMA GoToMoves ==
    ASSUME RequestsTyped, NEW w \in Worker, Held(w), Past(w),
           NEW pc \in PC, GoTo(w, pc), UNCHANGED lock,
           pc \in HoldingPC => req[w].pc \in HoldingPC,
           pc # "lock",
           pc \in ChunkPC => req[w].kind = "put",
           pc = "persist" => req[w].kind = "create"
    PROVE  Moved(w) /\ req'[w] = [req[w] EXCEPT !.pc = pc]
<1>1. req[w] \in Request /\ RequestSound(req[w])
  BY DEF RequestsTyped, RequestsSound
<1>2. pc \in HoldingPC \cup {"lock"} => req[w].upload \in Upload
  BY <1>1 DEF RequestSound
<1>3. /\ RequestsTyped'
      /\ req'[w] = [req[w] EXCEPT !.pc = pc]
      /\ \A v \in Worker \ {w} : req'[v] = req[v]
  BY <1>2, GoToSound DEF RequestsTyped
<1>4. /\ req'[w].pc = pc
      /\ req'[w].upload = req[w].upload
      /\ req'[w].now = req[w].now
  BY <1>1, <1>3 DEF Request
<1> QED BY <1>3, <1>4 DEF Moved, Held, Past

\* A request that moves on, with a new record, to where it needs no lock.
LEMMA UpdateMoves ==
    ASSUME RequestsTyped, NEW w \in Worker, NEW r \in Request,
           RequestSound(r), Update(w, r), UNCHANGED lock,
           r.pc \notin HoldingPC, r.now <= clock
    PROVE  Moved(w) /\ req'[w] = r
BY UpdateSound DEF RequestsTyped, Moved

\* A request that starts.
LEMMA RequestMoves ==
    ASSUME Typed, NEW w \in Worker,
           \/ RequestCreate(w) \/ RequestExpiry(w) \/ RequestUpload(w)
           \/ RequestChunk(w)
    PROVE  Moved(w)
<1>1. RequestsTyped /\ clock \in Nat /\ clock <= clock /\ 0 <= clock
  BY DEF Typed, EnvironmentTyped
<1>2. CASE RequestCreate(w)
  <2>1. PICK k \in Capture, m \in Manifest :
           Update(w, [Idle EXCEPT !.pc = "sweepStart", !.kind = "create",
                                  !.capture = k, !.manifest = m, !.now = clock])
    BY <1>2 DEF RequestCreate
  <2> DEFINE r == [Idle EXCEPT !.pc = "sweepStart", !.kind = "create",
                               !.capture = k, !.manifest = m, !.now = clock]
  <2>2. /\ r \in Request /\ RequestSound(r)
        /\ r.pc \notin HoldingPC /\ r.now <= clock
    BY <1>1 DEF Request, RequestSound, Idle, PC, Kind, HoldingPC, ChunkPC
  <2>3. UNCHANGED lock
    BY <1>2 DEF RequestCreate
  <2> HIDE DEF r
  <2> QED BY <1>1, <2>1, <2>2, <2>3, UpdateMoves DEF r
<1>3. CASE RequestExpiry(w)
  <2> DEFINE r == [Idle EXCEPT !.pc = "sweepStart", !.kind = "expire",
                               !.now = clock]
  <2>1. Update(w, r) /\ UNCHANGED lock
    BY <1>3 DEF RequestExpiry
  <2>2. /\ r \in Request /\ RequestSound(r)
        /\ r.pc \notin HoldingPC /\ r.now <= clock
    BY <1>1 DEF Request, RequestSound, Idle, PC, Kind, HoldingPC, ChunkPC
  <2> HIDE DEF r
  <2> QED BY <1>1, <2>1, <2>2, UpdateMoves
<1>4. CASE RequestUpload(w)
  <2>1. PICK u \in Upload, kind \in Asked :
           Update(w, [Idle EXCEPT !.pc = "lock", !.kind = kind, !.upload = u])
    BY <1>4 DEF RequestUpload
  <2> DEFINE r == [Idle EXCEPT !.pc = "lock", !.kind = kind, !.upload = u]
  <2>2. kind \in {"complete", "abandon", "status"}
    BY TransferAssumption
  <2>3. /\ r \in Request /\ RequestSound(r)
        /\ r.pc \notin HoldingPC /\ r.now <= clock
    BY <1>1, <2>2 DEF Request, RequestSound, Idle, PC, Kind, HoldingPC, ChunkPC
  <2>4. UNCHANGED lock
    BY <1>4 DEF RequestUpload
  <2> HIDE DEF r
  <2> QED BY <1>1, <2>1, <2>3, <2>4, UpdateMoves DEF r
<1>5. CASE RequestChunk(w)
  <2>1. PICK u \in Upload, c \in Chunk, b \in Body :
           Update(w, [Idle EXCEPT !.pc = "lock", !.kind = "put", !.upload = u,
                                  !.chunk = c, !.body = b])
    BY <1>5 DEF RequestChunk
  <2> DEFINE r == [Idle EXCEPT !.pc = "lock", !.kind = "put", !.upload = u,
                               !.chunk = c, !.body = b]
  <2>2. /\ r \in Request /\ RequestSound(r)
        /\ r.pc \notin HoldingPC /\ r.now <= clock
    BY <1>1 DEF Request, RequestSound, Idle, PC, Kind, HoldingPC, ChunkPC
  <2>3. UNCHANGED lock
    BY <1>5 DEF RequestChunk
  <2> HIDE DEF r
  <2> QED BY <1>1, <2>1, <2>2, <2>3, UpdateMoves DEF r
<1> QED BY <1>2, <1>3, <1>4, <1>5

\* Where the lock is taken: the request holds it from here on.
LEMMA LockMoves ==
    ASSUME RequestsTyped, clock \in Nat, NEW w \in Worker, Past(w),
           LockExpired(w) \/ LockUpload(w)
    PROVE  Moved(w)
<1>1. req[w] \in Request /\ RequestSound(req[w])
  BY DEF RequestsTyped, RequestsSound
<1>2. lock \in [Stripe -> Worker \cup {None}]
  BY DEF RequestsTyped
<1>3. CASE LockExpired(w)
  <2>1. PICK u \in req[w].todo :
           /\ lock[StripeOf[u]] = None
           /\ lock' = [lock EXCEPT ![StripeOf[u]] = w]
           /\ Update(w, [req[w] EXCEPT !.pc = "sweepCheck", !.upload = u,
                                       !.todo = @ \ {u}])
    BY <1>3 DEF LockExpired
  <2> DEFINE r == [req[w] EXCEPT !.pc = "sweepCheck", !.upload = u,
                                 !.todo = @ \ {u}]
  <2>2. u \in Upload /\ StripeOf[u] \in Stripe
    BY <1>1, TransferAssumption DEF Request
  <2>3. r \in Request /\ r.upload = u /\ r.now = req[w].now
    BY <1>1, <2>2 DEF Request, PC
  <2>4. RequestSound(r)
    BY <1>1, <2>2 DEF RequestSound, Request, HoldingPC, ChunkPC
  <2>5. Update(w, r)
    BY <2>1
  <2> HIDE DEF r
  <2>6. /\ req' \in [Worker -> Request]
        /\ RequestsSound'
        /\ req'[w] = r
        /\ \A v \in Worker \ {w} : req'[v] = req[v]
    BY <2>3, <2>4, <2>5, UpdateSound DEF RequestsTyped
  <2>7. /\ lock' \in [Stripe -> Worker \cup {None}]
        /\ lock'[StripeOf[u]] = w
        /\ \A s \in Stripe : lock[s] # None => lock'[s] = lock[s]
    BY <1>2, <2>1, <2>2
  <2> QED BY <2>3, <2>6, <2>7 DEF Moved, RequestsTyped, Past
<1>4. CASE LockUpload(w)
  <2> DEFINE u == req[w].upload
  <2>1. /\ At(w, "lock") /\ lock[StripeOf[u]] = None
        /\ lock' = [lock EXCEPT ![StripeOf[u]] = w]
        /\ GoTo(w, "check")
    BY <1>4 DEF LockUpload
  <2>2. u \in Upload /\ StripeOf[u] \in Stripe
    BY <1>1, <2>1, TransferAssumption DEF RequestSound, At
  <2>3. /\ req' \in [Worker -> Request]
        /\ RequestsSound'
        /\ req'[w] = [req[w] EXCEPT !.pc = "check"]
        /\ \A v \in Worker \ {w} : req'[v] = req[v]
    <3>1. "check" \in PC /\ "check" \notin ChunkPC
      BY DEF PC, ChunkPC
    <3> QED BY <2>1, <2>2, <3>1, GoToSound DEF RequestsTyped
  <2>4. req'[w].upload = u /\ req'[w].now = req[w].now
    BY <1>1, <2>3 DEF Request
  <2>5. /\ lock' \in [Stripe -> Worker \cup {None}]
        /\ lock'[StripeOf[u]] = w
        /\ \A s \in Stripe : lock[s] # None => lock'[s] = lock[s]
    BY <1>2, <2>1, <2>2
  <2> QED BY <2>3, <2>4, <2>5 DEF Moved, RequestsTyped, Past
<1> QED BY <1>3, <1>4

\* A sweep drops the lock of one candidate before it takes the next.
LEMMA SweepMoves ==
    ASSUME RequestsTyped, NEW w \in Worker, Past(w),
           GoTo(w, "sweepNext"), Unlock(w)
    PROVE  Moved(w) /\ req'[w] = [req[w] EXCEPT !.pc = "sweepNext"]
<1>1. "sweepNext" \in PC /\ "sweepNext" \notin ChunkPC \cup HoldingPC
  BY DEF PC, ChunkPC, HoldingPC
<1>2. /\ req' \in [Worker -> Request]
      /\ RequestsSound'
      /\ req'[w] = [req[w] EXCEPT !.pc = "sweepNext"]
      /\ \A v \in Worker \ {w} : req'[v] = req[v]
  BY <1>1, GoToSound DEF RequestsTyped
<1>3. req'[w].pc = "sweepNext" /\ req'[w].now = req[w].now
  BY <1>2, req[w] \in Request DEF Request, RequestsTyped
<1>4. /\ lock' \in [Stripe -> Worker \cup {None}]
      /\ \A s \in Stripe : lock[s] # w => lock'[s] = lock[s]
  BY DEF Unlock, RequestsTyped
<1> QED BY <1>1, <1>2, <1>3, <1>4 DEF Moved, RequestsTyped, Past

\* Everything one request does.
WorkerStep(w) ==
    \/ RequestCreate(w) \/ RequestExpiry(w) \/ RequestUpload(w)
    \/ RequestChunk(w) \/ RequestStep(w)
    \/ SyncFails(w) \/ Cancel(w) \/ CancelBlocking(w)

\* Every step of a request moves that request alone.
LEMMA StepMoves ==
    ASSUME Typed, NEW w \in Worker, Held(w), Past(w), WorkerStep(w)
    PROVE  Moved(w)
<1>1. /\ RequestsTyped /\ clock \in Nat
      /\ req[w] \in Request /\ RequestSound(req[w])
  BY DEF Typed, RequestsTyped, RequestsSound, EnvironmentTyped
<1>2. /\ {"sweepNext", "persist", "respond", "link", "sync", "unlink",
          "record", "refresh", "conflict", "commit", "removeDir"} \subseteq PC
      /\ {"check", "sweepCheck", "commit", "removeDir"} \cup ChunkPC
            \subseteq HoldingPC
      /\ {"link", "sync", "unlink", "record", "refresh", "conflict"}
            \subseteq ChunkPC
      /\ {"sweepNext", "persist", "respond", "lock", "commit", "removeDir",
          "check", "sweepCheck"} \cap ChunkPC = {}
      /\ {"sweepNext", "persist", "respond", "lock"} \cap HoldingPC = {}
  BY DEF PC, HoldingPC, ChunkPC
<1>3. req[w].pc \in ChunkPC => req[w].kind = "put"
  BY <1>1 DEF RequestSound
<1> USE DEF At
<1>4. CASE FindExpired(w)
  <2> DEFINE r == [req[w] EXCEPT !.pc = "sweepNext",
                                 !.todo = Candidates(req[w].now)]
  <2>1. Update(w, r) /\ UNCHANGED lock
    BY <1>4 DEF FindExpired
  <2>2. Candidates(req[w].now) \subseteq Upload
    BY DEF Candidates
  <2>3. r \in Request /\ r.pc = "sweepNext" /\ r.now = req[w].now
    BY <1>1, <1>2, <2>2 DEF Request
  <2>4. RequestSound(r)
    BY <1>1 DEF RequestSound, Request, HoldingPC, ChunkPC
  <2> HIDE DEF r
  <2> QED BY <1>1, <1>2, <2>1, <2>3, <2>4, UpdateMoves DEF Past
<1>5. CASE LockExpired(w) \/ LockUpload(w)
  BY <1>1, <1>5, LockMoves
<1>6. CASE ExpireCandidate(w)
  <2>1. \/ GoTo(w, "removeDir") /\ UNCHANGED lock
        \/ GoTo(w, "sweepNext") /\ Unlock(w)
    BY <1>6 DEF ExpireCandidate
  <2>2. req[w].pc = "sweepCheck"
    BY <1>6 DEF ExpireCandidate
  <2> QED BY <1>1, <1>2, <2>1, <2>2, GoToMoves, SweepMoves
<1>7. CASE FinishSweep(w)
  <2>1. \/ req[w].kind = "create" /\ GoTo(w, "persist") /\ UNCHANGED lock
        \/ Finish(w)
    BY <1>7 DEF FinishSweep
  <2> QED BY <1>1, <1>2, <2>1, GoToMoves, FinishMoves
<1>8. CASE PersistUpload(w)
  <2>1. \/ /\ \E u \in Upload : Update(w, [req[w] EXCEPT !.pc = "respond",
                                                         !.upload = u])
           /\ UNCHANGED lock
        \/ Finish(w)
    BY <1>8 DEF PersistUpload, rows
  <2>2. ASSUME NEW u \in Upload,
               Update(w, [req[w] EXCEPT !.pc = "respond", !.upload = u]),
               UNCHANGED lock
        PROVE  Moved(w)
    <3> DEFINE r == [req[w] EXCEPT !.pc = "respond", !.upload = u]
    <3>1. r \in Request /\ r.pc = "respond" /\ r.now = req[w].now
      BY <1>1, <1>2 DEF Request
    <3>2. RequestSound(r)
      BY <1>1 DEF RequestSound, Request, HoldingPC, ChunkPC
    <3>3. Update(w, r)
      BY <2>2
    <3> HIDE DEF r
    <3> QED BY <1>1, <1>2, <2>2, <3>1, <3>2, <3>3, UpdateMoves DEF Past
  <2> QED BY <1>1, <2>1, <2>2, FinishMoves
<1>9. CASE Respond(w) \/ AnswerFromRow(w) \/ AnswerConflict(w) \/ UnlinkChunk(w)
           \/ RefreshStatus(w) \/ Cancel(w) \/ CancelBlocking(w)
  <2>1. Finish(w)
    BY <1>9 DEF Respond, AnswerFromRow, AnswerConflict, UnlinkChunk,
                RefreshStatus, Cancel, CancelBlocking
  <2> QED BY <1>1, <2>1, FinishMoves
<1>10. CASE ExpireOnAccess(w) \/ AbandonUpload(w)
  <2>1. req[w].pc = "check" /\ GoTo(w, "removeDir") /\ UNCHANGED lock
    BY <1>10 DEF ExpireOnAccess, AbandonUpload
  <2> QED BY <1>1, <1>2, <2>1, GoToMoves
<1>11. CASE CheckChunk(w)
  <2>1. /\ req[w].pc = "check" /\ req[w].kind = "put"
        /\ (GoTo(w, "link") /\ UNCHANGED lock) \/ Finish(w)
    BY <1>11 DEF CheckChunk
  <2> QED BY <1>1, <1>2, <2>1, GoToMoves, FinishMoves
<1>12. CASE LinkChunk(w)
  <2>1. /\ req[w].pc = "link" /\ UNCHANGED lock
        /\ GoTo(w, "sync") \/ GoTo(w, "record") \/ GoTo(w, "conflict")
    BY <1>12 DEF LinkChunk
  <2> QED BY <1>1, <1>2, <1>3, <2>1, GoToMoves
<1>13. CASE SyncChunk(w) \/ SyncFails(w)
  <2>1. /\ req[w].pc = "sync" /\ UNCHANGED lock
        /\ GoTo(w, "record") \/ GoTo(w, "unlink")
    BY <1>13 DEF SyncChunk, SyncFails
  <2> QED BY <1>1, <1>2, <1>3, <2>1, GoToMoves
<1>14. CASE RecordChunk(w)
  <2>1. /\ req[w].pc = "record"
        /\ (GoTo(w, "refresh") /\ UNCHANGED lock) \/ Finish(w)
    BY <1>14 DEF RecordChunk
  <2> QED BY <1>1, <1>2, <1>3, <2>1, GoToMoves, FinishMoves
<1>15. CASE PrepareArtifacts(w)
  <2>1. /\ req[w].pc = "check"
        /\ (GoTo(w, "commit") /\ UNCHANGED lock) \/ Finish(w)
    BY <1>15 DEF PrepareArtifacts
  <2> QED BY <1>1, <1>2, <2>1, GoToMoves, FinishMoves
<1>16. CASE CommitCompletion(w)
  <2>1. /\ req[w].pc = "commit"
        /\ (GoTo(w, "removeDir") /\ UNCHANGED lock) \/ Finish(w)
    BY <1>16 DEF CommitCompletion
  <2> QED BY <1>1, <1>2, <2>1, GoToMoves, FinishMoves
<1>17. CASE RemoveUploadDir(w)
  <2>1. (GoTo(w, "sweepNext") /\ Unlock(w)) \/ Finish(w)
    BY <1>17 DEF RemoveUploadDir
  <2> QED BY <1>1, <2>1, SweepMoves, FinishMoves
<1> QED
  BY <1>4, <1>5, <1>6, <1>7, <1>8, <1>9, <1>10, <1>11, <1>12, <1>13, <1>14,
     <1>15, <1>16, <1>17, RequestMoves DEF WorkerStep, RequestStep

-----------------------------------------------------------------------------
(* What a step does to the rows *)

\* A request ends its upload, which is open, and expired if it says so.
Ends(u) ==
    /\ Open(u)
    /\ \E reason \in {"abandoned", "expired"} :
          /\ Terminalize(u, reason)
          /\ reason = "expired" => upload[u].expires <= clock

\* A new row, for a capture id that no open or completed upload has.
Opens(u, k, m) ==
    /\ ~Issued(u)
    /\ ReuseIsEquivalent(k, m)
    /\ \A v \in Upload : upload[v].status # "absent" => upload[v].capture # k
    /\ \E n \in Nat :
          upload' = [upload EXCEPT ![u] =
                [status |-> IF ChunksOf[m] = {} THEN "artifact_uploaded"
                                                ELSE "created",
                 capture |-> k, manifest |-> m, expires |-> n]]
    /\ UNCHANGED <<audit, accepted>>

\* A new status of an open upload.
Restates(u) ==
    /\ Open(u)
    /\ \E s \in {"created", "artifact_uploaded", "completed"} :
          /\ upload' = [upload EXCEPT ![u].status = s]
          /\ s = "artifact_uploaded" => AllAccepted(u)
    /\ UNCHANGED <<audit, accepted>>

\* A chunk is accepted.
Accepts(w) ==
    LET u == req[w].upload IN
    /\ At(w, "record")
    /\ Open(u)
    /\ accepted' = [accepted EXCEPT ![u][req[w].chunk] = req[w].body]
    /\ UNCHANGED <<upload, audit>>

RowStep ==
    \/ UNCHANGED rows
    \/ \E u \in Upload : Ends(u) \/ Restates(u)
    \/ \E u \in Upload, k \in Capture, m \in Manifest : Opens(u, k, m)
    \/ \E w \in Worker : Accepts(w)
    \/ \E u \in Upload, c \in Chunk : RecoverChunk(u, c)
    \/ ServeAfterSweep

\* These are all the ways in which rows change.
LEMMA RowSteps ==
    ASSUME Typed, ReadingsPast, [Next]_vars
    PROVE  RowStep
<1> USE DEF RowStep
<1>1. ASSUME NEW w \in Worker, WorkerStep(w) PROVE RowStep
  <2>1. /\ req[w] \in Request /\ RequestSound(req[w]) /\ req[w].now <= clock
        /\ req[w].now \in Nat /\ clock \in Nat
        /\ \A u \in Upload : upload[u].expires \in Nat
    BY DEF Typed, RowsTyped, RequestsTyped, RequestsSound, EnvironmentTyped,
           ReadingsPast, Request, UploadRow
  <2>2. req[w].pc \in HoldingPC => req[w].upload \in Upload
    BY <2>1 DEF RequestSound
  <2>3. {"sweepCheck", "check", "record", "refresh", "commit"} \subseteq HoldingPC
    BY DEF HoldingPC
  <2>4. CASE ExpireCandidate(w)
    BY <2>1, <2>2, <2>3, <2>4 DEF ExpireCandidate, Ends, At, IsExpired
  <2>5. CASE PersistUpload(w)
    <3>1. req[w].capture \in Capture /\ req[w].manifest \in Manifest
      BY <2>1, <2>5 DEF PersistUpload, At, RequestSound
    <3>2. req[w].now + 2 * Expiry \in Nat
      BY <2>1, TransferAssumption
    <3>3. CASE UNCHANGED rows
      BY <3>3
    <3>4. CASE ~UNCHANGED rows
      <4> DEFINE k == req[w].capture
                 m == req[w].manifest
      <4>1. PICK u \in Upload :
              /\ ~Issued(u)
              /\ upload' = [upload EXCEPT ![u] =
                    [status |-> IF ChunksOf[m] = {} THEN "artifact_uploaded"
                                                    ELSE "created",
                     capture |-> k, manifest |-> m,
                     expires |-> req[w].now + 2 * Expiry]]
              /\ ReuseIsEquivalent(k, m)
              /\ {v \in Upload : /\ upload[v].status # "absent"
                                 /\ upload[v].capture = k} = {}
              /\ UNCHANGED <<audit, accepted>>
        BY <2>5, <3>4 DEF PersistUpload
      <4>2. Opens(u, k, m)
        BY <3>2, <4>1 DEF Opens
      <4> QED BY <3>1, <4>2
    <3> QED BY <3>3, <3>4
  <2>6. CASE ExpireOnAccess(w) \/ AbandonUpload(w)
    BY <2>1, <2>2, <2>3, <2>6
       DEF ExpireOnAccess, AbandonUpload, Ends, At, IsExpired
  <2>7. CASE RecordChunk(w)
    BY <2>7 DEF RecordChunk, Accepts, rows
  <2>8. CASE RefreshStatus(w)
    BY <2>2, <2>3, <2>8 DEF RefreshStatus, Restates, StatusFor, At, rows
  <2>9. CASE CommitCompletion(w)
    BY <2>2, <2>3, <2>9 DEF CommitCompletion, Restates, At, rows
  <2>10. CASE \/ RequestCreate(w) \/ RequestExpiry(w) \/ RequestUpload(w)
              \/ RequestChunk(w) \/ FindExpired(w) \/ LockExpired(w)
              \/ FinishSweep(w) \/ Respond(w) \/ LockUpload(w)
              \/ AnswerFromRow(w)
    BY <2>10 DEF RequestCreate, RequestExpiry, RequestUpload, RequestChunk,
         FindExpired, LockExpired, FinishSweep, Respond, LockUpload,
         AnswerFromRow
  <2>11. CASE \/ CheckChunk(w) \/ LinkChunk(w) \/ AnswerConflict(w)
              \/ SyncChunk(w) \/ UnlinkChunk(w) \/ PrepareArtifacts(w)
              \/ RemoveUploadDir(w) \/ SyncFails(w) \/ Cancel(w)
              \/ CancelBlocking(w)
    BY <2>11 DEF CheckChunk, LinkChunk, AnswerConflict, SyncChunk,
         UnlinkChunk, PrepareArtifacts, RemoveUploadDir, SyncFails, Cancel,
         CancelBlocking
  <2> QED
    BY <1>1, <2>4, <2>5, <2>6, <2>7, <2>8, <2>9, <2>10, <2>11
       DEF WorkerStep, RequestStep
<1>2. ASSUME NEW e \in late, FinishLate(e) PROVE RowStep
  BY <1>2 DEF FinishLate
<1>3. CASE Crash \/ StartRecovery \/ Tick
  BY <1>3 DEF Crash, StartRecovery, Tick
<1>4. ASSUME NEW u \in Upload, RecoverEnded(u) \/ RecoverStatus(u)
      PROVE  RowStep
  BY <1>4 DEF RecoverEnded, RecoverStatus, Restates, StatusFor
<1>5. CASE UNCHANGED vars
  BY <1>5 DEF vars, rows
<1> QED BY <1>1, <1>2, <1>3, <1>4, <1>5 DEF Next, RecoveryStep, WorkerStep

\* A row's fields, and the rows after each change.
LEMMA RowsStayTyped ==
    ASSUME Typed, RowStep
    PROVE  RowsTyped'
<1>1. RowsTyped /\ clock \in Nat
  BY DEF Typed, EnvironmentTyped
<1>2. CASE UNCHANGED rows
  BY <1>1, <1>2 DEF RowsTyped, rows
<1>3. ASSUME NEW u \in Upload, Ends(u) PROVE RowsTyped'
  BY <1>1, <1>3, TerminalizeTyped DEF Ends
<1>4. ASSUME NEW u \in Upload, Restates(u) PROVE RowsTyped'
  <2>1. PICK s \in Status : upload' = [upload EXCEPT ![u].status = s]
    BY <1>4 DEF Restates, Status
  <2>2. [upload[u] EXCEPT !.status = s] \in UploadRow
    BY <1>1 DEF RowsTyped, UploadRow
  <2>3. upload' = [upload EXCEPT ![u] = [upload[u] EXCEPT !.status = s]]
    BY <2>1
  <2> QED BY <1>1, <1>4, <2>2, <2>3 DEF RowsTyped, Restates
<1>5. ASSUME NEW u \in Upload, NEW k \in Capture, NEW m \in Manifest,
             Opens(u, k, m)
      PROVE  RowsTyped'
  <2>1. PICK n \in Nat :
          upload' = [upload EXCEPT ![u] =
                [status |-> IF ChunksOf[m] = {} THEN "artifact_uploaded"
                                                ELSE "created",
                 capture |-> k, manifest |-> m, expires |-> n]]
    BY <1>5 DEF Opens
  <2>2. [status |-> IF ChunksOf[m] = {} THEN "artifact_uploaded"
                                        ELSE "created",
         capture |-> k, manifest |-> m, expires |-> n] \in UploadRow
    BY DEF UploadRow, Status
  <2> QED BY <1>1, <1>5, <2>1, <2>2 DEF RowsTyped, Opens
<1>6. ASSUME NEW w \in Worker, Accepts(w) PROVE RowsTyped'
  <2>1. req[w].body \in Body \cup {None}
    BY DEF Typed, RequestsTyped, Request
  <2> QED BY <1>1, <1>6, <2>1 DEF RowsTyped, Accepts
<1>7. ASSUME NEW u \in Upload, NEW c \in Chunk, RecoverChunk(u, c)
      PROVE  RowsTyped'
  BY <1>1, <1>7 DEF RowsTyped, RecoverChunk
<1>8. CASE ServeAfterSweep
  <2>1. /\ NoUpload \in UploadRow
        /\ NoChunks \in [Chunk -> Body \cup {None}]
    BY DEF NoUpload, UploadRow, Status, NoChunks
  <2>2. ASSUME NEW u \in Upload
        PROVE  [reason |-> "expired", capture |-> upload[u].capture,
                manifest |-> upload[u].manifest, at |-> clock] \in AuditRow
    BY <1>1 DEF RowsTyped, AuditRow, UploadRow
  <2> QED BY <1>1, <1>8, <2>1, <2>2 DEF RowsTyped, ServeAfterSweep
<1> QED BY <1>2, <1>3, <1>4, <1>5, <1>6, <1>7, <1>8 DEF RowStep

\* The files stay typed: what is linked is a request's body.
LEMMA DiskStaysTyped ==
    ASSUME Typed, [Next]_vars
    PROVE  DiskTyped'
<1>1. DiskTyped
  BY DEF Typed
<1>2. NoChunks \in [Chunk -> Body \cup {None}]
  BY DEF NoChunks
<1>3. CASE UNCHANGED disk
  BY <1>1, <1>3 DEF DiskTyped, disk
<1>4. ASSUME NEW w \in Worker, WorkerStep(w) PROVE DiskTyped'
  <2> DEFINE u == req[w].upload
             c == req[w].chunk
  <2>1. req[w] \in Request /\ RequestSound(req[w])
    BY DEF Typed, RequestsTyped, RequestsSound
  <2>2. req[w].pc \in ChunkPC => /\ u \in Upload /\ c \in Chunk
                                 /\ req[w].body \in Body
    BY <2>1 DEF RequestSound, ChunkPC, HoldingPC
  <2>3. {"link", "sync", "unlink"} \subseteq ChunkPC
    BY DEF ChunkPC
  <2>4. CASE LinkChunk(w)
    <3>1. UNCHANGED disk \/
          /\ chunkFile' = [chunkFile EXCEPT ![u][c] = req[w].body]
          /\ unsynced' = unsynced \cup {<<u, c>>}
          /\ UNCHANGED late
      BY <2>4 DEF LinkChunk
    <3>2. u \in Upload /\ c \in Chunk /\ req[w].body \in Body
      BY <2>2, <2>3, <2>4 DEF LinkChunk, At
    <3> QED BY <1>1, <1>3, <3>1, <3>2 DEF DiskTyped
  <2>5. CASE UnlinkChunk(w)
    BY <1>1, <2>5 DEF UnlinkChunk, DiskTyped
  <2>6. CASE SyncChunk(w)
    BY <1>1, <2>6 DEF SyncChunk, DiskTyped
  <2>7. CASE RemoveUploadDir(w)
    BY <1>1, <1>2, <2>7 DEF RemoveUploadDir, DiskTyped
  <2>8. CASE CancelBlocking(w)
    <3>1. req[w].pc \in {"link", "sync", "unlink"}
      BY <2>8 DEF CancelBlocking
    <3>2. [op |-> req[w].pc, upload |-> u, chunk |-> c,
           body |-> req[w].body] \in Blocking
      BY <2>2, <2>3, <3>1 DEF Blocking
    <3> QED BY <1>1, <2>8, <3>2 DEF CancelBlocking, DiskTyped
  <2>9. CASE \/ RequestCreate(w) \/ RequestExpiry(w) \/ RequestUpload(w)
             \/ RequestChunk(w) \/ FindExpired(w) \/ LockExpired(w)
             \/ FinishSweep(w) \/ Respond(w) \/ LockUpload(w)
             \/ AnswerFromRow(w) \/ ExpireCandidate(w) \/ PersistUpload(w)
    BY <1>3, <2>9 DEF RequestCreate, RequestExpiry, RequestUpload,
         RequestChunk, FindExpired, LockExpired, FinishSweep, Respond,
         LockUpload, AnswerFromRow, ExpireCandidate, PersistUpload
  <2>10. CASE \/ ExpireOnAccess(w) \/ AbandonUpload(w) \/ CheckChunk(w)
              \/ AnswerConflict(w) \/ RecordChunk(w) \/ RefreshStatus(w)
              \/ PrepareArtifacts(w) \/ CommitCompletion(w) \/ SyncFails(w)
              \/ Cancel(w)
    BY <1>3, <2>10 DEF ExpireOnAccess, AbandonUpload, CheckChunk,
         AnswerConflict, RecordChunk, RefreshStatus, PrepareArtifacts,
         CommitCompletion, SyncFails, Cancel
  <2> QED
    BY <1>4, <2>4, <2>5, <2>6, <2>7, <2>8, <2>9, <2>10
       DEF WorkerStep, RequestStep
<1>5. ASSUME NEW e \in late, FinishLate(e) PROVE DiskTyped'
  <2>1. e.upload \in Upload /\ e.chunk \in Chunk /\ e.body \in Body
    BY <1>1 DEF DiskTyped, Blocking
  <2> DEFINE x == IF /\ e.op = "link" /\ Open(e.upload)
                     /\ chunkFile[e.upload][e.chunk] = None
                  THEN e.body ELSE IF e.op = "unlink" THEN None
                  ELSE chunkFile[e.upload][e.chunk]
  <2>2. chunkFile' = [chunkFile EXCEPT ![e.upload] =
                         [chunkFile[e.upload] EXCEPT ![e.chunk] = x]]
    BY <1>5 DEF FinishLate
  <2>3. x \in Body \cup {None}
    BY <1>1, <2>1 DEF DiskTyped
  <2>4. unsynced' \subseteq unsynced \cup {<<e.upload, e.chunk>>}
    BY <1>5 DEF FinishLate
  <2>5. late' \subseteq late
    BY <1>5 DEF FinishLate
  <2> HIDE DEF x
  <2> QED BY <1>1, <2>1, <2>2, <2>3, <2>4, <2>5 DEF DiskTyped
<1>6. CASE Crash
  <2>1. CASE UNCHANGED <<chunkFile, unsynced>>
    BY <1>1, <1>6, <2>1 DEF Crash, DiskTyped
  <2>2. CASE ~UNCHANGED <<chunkFile, unsynced>>
    <3>1. PICK lost \in SUBSET unsynced :
             chunkFile' = [u \in Upload |-> [c \in Chunk |->
                 IF <<u, c>> \in lost THEN None ELSE chunkFile[u][c]]]
      BY <1>6, <2>2 DEF Crash
    <3>2. ASSUME NEW u \in Upload
          PROVE  [c \in Chunk |-> IF <<u, c>> \in lost THEN None
                                  ELSE chunkFile[u][c]]
                    \in [Chunk -> Body \cup {None}]
      BY <1>1 DEF DiskTyped
    <3>3. chunkFile' \in [Upload -> [Chunk -> Body \cup {None}]]
      BY <3>1, <3>2
    <3> QED BY <1>6, <2>2, <3>3 DEF Crash, DiskTyped
  <2> QED BY <2>1, <2>2
<1>7. CASE StartRecovery \/ Tick
  BY <1>3, <1>7 DEF StartRecovery, Tick
<1>8. ASSUME NEW u \in Upload, RecoverEnded(u) PROVE DiskTyped'
  BY <1>1, <1>2, <1>8 DEF RecoverEnded, DiskTyped
<1>9. ASSUME NEW u \in Upload, RecoverStatus(u) PROVE DiskTyped'
  BY <1>3, <1>9 DEF RecoverStatus
<1>10. ASSUME NEW u \in Upload, NEW c \in Chunk, RecoverChunk(u, c)
       PROVE  DiskTyped'
  BY <1>1, <1>10 DEF RecoverChunk, DiskTyped
<1>11. CASE ServeAfterSweep
  BY <1>1, <1>2, <1>11 DEF ServeAfterSweep, DiskTyped
<1>12. CASE UNCHANGED vars
  BY <1>3, <1>12 DEF vars, disk
<1> QED
  BY <1>4, <1>5, <1>6, <1>7, <1>8, <1>9, <1>10, <1>11, <1>12
     DEF Next, RecoveryStep, WorkerStep

-----------------------------------------------------------------------------
(* The core invariant *)

CoreInv == Typed /\ LocksHeld /\ ReadingsPast /\ RecoveryAlone /\ RowsDisjoint

\* The steps that belong to no request touch no request and no lock, except
\* that a crash ends them all.
LEMMA OtherSteps ==
    ASSUME [Next]_vars, \A w \in Worker : ~WorkerStep(w)
    PROVE  \/ UNCHANGED <<req, lock>> /\ clock' \in {clock, clock + 1}
           \/ Crash
<1>1. ASSUME NEW e \in late, FinishLate(e)
      PROVE  UNCHANGED <<req, lock, clock>>
  BY <1>1 DEF FinishLate, environment
<1>2. CASE StartRecovery \/ ServeAfterSweep \/ UNCHANGED vars
  BY <1>2 DEF StartRecovery, ServeAfterSweep, vars
<1>3. ASSUME NEW u \in Upload, RecoverEnded(u) \/ RecoverStatus(u)
      PROVE  UNCHANGED <<req, lock, clock>>
  BY <1>3 DEF RecoverEnded, RecoverStatus
<1>4. ASSUME NEW u \in Upload, NEW c \in Chunk, RecoverChunk(u, c)
      PROVE  UNCHANGED <<req, lock, clock>>
  BY <1>4 DEF RecoverChunk, environment
<1>5. CASE Tick
  BY <1>5 DEF Tick
<1> QED
  BY <1>1, <1>2, <1>3, <1>4, <1>5 DEF Next, RecoveryStep, WorkerStep

\* A crash ends every request.
LEMMA CrashIdles ==
    ASSUME Crash
    PROVE  /\ req' = [w \in Worker |-> Idle]
           /\ lock' = [s \in Stripe |-> None]
           /\ UNCHANGED <<rows, clock>>
           /\ server' = "down" /\ recovering' = {} /\ late' = {}
BY DEF Crash

\* A request leaves the environment alone, and works on a serving server.
LEMMA WorkersServe ==
    ASSUME NEW w \in Worker, WorkerStep(w)
    PROVE  /\ UNCHANGED environment
           /\ RecoveryAlone => server = "up"
<1>1. UNCHANGED environment
  BY DEF WorkerStep, RequestStep, RequestCreate, RequestExpiry, RequestUpload,
     RequestChunk, FindExpired, LockExpired, ExpireCandidate, FinishSweep,
     PersistUpload, Respond, LockUpload, AnswerFromRow, ExpireOnAccess,
     AbandonUpload, CheckChunk, LinkChunk, AnswerConflict, SyncChunk,
     UnlinkChunk, RecordChunk, RefreshStatus, PrepareArtifacts,
     CommitCompletion, RemoveUploadDir, SyncFails, Cancel, CancelBlocking
<1>2. req[w].pc # "idle" \/ server = "up"
  BY DEF WorkerStep, RequestStep, RequestCreate, RequestExpiry, RequestUpload,
     RequestChunk, FindExpired, LockExpired, ExpireCandidate, FinishSweep,
     PersistUpload, Respond, LockUpload, AnswerFromRow, ExpireOnAccess,
     AbandonUpload, CheckChunk, LinkChunk, AnswerConflict, SyncChunk,
     UnlinkChunk, RecordChunk, RefreshStatus, PrepareArtifacts,
     CommitCompletion, RemoveUploadDir, SyncFails, Cancel, CancelBlocking, At
<1> QED BY <1>1, <1>2 DEF RecoveryAlone

\* Requests, their locks and their readings of the clock.
LEMMA RequestsInv ==
    ASSUME Typed, LocksHeld, ReadingsPast, [Next]_vars
    PROVE  RequestsTyped' /\ LocksHeld' /\ ReadingsPast'
<1>1. RequestsTyped /\ clock \in Nat /\ clock <= clock + 1
  BY DEF Typed, EnvironmentTyped
<1>2. ASSUME NEW w \in Worker, WorkerStep(w)
      PROVE  RequestsTyped' /\ LocksHeld' /\ ReadingsPast'
  <2>1. Held(w) /\ Past(w)
    BY DEF LocksHeld, ReadingsPast, Held, Past
  <2>2. Moved(w)
    BY <1>2, <2>1, StepMoves
  <2>3. clock' = clock
    BY <1>2, WorkersServe DEF environment
  <2>4. ASSUME NEW v \in Worker \ {w}, req[v].pc \in HoldingPC
        PROVE  lock'[StripeOf[req[v].upload]] = v
    <3>1. RequestSound(req[v])
      BY <1>1 DEF RequestsTyped, RequestsSound
    <3>2. StripeOf[req[v].upload] \in Stripe
      BY <2>4, <3>1, TransferAssumption DEF RequestSound
    <3>3. lock[StripeOf[req[v].upload]] = v /\ v # None
      BY <2>4, TransferAssumption DEF LocksHeld
    <3> QED BY <2>2, <3>2, <3>3 DEF Moved
  <2>5. LocksHeld'
    BY <2>2, <2>4 DEF Moved, LocksHeld
  <2>6. ReadingsPast'
    BY <2>2, <2>3 DEF Moved, ReadingsPast
  <2> QED BY <2>2, <2>5, <2>6 DEF Moved
<1>3. CASE UNCHANGED <<req, lock>> /\ clock' \in {clock, clock + 1}
  <2>1. RequestsTyped' /\ LocksHeld'
    BY <1>1, <1>3 DEF RequestsTyped, RequestsSound, LocksHeld
  <2>2. \A w \in Worker : req[w].now \in Nat
    BY <1>1 DEF RequestsTyped, Request
  <2>3. ReadingsPast'
    BY <1>1, <1>3, <2>2 DEF ReadingsPast
  <2> QED BY <2>1, <2>3
<1>4. CASE Crash
  <2>1. /\ req' = [w \in Worker |-> Idle] /\ lock' = [s \in Stripe |-> None]
        /\ clock' = clock
    BY <1>4, CrashIdles
  <2>2. Idle.pc \notin HoldingPC /\ Idle.now <= clock
    BY <1>1 DEF Idle, HoldingPC
  <2>3. RequestsTyped'
    BY <2>1, IdleSound DEF RequestsTyped, RequestsSound
  <2> QED BY <2>1, <2>2, <2>3 DEF LocksHeld, ReadingsPast
<1> QED BY <1>2, <1>3, <1>4, OtherSteps

\* The server's state, and that recovery has it to itself.
LEMMA EnvironmentInv ==
    ASSUME Typed, RecoveryAlone, [Next]_vars
    PROVE  EnvironmentTyped' /\ RecoveryAlone'
<1>1. EnvironmentTyped /\ clock \in Nat /\ crashes \in Nat
  BY DEF Typed, EnvironmentTyped
<1>2. ASSUME NEW w \in Worker, WorkerStep(w)
      PROVE  EnvironmentTyped' /\ RecoveryAlone'
  <2>1. UNCHANGED environment /\ server = "up"
    BY <1>2, WorkersServe
  <2> QED BY <1>1, <2>1 DEF EnvironmentTyped, RecoveryAlone, environment
<1>3. ASSUME NEW e \in late, FinishLate(e)
      PROVE  EnvironmentTyped' /\ RecoveryAlone'
  BY <1>1, <1>3 DEF FinishLate, EnvironmentTyped, RecoveryAlone, environment
<1>4. CASE Crash
  <2>1. EnvironmentTyped'
    BY <1>1, <1>4 DEF Crash, EnvironmentTyped
  <2>2. RecoveryAlone'
    BY <1>4, CrashIdles DEF RecoveryAlone, Idle
  <2> QED BY <2>1, <2>2
<1>5. CASE StartRecovery \/ ServeAfterSweep \/ Tick
  BY <1>1, <1>5 DEF StartRecovery, ServeAfterSweep, Tick, disk,
                    EnvironmentTyped, RecoveryAlone
<1>6. ASSUME NEW u \in Upload, RecoverEnded(u) \/ RecoverStatus(u)
      PROVE  EnvironmentTyped' /\ RecoveryAlone'
  BY <1>1, <1>6 DEF RecoverEnded, RecoverStatus, disk, EnvironmentTyped,
                    RecoveryAlone
<1>7. ASSUME NEW u \in Upload, NEW c \in Chunk, RecoverChunk(u, c)
      PROVE  EnvironmentTyped' /\ RecoveryAlone'
  BY <1>1, <1>7 DEF RecoverChunk, environment, EnvironmentTyped, RecoveryAlone
<1>8. CASE UNCHANGED vars
  BY <1>1, <1>8 DEF vars, EnvironmentTyped, RecoveryAlone
<1> QED
  BY <1>2, <1>3, <1>4, <1>5, <1>6, <1>7, <1>8
     DEF Next, RecoveryStep, WorkerStep

\* What one upload's rows become.
RowKept(u) == UNCHANGED <<upload[u], audit[u], accepted[u]>>
RowEnded(u) ==
    /\ Open(u)
    /\ upload'[u] = NoUpload
    /\ audit'[u].capture = upload[u].capture
    /\ audit'[u].manifest = upload[u].manifest
    /\ audit'[u].reason \in {"abandoned", "expired"}
    /\ audit'[u].reason = "expired" => upload[u].expires <= clock
    /\ accepted'[u] = NoChunks

\* Ending one upload, seen from every upload.
LEMMA EndsRows ==
    ASSUME RowsTyped, NEW u \in Upload, Ends(u), NEW v \in Upload
    PROVE  IF v = u THEN RowEnded(v) ELSE RowKept(v)
BY DEF RowsTyped, Ends, Terminalize, RowEnded, RowKept

\* The sweep at start-up, seen from every upload.
LEMMA SweepRows ==
    ASSUME RowsTyped, ServeAfterSweep, NEW v \in Upload
    PROVE  RowEnded(v) \/ RowKept(v)
BY DEF RowsTyped, ServeAfterSweep, Candidates, IsExpired, RowEnded, RowKept

\* A new status, seen from every upload.
LEMMA RestatesRows ==
    ASSUME RowsTyped, NEW u \in Upload, Restates(u), NEW v \in Upload
    PROVE  /\ UNCHANGED <<audit[v], accepted[v], upload[v].capture,
                          upload[v].manifest, upload[v].expires>>
           /\ IF v = u THEN Open(v) /\ upload'[v].status \in
                              {"created", "artifact_uploaded", "completed"}
                       ELSE RowKept(v)
<1>1. PICK s \in {"created", "artifact_uploaded", "completed"} :
         upload' = [upload EXCEPT ![u].status = s]
  BY DEF Restates
<1>2. upload[u] \in UploadRow /\ upload \in [Upload -> UploadRow]
  BY DEF RowsTyped
<1>3. upload'[u] = [upload[u] EXCEPT !.status = s]
  BY <1>1, <1>2
<1>4. /\ upload'[u].status = s
      /\ upload'[u].capture = upload[u].capture
      /\ upload'[u].manifest = upload[u].manifest
      /\ upload'[u].expires = upload[u].expires
  BY <1>2, <1>3 DEF UploadRow
<1>5. v # u => upload'[v] = upload[v]
  BY <1>1, <1>2
<1> QED BY <1>4, <1>5 DEF Restates, RowKept

\* A new row, seen from every upload.
LEMMA OpensRows ==
    ASSUME RowsTyped, NEW u \in Upload, NEW k \in Capture, NEW m \in Manifest,
           Opens(u, k, m), NEW v \in Upload
    PROVE  /\ UNCHANGED <<audit[v], accepted[v]>>
           /\ IF v = u
                THEN /\ upload'[v].status = IF ChunksOf[m] = {}
                                              THEN "artifact_uploaded"
                                              ELSE "created"
                     /\ upload'[v].capture = k
                     /\ upload'[v].manifest = m
                ELSE RowKept(v)
BY DEF RowsTyped, Opens, RowKept

\* Rows and audits exclude each other, and only a row has chunks.
LEMMA RowsDisjointInv ==
    ASSUME Typed, RowsDisjoint, RowStep
    PROVE  RowsDisjoint'
<1> USE DEF Ended, Issued, Open, RowSound
<1>1. RowsTyped
  BY DEF Typed
<1>2. SUFFICES ASSUME NEW v \in Upload PROVE RowSound(v)'
  BY DEF RowsDisjoint
<1>3. RowSound(v)
  BY DEF RowsDisjoint
<1>4. CASE RowKept(v)
  BY <1>3, <1>4 DEF RowKept
<1>5. CASE RowEnded(v)
  BY <1>5 DEF RowEnded, NoUpload
<1>6. ASSUME NEW u \in Upload, Restates(u) PROVE RowSound(v)'
  BY <1>1, <1>3, <1>4, <1>6, RestatesRows
<1>7. ASSUME NEW u \in Upload, NEW k \in Capture, NEW m \in Manifest,
             Opens(u, k, m)
      PROVE  RowSound(v)'
  <2>1. v # u => RowKept(v)
    BY <1>1, <1>7, OpensRows
  <2>2. v = u => /\ upload'[v].status # "absent" /\ audit'[v] = audit[v]
                 /\ upload'[v].manifest = m
    BY <1>1, <1>7, OpensRows
  <2>3. ~Issued(u)
    BY <1>7 DEF Opens
  <2> QED BY <1>4, <2>1, <2>2, <2>3
<1>8. ASSUME NEW w \in Worker, Accepts(w) PROVE RowSound(v)'
  <2>1. ~Issued(v) => v # req[w].upload
    BY <1>8 DEF Accepts
  <2>2. v # req[w].upload => accepted'[v] = accepted[v]
    BY <1>1, <1>8 DEF Accepts, RowsTyped
  <2> QED BY <1>3, <1>8, <2>1, <2>2 DEF Accepts
<1>9. ASSUME NEW u \in Upload, NEW c \in Chunk, RecoverChunk(u, c)
      PROVE  RowSound(v)'
  <2>1. ~Issued(v) => v # u
    BY <1>9 DEF RecoverChunk
  <2>2. v # u => accepted'[v] = accepted[v]
    BY <1>1, <1>9 DEF RecoverChunk, RowsTyped
  <2>3. UNCHANGED <<upload, audit>>
    BY <1>9 DEF RecoverChunk
  <2> QED BY <1>3, <2>1, <2>2, <2>3
<1>10. CASE UNCHANGED rows
  BY <1>4, <1>10 DEF rows, RowKept
<1> QED
  BY <1>1, <1>4, <1>5, <1>6, <1>7, <1>8, <1>9, <1>10, EndsRows, SweepRows
     DEF RowStep

\* The core invariant is inductive.
THEOREM CoreInvariant == Spec => []CoreInv
<1>1. Init => CoreInv
  <2> SUFFICES ASSUME Init PROVE CoreInv
    OBVIOUS
  <2>1. RowsTyped
    BY DEF Init, RowsTyped, UploadRow, AuditRow, NoUpload, NoAudit, NoChunks,
           Status
  <2>2. DiskTyped
    BY DEF Init, DiskTyped, NoChunks
  <2>3. RequestsTyped
    BY IdleSound DEF Init, RequestsTyped, RequestsSound
  <2>4. EnvironmentTyped
    BY DEF Init, EnvironmentTyped
  <2>5. LocksHeld /\ ReadingsPast /\ RecoveryAlone
    BY DEF Init, LocksHeld, ReadingsPast, RecoveryAlone, Idle, HoldingPC
  <2>6. RowsDisjoint
    BY DEF Init, RowsDisjoint, RowSound, Ended, NoUpload, NoAudit, NoChunks
  <2> QED BY <2>1, <2>2, <2>3, <2>4, <2>5, <2>6 DEF CoreInv, Typed
<1>2. CoreInv /\ [Next]_vars => CoreInv'
  <2> SUFFICES ASSUME CoreInv, [Next]_vars PROVE CoreInv'
    OBVIOUS
  <2>1. Typed /\ LocksHeld /\ ReadingsPast /\ RecoveryAlone /\ RowsDisjoint
    BY DEF CoreInv
  <2>2. RowStep
    BY <2>1, RowSteps
  <2>3. RowsTyped' /\ RowsDisjoint'
    BY <2>1, <2>2, RowsStayTyped, RowsDisjointInv
  <2>4. DiskTyped'
    BY <2>1, DiskStaysTyped
  <2>5. RequestsTyped' /\ LocksHeld' /\ ReadingsPast'
    BY <2>1, RequestsInv
  <2>6. EnvironmentTyped' /\ RecoveryAlone'
    BY <2>1, EnvironmentInv
  <2> QED BY <2>3, <2>4, <2>5, <2>6 DEF CoreInv, Typed
<1> QED BY <1>1, <1>2, PTL DEF Spec

\* Rows, files, requests and locks have their types in every reachable state:
\* in particular every file operation that outlives its request names an
\* upload, a chunk and a body.
THEOREM TransferTypes == Spec => []TypeOK
<1>1. CoreInv => TypeOK
  BY TypedMeans DEF CoreInv
<1> QED BY <1>1, CoreInvariant, PTL

-----------------------------------------------------------------------------
(* The fate of an upload *)

\* A completed or ended upload is never touched again, by whatever sweep,
\* retry, abandonment or recovery.
THEOREM FatesFinal == Spec => FatesAreFinal
<1> DEFINE Same(u) ==
             /\ upload[u].status = "completed" => UNCHANGED <<upload[u], audit[u]>>
             /\ Ended(u) => UNCHANGED <<upload[u], audit[u]>>
<1>1. ASSUME CoreInv, [Next]_vars, NEW v \in Upload PROVE Same(v)
  <2>1. Typed /\ RowsTyped /\ RowStep
    BY <1>1, RowSteps DEF CoreInv, Typed
  <2>2. Ended(v) => upload[v].status = "absent"
    BY <1>1 DEF CoreInv, RowsDisjoint, RowSound
  <2>3. CASE RowKept(v)
    BY <2>3 DEF RowKept
  <2>4. Open(v) => Same(v)
    BY <2>2 DEF Open
  <2>5. CASE RowEnded(v)
    BY <2>4, <2>5 DEF RowEnded
  <2>6. ASSUME NEW u \in Upload, Restates(u) PROVE Same(v)
    BY <2>1, <2>3, <2>4, <2>6, RestatesRows
  <2>7. ASSUME NEW u \in Upload, NEW k \in Capture, NEW m \in Manifest,
               Opens(u, k, m)
        PROVE  Same(v)
    <3>1. v # u => RowKept(v)
      BY <2>1, <2>7, OpensRows
    <3>2. ~Issued(u)
      BY <2>7 DEF Opens
    <3> QED BY <2>3, <3>1, <3>2 DEF Issued, Ended
  <2>8. ASSUME NEW w \in Worker, Accepts(w) PROVE Same(v)
    BY <2>8 DEF Accepts
  <2>9. ASSUME NEW u \in Upload, NEW c \in Chunk, RecoverChunk(u, c)
        PROVE  Same(v)
    BY <2>9 DEF RecoverChunk
  <2>10. CASE UNCHANGED rows
    BY <2>3, <2>10 DEF rows, RowKept
  <2> QED
    BY <2>1, <2>3, <2>5, <2>6, <2>7, <2>8, <2>9, <2>10, EndsRows, SweepRows
       DEF RowStep
<1>2. CoreInv /\ [Next]_vars => [\A u \in Upload : Same(u)]_vars
  BY <1>1
<1> QED BY <1>2, CoreInvariant, PTL DEF Spec, FatesAreFinal

\* No sweep, request or restart ends an upload as expired before its time.
THEOREM ExpiryNotEarly == Spec => NoEarlyExpiry
<1> DEFINE OnTime(u) == ~Ended(u) /\ audit'[u].reason = "expired"
                           => upload[u].expires <= clock
<1>1. ASSUME CoreInv, [Next]_vars, NEW v \in Upload PROVE OnTime(v)
  <2>1. Typed /\ RowsTyped /\ RowStep
    BY <1>1, RowSteps DEF CoreInv, Typed
  <2>2. CASE audit'[v] = audit[v]
    BY <2>2 DEF Ended
  <2>3. CASE RowEnded(v)
    BY <2>3 DEF RowEnded
  <2>4. ASSUME NEW u \in Upload, Restates(u) PROVE OnTime(v)
    BY <2>1, <2>2, <2>4, RestatesRows
  <2>5. ASSUME NEW u \in Upload, NEW k \in Capture, NEW m \in Manifest,
               Opens(u, k, m)
        PROVE  OnTime(v)
    BY <2>1, <2>2, <2>5, OpensRows
  <2>6. CASE \/ UNCHANGED rows \/ \E w \in Worker : Accepts(w)
             \/ \E u \in Upload, c \in Chunk : RecoverChunk(u, c)
    BY <2>2, <2>6 DEF rows, Accepts, RecoverChunk
  <2>7. RowKept(v) => audit'[v] = audit[v]
    BY DEF RowKept
  <2> QED
    BY <2>1, <2>2, <2>3, <2>4, <2>5, <2>6, <2>7, EndsRows, SweepRows
       DEF RowStep
<1>2. CoreInv /\ [Next]_vars => [\A u \in Upload : OnTime(u)]_vars
  BY <1>1
<1> QED BY <1>2, CoreInvariant, PTL DEF Spec, NoEarlyExpiry

-----------------------------------------------------------------------------
(* Capture ids *)

\* An issued upload keeps its capture id and its manifest for ever; a new one
\* agrees with every earlier one of its capture id.
LEMMA IssuedKept ==
    ASSUME CoreInv, [Next]_vars, NEW v \in Upload, Issued(v)'
    PROVE  \/ /\ Issued(v)
              /\ CaptureOf(v)' = CaptureOf(v)
              /\ ManifestOf(v)' = ManifestOf(v)
           \/ \E k \in Capture, m \in Manifest :
                 /\ Opens(v, k, m)
                 /\ CaptureOf(v)' = k
                 /\ ManifestOf(v)' = m
<1> USE DEF Issued, CaptureOf, ManifestOf, Ended
<1>1. Typed /\ RowsTyped /\ RowStep
  BY RowSteps DEF CoreInv, Typed
<1>2. Ended(v) => upload[v].status = "absent"
  BY DEF CoreInv, RowsDisjoint, RowSound
<1>3. CASE RowKept(v)
  BY <1>3 DEF RowKept
<1>4. CASE RowEnded(v)
  BY <1>2, <1>4 DEF RowEnded, Open
<1>5. ASSUME NEW u \in Upload, Restates(u)
      PROVE  /\ Issued(v)
             /\ CaptureOf(v)' = CaptureOf(v)
             /\ ManifestOf(v)' = ManifestOf(v)
  <2>1. v # u => RowKept(v)
    BY <1>1, <1>5, RestatesRows
  <2>2. /\ UNCHANGED <<audit[v], upload[v].capture, upload[v].manifest>>
        /\ v = u => Open(v)
    BY <1>1, <1>5, RestatesRows
  <2> QED BY <2>1, <2>2 DEF Open, RowKept
<1>6. ASSUME NEW u \in Upload, NEW k \in Capture, NEW m \in Manifest,
             Opens(u, k, m)
      PROVE  \/ RowKept(v)
             \/ Opens(v, k, m) /\ CaptureOf(v)' = k /\ ManifestOf(v)' = m
  <2>1. v # u => RowKept(v)
    BY <1>1, <1>6, OpensRows
  <2>2. v = u => /\ audit'[v] = audit[v]
                 /\ upload'[v].capture = k /\ upload'[v].manifest = m
    BY <1>1, <1>6, OpensRows
  <2>3. ~Issued(u)
    BY <1>6 DEF Opens
  <2> QED BY <1>6, <2>1, <2>2, <2>3
<1>7. CASE \/ UNCHANGED rows \/ \E w \in Worker : Accepts(w)
           \/ \E u \in Upload, c \in Chunk : RecoverChunk(u, c)
  BY <1>7 DEF rows, Accepts, RecoverChunk
<1> QED
  BY <1>1, <1>3, <1>4, <1>5, <1>6, <1>7, EndsRows, SweepRows DEF RowStep

\* The manifest of a new upload is that of every earlier upload with its
\* capture id: the open and completed ones are excluded, and the audit that the
\* code consults speaks for all ended ones.
LEMMA OpensAgrees ==
    ASSUME CoreInv, CaptureNamesOneManifest,
           NEW u \in Upload, NEW k \in Capture, NEW m \in Manifest,
           Opens(u, k, m), NEW v \in Upload, Issued(v), CaptureOf(v) = k
    PROVE  ManifestOf(v) = m
<1>1. Ended(v) /\ audit[v].capture = k
  BY DEF Opens, Issued, CaptureOf
<1>2. PICK a \in PriorAudit(k) : audit[a].manifest = m
  BY <1>1 DEF Opens, ReuseIsEquivalent
<1>3. a \in Upload /\ Ended(a) /\ audit[a].capture = k
  BY <1>2 DEF PriorAudit
<1>4. ManifestOf(a) = m /\ CaptureOf(a) = k /\ Issued(a)
  BY <1>2, <1>3 DEF ManifestOf, CaptureOf, Issued
<1> QED BY <1>3, <1>4 DEF CaptureNamesOneManifest

\* A capture id names one manifest for ever, for any number of uploads and
\* however their requests interleave.  The newest audit is chosen by the order
\* of the timestamps' texts, but any of them would do.
THEOREM CapturesNameOneManifest == Spec => []CaptureNamesOneManifest
<1>1. Init => CaptureNamesOneManifest
  BY DEF Init, CaptureNamesOneManifest, Issued, Ended, NoUpload, NoAudit
<1>2. CoreInv /\ CaptureNamesOneManifest /\ [Next]_vars
         => CaptureNamesOneManifest'
  <2> SUFFICES ASSUME CoreInv, CaptureNamesOneManifest, [Next]_vars,
                      NEW u \in Upload, NEW v \in Upload,
                      Issued(u)', Issued(v)', CaptureOf(u)' = CaptureOf(v)'
               PROVE  ManifestOf(u)' = ManifestOf(v)'
    BY DEF CaptureNamesOneManifest
  <2> DEFINE Old(x) == /\ Issued(x)
                       /\ CaptureOf(x)' = CaptureOf(x)
                       /\ ManifestOf(x)' = ManifestOf(x)
             New(x) == \E k \in Capture, m \in Manifest :
                          /\ Opens(x, k, m)
                          /\ CaptureOf(x)' = k
                          /\ ManifestOf(x)' = m
  <2>1. (Old(u) \/ New(u)) /\ (Old(v) \/ New(v))
    BY IssuedKept
  <2>2. CASE Old(u) /\ Old(v)
    BY <2>2 DEF CaptureNamesOneManifest
  <2>3. CASE New(u) /\ Old(v)
    <3>1. PICK k \in Capture, m \in Manifest :
             Opens(u, k, m) /\ CaptureOf(u)' = k /\ ManifestOf(u)' = m
      BY <2>3
    <3>2. Issued(v) /\ CaptureOf(v) = k
      BY <2>3, <3>1
    <3>3. ManifestOf(v) = m
      BY <3>1, <3>2, OpensAgrees
    <3> QED BY <2>3, <3>1, <3>3
  <2>4. CASE Old(u) /\ New(v)
    <3>1. PICK k \in Capture, m \in Manifest :
             Opens(v, k, m) /\ CaptureOf(v)' = k /\ ManifestOf(v)' = m
      BY <2>4
    <3>2. Issued(u) /\ CaptureOf(u) = k
      BY <2>4, <3>1
    <3>3. ManifestOf(u) = m
      BY <3>1, <3>2, OpensAgrees
    <3> QED BY <2>4, <3>1, <3>3
  <2>5. CASE New(u) /\ New(v)
    <3>1. PICK k \in Capture, m \in Manifest : Opens(u, k, m)
      BY <2>5
    <3>2. PICK l \in Capture, n \in Manifest : Opens(v, l, n)
      BY <2>5
    <3>3. ~Issued(u) /\ ~Issued(v)
      BY <3>1, <3>2 DEF Opens
    <3>4. v # u => RowKept(v)
      BY <3>1, OpensRows DEF CoreInv, Typed
    <3>5. v # u => FALSE
      BY <3>3, <3>4 DEF RowKept, Issued, Ended
    <3> QED BY <3>5
  <2> QED BY <2>1, <2>2, <2>3, <2>4, <2>5
<1> QED BY <1>1, <1>2, CoreInvariant, PTL DEF Spec

-----------------------------------------------------------------------------
(* The status of an upload *)

\* How an upload comes to be treated.
LEMMA TreatedSteps ==
    ASSUME [Next]_vars, NEW v \in Upload, Treated(v)', ~Treated(v)
    PROVE  \/ StartRecovery /\ ~Issued(v)
           \/ RecoverEnded(v) \/ RecoverStatus(v)
<1> USE DEF Treated
<1>1. ASSUME UNCHANGED <<server, recovering>> PROVE FALSE
  BY <1>1
<1>2. ASSUME NEW w \in Worker, WorkerStep(w) PROVE FALSE
  BY <1>1, <1>2, WorkersServe DEF environment
<1>3. ASSUME NEW e \in late, FinishLate(e) PROVE FALSE
  BY <1>1, <1>3 DEF FinishLate, environment
<1>4. ASSUME Crash \/ Tick \/ UNCHANGED vars PROVE FALSE
  BY <1>4 DEF Crash, Tick, vars
<1>5. CASE StartRecovery
  BY <1>5 DEF StartRecovery
<1>6. ASSUME ServeAfterSweep PROVE FALSE
  BY <1>6 DEF ServeAfterSweep
<1>7. ASSUME NEW u \in Upload, NEW c \in Chunk, RecoverChunk(u, c) PROVE FALSE
  BY <1>1, <1>7 DEF RecoverChunk, environment
<1>8. ASSUME NEW u \in Upload, RecoverEnded(u) \/ RecoverStatus(u)
      PROVE  u = v
  BY <1>8 DEF RecoverEnded, RecoverStatus
<1> QED
  BY <1>2, <1>3, <1>4, <1>5, <1>6, <1>7, <1>8
     DEF Next, RecoveryStep, WorkerStep

\* An accepted body is no null.
LEMMA AcceptsRows ==
    ASSUME Typed, NEW w \in Worker, Accepts(w), NEW v \in Upload,
           NEW c \in Chunk
    PROVE  /\ UNCHANGED <<upload[v], audit[v]>>
           /\ req[w].upload \in Upload /\ req[w].chunk \in Chunk
           /\ req[w].body \in Body /\ req[w].body # None
           /\ IF v = req[w].upload /\ c = req[w].chunk
                THEN accepted'[v][c] = req[w].body
                ELSE accepted'[v][c] = accepted[v][c]
<1>1. RequestSound(req[w]) /\ req[w].pc = "record"
  BY DEF Typed, RequestsTyped, RequestsSound, Accepts, At
<1>2. /\ req[w].upload \in Upload /\ req[w].chunk \in Chunk
      /\ req[w].body \in Body /\ req[w].body # None
  BY <1>1, TransferAssumption DEF RequestSound, ChunkPC, HoldingPC
<1>3. accepted \in [Upload -> [Chunk -> Body \cup {None}]]
  BY DEF Typed, RowsTyped
<1> QED BY <1>2, <1>3 DEF Accepts

\* An upload that reports all its chunks has them: a step gives the status to
\* an upload that has them all, and takes a chunk only from an upload that
\* recovery has yet to treat.
LEMMA StatusStays ==
    ASSUME CoreInv, StatusSound, [Next]_vars
    PROVE  StatusSound'
<1> SUFFICES ASSUME NEW v \in Upload, Treated(v)',
                    upload'[v].status = "artifact_uploaded"
             PROVE  AllAccepted(v)'
  BY DEF StatusSound
<1>1. Typed /\ RowsTyped /\ RowStep
  BY RowSteps DEF CoreInv, Typed
<1>2. ASSUME UNCHANGED <<upload[v].manifest, accepted[v]>>, AllAccepted(v)
      PROVE  AllAccepted(v)'
  BY <1>2 DEF AllAccepted
<1>3. CASE ~Treated(v)
  <2>1. CASE StartRecovery /\ ~Issued(v)
    BY <2>1 DEF StartRecovery, rows, Issued
  <2>2. CASE RecoverEnded(v)
    BY <2>2 DEF RecoverEnded, rows, Open
  <2>3. CASE RecoverStatus(v)
    <3>1. upload' = [upload EXCEPT ![v].status = StatusFor(v)]
      BY <2>3 DEF RecoverStatus
    <3>2. upload'[v] = [upload[v] EXCEPT !.status = StatusFor(v)]
      BY <1>1, <3>1 DEF RowsTyped
    <3>3. /\ upload'[v].status = StatusFor(v)
          /\ upload'[v].manifest = upload[v].manifest
      BY <1>1, <3>2, upload[v] \in UploadRow DEF RowsTyped, UploadRow
    <3>4. AllAccepted(v)
      BY <3>3 DEF StatusFor
    <3> QED BY <1>2, <2>3, <3>3, <3>4 DEF RecoverStatus
  <2> QED BY <1>3, <2>1, <2>2, <2>3, TreatedSteps
<1>4. CASE Treated(v)
  <2>1. upload[v].status = "artifact_uploaded" => AllAccepted(v)
    BY <1>4 DEF StatusSound
  <2>2. CASE RowKept(v)
    BY <1>2, <2>1, <2>2 DEF RowKept
  <2>3. CASE RowEnded(v)
    BY <2>3 DEF RowEnded, NoUpload
  <2>4. ASSUME NEW u \in Upload, Restates(u) PROVE AllAccepted(v)'
    <3>1. v # u => RowKept(v)
      BY <1>1, <2>4, RestatesRows
    <3>2. UNCHANGED <<upload[v].manifest, accepted[v]>>
      BY <1>1, <2>4, RestatesRows
    <3>3. v = u => AllAccepted(v)
      <4>1. PICK s \in {"created", "artifact_uploaded", "completed"} :
              /\ upload' = [upload EXCEPT ![u].status = s]
              /\ s = "artifact_uploaded" => AllAccepted(u)
        BY <2>4 DEF Restates
      <4>2. upload'[u] = [upload[u] EXCEPT !.status = s]
        BY <1>1, <4>1 DEF RowsTyped
      <4>3. upload'[u].status = s
        BY <1>1, <4>2, upload[u] \in UploadRow DEF RowsTyped, UploadRow
      <4> QED BY <4>1, <4>3
    <3> QED BY <1>2, <2>2, <3>1, <3>2, <3>3
  <2>5. ASSUME NEW u \in Upload, NEW k \in Capture, NEW m \in Manifest,
               Opens(u, k, m)
        PROVE  AllAccepted(v)'
    <3>1. v # u => RowKept(v)
      BY <1>1, <2>5, OpensRows
    <3>2. v = u => upload'[v].manifest = m /\ ChunksOf[m] = {}
      BY <1>1, <2>5, OpensRows
    <3> QED BY <2>2, <3>1, <3>2 DEF AllAccepted
  <2>6. ASSUME NEW w \in Worker, Accepts(w) PROVE AllAccepted(v)'
    <3>1. upload'[v] = upload[v]
      BY <2>6 DEF Accepts
    <3>2. AllAccepted(v)
      BY <2>1, <3>1
    <3>3. ASSUME NEW c \in Chunk, accepted[v][c] # None
          PROVE  accepted'[v][c] # None
      BY <1>1, <2>6, <3>3, AcceptsRows
    <3>4. upload[v].manifest \in Manifest
      BY <3>1 DEF CoreInv, RowsDisjoint, RowSound
    <3>5. ChunksOf[upload[v].manifest] \subseteq Chunk
      BY <3>4, TransferAssumption
    <3> QED BY <3>1, <3>2, <3>3, <3>5 DEF AllAccepted
  <2>7. ASSUME NEW u \in Upload, NEW c \in Chunk, RecoverChunk(u, c)
        PROVE  AllAccepted(v)'
    <3>1. v # u
      BY <1>4, <2>7 DEF RecoverChunk, Treated
    <3>2. RowKept(v)
      BY <1>1, <2>7, <3>1 DEF RecoverChunk, RowsTyped, RowKept
    <3> QED BY <2>2, <3>2
  <2>8. CASE UNCHANGED rows
    BY <2>2, <2>8 DEF rows, RowKept
  <2> QED
    BY <1>1, <2>2, <2>3, <2>4, <2>5, <2>6, <2>7, <2>8, EndsRows, SweepRows
       DEF RowStep
<1> QED BY <1>3, <1>4

\* An upload reported as uploaded has every chunk of its manifest, also when
\* recovery deleted rows and whatever requests interleave.
THEOREM UploadedIsComplete == Spec => []UploadedMeansAllAccepted
<1>1. Init => StatusSound
  BY DEF Init, StatusSound, NoUpload
<1>2. CoreInv /\ StatusSound /\ [Next]_vars => StatusSound'
  BY StatusStays
<1>3. StatusSound => UploadedMeansAllAccepted
  <2> SUFFICES ASSUME StatusSound, server = "up", NEW u \in Upload,
                      upload[u].status = "artifact_uploaded"
               PROVE  AllAccepted(u)
    BY DEF UploadedMeansAllAccepted
  <2>1. Treated(u)
    BY DEF Treated
  <2> QED BY <2>1 DEF StatusSound
<1> QED BY <1>1, <1>2, <1>3, CoreInvariant, PTL DEF Spec

-----------------------------------------------------------------------------
(* Chunk files *)

\* All the ways in which the linked files change.
FileStep ==
    \/ UNCHANGED chunkFile
    \/ \E w \in Worker : \/ LinkChunk(w) /\ chunkFile[req[w].upload][req[w].chunk]
                                              = None
                         \/ UnlinkChunk(w) \/ RemoveUploadDir(w)
    \/ \E e \in late : FinishLate(e)
    \/ Crash \/ ServeAfterSweep
    \/ \E u \in Upload : RecoverEnded(u) \/ \E c \in Chunk : RecoverChunk(u, c)

\* These are all of them.
LEMMA FileSteps ==
    ASSUME [Next]_vars
    PROVE  FileStep
<1> USE DEF FileStep
<1>1. ASSUME NEW w \in Worker, WorkerStep(w) PROVE FileStep
  <2>1. CASE LinkChunk(w)
    BY <2>1 DEF LinkChunk, disk
  <2>2. CASE UnlinkChunk(w) \/ RemoveUploadDir(w)
    BY <2>2
  <2>3. CASE \/ RequestCreate(w) \/ RequestExpiry(w) \/ RequestUpload(w)
             \/ RequestChunk(w) \/ FindExpired(w) \/ LockExpired(w)
             \/ FinishSweep(w) \/ Respond(w) \/ LockUpload(w)
             \/ AnswerFromRow(w) \/ ExpireCandidate(w) \/ PersistUpload(w)
    BY <2>3 DEF RequestCreate, RequestExpiry, RequestUpload,
         RequestChunk, FindExpired, LockExpired, FinishSweep, Respond,
         LockUpload, AnswerFromRow, ExpireCandidate, PersistUpload, disk
  <2>4. CASE \/ ExpireOnAccess(w) \/ AbandonUpload(w) \/ CheckChunk(w)
             \/ AnswerConflict(w) \/ RecordChunk(w) \/ RefreshStatus(w)
             \/ PrepareArtifacts(w) \/ CommitCompletion(w) \/ SyncFails(w)
             \/ Cancel(w) \/ SyncChunk(w) \/ CancelBlocking(w)
    BY <2>4 DEF ExpireOnAccess, AbandonUpload, CheckChunk,
         AnswerConflict, RecordChunk, RefreshStatus, PrepareArtifacts,
         CommitCompletion, SyncFails, Cancel, SyncChunk, CancelBlocking, disk
  <2> QED BY <1>1, <2>1, <2>2, <2>3, <2>4 DEF WorkerStep, RequestStep
<1>2. CASE StartRecovery \/ Tick \/ UNCHANGED vars
  BY <1>2 DEF StartRecovery, Tick, vars, disk
<1>3. ASSUME NEW u \in Upload, RecoverStatus(u) PROVE FileStep
  BY <1>3 DEF RecoverStatus, disk
<1> QED BY <1>1, <1>2, <1>3 DEF Next, RecoveryStep, WorkerStep

\* Two requests that hold locks work on different uploads.
LEMMA UploadsDiffer ==
    ASSUME CoreInv, NEW v \in Worker, NEW w \in Worker, v # w,
           req[v].pc \in HoldingPC, req[w].pc \in HoldingPC
    PROVE  req[v].upload # req[w].upload
BY DEF CoreInv, LocksHeld

\* What a file operation that outlived its request does to one file.
LEMMA LateFiles ==
    ASSUME Typed, NEW e \in late, FinishLate(e), e.op # "unlink",
           NEW u \in Upload, NEW c \in Chunk,
           chunkFile'[u][c] # chunkFile[u][c]
    PROVE  chunkFile[u][c] = None
<1>1. e.upload \in Upload /\ e.chunk \in Chunk
  BY DEF Typed, DiskTyped, Blocking
<1>2. chunkFile \in [Upload -> [Chunk -> Body \cup {None}]]
  BY DEF Typed, DiskTyped
<1> DEFINE x == IF /\ e.op = "link" /\ Open(e.upload)
                   /\ chunkFile[e.upload][e.chunk] = None
                THEN e.body ELSE chunkFile[e.upload][e.chunk]
<1>3. chunkFile' = [chunkFile EXCEPT ![e.upload] =
                       [chunkFile[e.upload] EXCEPT ![e.chunk] = x]]
  BY DEF FinishLate
<1>4. x # chunkFile[e.upload][e.chunk] => chunkFile[e.upload][e.chunk] = None
  OBVIOUS
<1> HIDE DEF x
<1> QED BY <1>1, <1>2, <1>3, <1>4

\* The files of an upload whose lock a request holds: another request changes
\* none of them, and a late link replaces none.
LEMMA FilesOfOthers ==
    ASSUME CoreInv, NoLateUnlink, [Next]_vars,
           NEW v \in Worker, req[v].pc \in HoldingPC,
           ~Crash, ~WorkerStep(v),
           NEW c \in Chunk, chunkFile[req[v].upload][c] # None
    PROVE  chunkFile'[req[v].upload][c] = chunkFile[req[v].upload][c]
<1> DEFINE u == req[v].upload
<1>1. /\ Typed /\ RecoveryAlone
      /\ chunkFile \in [Upload -> [Chunk -> Body \cup {None}]]
  BY DEF CoreInv, Typed, DiskTyped
<1>2. u \in Upload
  BY DEF CoreInv, Typed, RequestsTyped, RequestsSound, RequestSound
<1>3. server = "up"
  BY <1>1 DEF RecoveryAlone, HoldingPC
<1>4. ASSUME NEW w \in Worker, WorkerStep(w), req[w].pc \in HoldingPC
      PROVE  req[w].upload # u
  BY <1>4, UploadsDiffer
<1>5. {"link", "unlink", "removeDir"} \subseteq HoldingPC
  BY DEF HoldingPC
<1>6. ASSUME NEW w \in Worker,
             LinkChunk(w) \/ UnlinkChunk(w) \/ RemoveUploadDir(w)
      PROVE  chunkFile'[u] = chunkFile[u]
  <2>1. req[w].upload # u
    BY <1>4, <1>5, <1>6
       DEF WorkerStep, RequestStep, LinkChunk, UnlinkChunk, RemoveUploadDir, At
  <2> QED
    BY <1>1, <1>2, <1>6, <2>1 DEF LinkChunk, UnlinkChunk, RemoveUploadDir, disk
<1>7. ASSUME NEW e \in late, FinishLate(e)
      PROVE  chunkFile'[u][c] = chunkFile[u][c]
  BY <1>1, <1>2, <1>7, LateFiles DEF NoLateUnlink
<1>8. ASSUME \/ ServeAfterSweep
             \/ \E x \in Upload : \/ RecoverEnded(x)
                                  \/ \E d \in Chunk : RecoverChunk(x, d)
      PROVE  FALSE
  BY <1>3, <1>8 DEF ServeAfterSweep, RecoverEnded, RecoverChunk
<1> HIDE DEF u
<1>9. chunkFile'[u][c] = chunkFile[u][c]
  BY <1>6, <1>7, <1>8, FileSteps DEF FileStep
<1> QED BY <1>9 DEF u

\* What a request knows survives the steps of the others: whoever records or
\* removes a chunk of its upload needs the lock.
LEMMA KnowsOthers ==
    ASSUME CoreInv, FilesKnown, NoLateUnlink, [Next]_vars, ~Crash,
           NEW v \in Worker, ~WorkerStep(v), req'[v] = req[v]
    PROVE  Knows(v)'
<1> DEFINE u == req[v].upload
           c == req[v].chunk
<1>1. Typed /\ RowsTyped /\ RowStep /\ RecoveryAlone
  BY RowSteps DEF CoreInv, Typed
<1>2. Knows(v)
  BY DEF FilesKnown
<1>3. RequestSound(req[v])
  BY <1>1 DEF Typed, RequestsTyped, RequestsSound
<1>4. CASE req[v].pc \in {"link", "sync", "unlink", "record", "removeDir"}
  <2>1. req[v].pc \in HoldingPC /\ u \in Upload /\ server = "up"
    BY <1>1, <1>3, <1>4 DEF RequestSound, HoldingPC, RecoveryAlone
  <2>2. req[v].pc # "removeDir" => c \in Chunk /\ req[v].body \in Body
    BY <1>3, <1>4 DEF RequestSound, ChunkPC
  <2>3. ASSUME NEW w \in Worker, Accepts(w), req[v].pc # "record"
        PROVE  req[w].upload # u
    BY <2>1, <2>3, UploadsDiffer DEF Accepts, At, HoldingPC
  <2>4. ~ServeAfterSweep /\ \A x \in Upload, d \in Chunk : ~RecoverChunk(x, d)
    BY <2>1 DEF ServeAfterSweep, RecoverChunk
  <2>5. ASSUME req[v].pc \in {"link", "sync", "unlink"}
        PROVE  accepted'[u][c] = None
    <3>1. accepted[u][c] = None /\ c \in Chunk
      BY <1>2, <2>2, <2>5 DEF Knows
    <3>2. RowKept(u) => accepted'[u][c] = None
      BY <3>1 DEF RowKept
    <3>3. RowEnded(u) => accepted'[u][c] = None
      BY <3>1 DEF RowEnded, NoChunks
    <3>4. ASSUME NEW w \in Worker, Accepts(w) PROVE accepted'[u][c] = None
      BY <1>1, <2>1, <2>3, <2>5, <3>1, <3>4, AcceptsRows
    <3>5. UNCHANGED rows => RowKept(u)
      BY DEF rows, RowKept
    <3> HIDE DEF u, c
    <3>6. ASSUME NEW x \in Upload, Restates(x) PROVE accepted'[u][c] = None
      BY <1>1, <2>1, <3>1, <3>6, RestatesRows
    <3>7. ASSUME NEW x \in Upload, NEW k \in Capture, NEW m \in Manifest,
                 Opens(x, k, m)
          PROVE  accepted'[u][c] = None
      BY <1>1, <2>1, <3>1, <3>7, OpensRows
    <3>8. ASSUME NEW x \in Upload, Ends(x) PROVE accepted'[u][c] = None
      BY <1>1, <2>1, <3>2, <3>3, <3>8, EndsRows
    <3> QED BY <1>1, <2>4, <3>2, <3>4, <3>5, <3>6, <3>7, <3>8 DEF RowStep
  <2>6. ASSUME req[v].pc \in {"sync", "record"}
        PROVE  chunkFile'[u][c] = req[v].body
    <3>1. chunkFile[u][c] = req[v].body /\ c \in Chunk
      BY <1>2, <2>2, <2>6 DEF Knows
    <3>2. chunkFile[u][c] # None
      BY <2>2, <2>6, <3>1, TransferAssumption
    <3> QED BY <2>1, <3>1, <3>2, FilesOfOthers
  <2>7. ASSUME req[v].pc = "removeDir"
        PROVE  Issued(u)' /\ ~Open(u)'
    <3>1. Issued(u) /\ ~Open(u)
      BY <1>2, <2>7 DEF Knows
    <3>2. RowKept(u) => Issued(u)' /\ ~Open(u)'
      BY <3>1 DEF RowKept, Issued, Ended, Open
    <3>3. ~RowEnded(u)
      BY <3>1 DEF RowEnded
    <3>4. UNCHANGED <<upload, audit>> => Issued(u)' /\ ~Open(u)'
      BY <3>1 DEF Issued, Ended, Open
    <3>5. ASSUME NEW w \in Worker, Accepts(w) PROVE UNCHANGED <<upload, audit>>
      BY <3>5 DEF Accepts
    <3>6. UNCHANGED rows => UNCHANGED <<upload, audit>>
      BY DEF rows
    <3> HIDE DEF u
    <3>7. ASSUME NEW x \in Upload, Restates(x) PROVE RowKept(u)
      <4>1. x # u
        BY <3>1, <3>7 DEF Restates
      <4> QED BY <1>1, <2>1, <3>7, <4>1, RestatesRows
    <3>8. ASSUME NEW x \in Upload, NEW k \in Capture, NEW m \in Manifest,
                 Opens(x, k, m)
          PROVE  RowKept(u)
      <4>1. x # u
        BY <3>1, <3>8 DEF Opens
      <4> QED BY <1>1, <2>1, <3>8, <4>1, OpensRows
    <3>9. ASSUME NEW x \in Upload, Ends(x) PROVE RowKept(u)
      <4>1. x # u
        BY <3>1, <3>9 DEF Ends
      <4> QED BY <1>1, <2>1, <3>9, <4>1, EndsRows
    <3> QED
      BY <1>1, <2>4, <3>2, <3>4, <3>5, <3>6, <3>7, <3>8, <3>9 DEF RowStep
  <2> QED BY <2>5, <2>6, <2>7 DEF Knows
<1>5. CASE req[v].pc \notin {"link", "sync", "unlink", "record", "removeDir"}
  BY <1>5 DEF Knows
<1> QED BY <1>4, <1>5

\* A request that moves knows what its own step has shown it.
LEMMA KnowsMover ==
    ASSUME CoreInv, FilesKnown, NEW w \in Worker, WorkerStep(w)
    PROVE  Knows(w)'
<1>u. PICK u : u = req[w].upload
  OBVIOUS
<1>c. PICK c : c = req[w].chunk
  OBVIOUS
<1> USE <1>u, <1>c DEF At
<1>1. /\ RequestsTyped /\ RowsTyped /\ clock \in Nat
      /\ accepted \in [Upload -> [Chunk -> Body \cup {None}]]
      /\ chunkFile \in [Upload -> [Chunk -> Body \cup {None}]]
      /\ upload \in [Upload -> UploadRow]
      /\ audit \in [Upload -> AuditRow]
  BY DEF CoreInv, Typed, EnvironmentTyped, RowsTyped, DiskTyped
<1>2. /\ Held(w) /\ Past(w) /\ Knows(w)
      /\ req[w] \in Request /\ RequestSound(req[w])
  BY <1>1 DEF CoreInv, LocksHeld, ReadingsPast, FilesKnown, Held, Past,
              RequestsTyped, RequestsSound
<1>3. /\ req[w].pc \in HoldingPC => u \in Upload
      /\ req[w].pc \in ChunkPC => c \in Chunk
  BY <1>2 DEF RequestSound
<1>4. /\ {"link", "sync", "unlink", "record", "refresh", "conflict", "commit",
          "removeDir"} \subseteq PC
      /\ {"check", "sweepCheck", "commit", "removeDir"} \cup ChunkPC
            \subseteq HoldingPC
      /\ {"link", "sync", "unlink", "record", "refresh", "conflict"} = ChunkPC
  BY DEF PC, HoldingPC, ChunkPC
<1>5. ASSUME req'[w].pc \notin {"link", "sync", "unlink", "record", "removeDir"}
      PROVE  Knows(w)'
  BY <1>5 DEF Knows
<1>6. ASSUME Finish(w) PROVE Knows(w)'
  <2>1. req'[w] = Idle
    BY <1>1, <1>6, FinishSound DEF RequestsTyped
  <2> QED BY <1>5, <2>1 DEF Idle
<1>7. ASSUME NEW pc \in PC, GoTo(w, pc)
      PROVE  req'[w].pc = pc /\ req'[w].upload = u /\ req'[w].chunk = c
             /\ req'[w].body = req[w].body
  BY <1>1, <1>2, <1>7 DEF GoTo, Update, RequestsTyped, Request
<1>8. ASSUME GoTo(w, "sweepNext") \/ GoTo(w, "persist") PROVE Knows(w)'
  BY <1>5, <1>7, <1>8 DEF PC
<1>9. ASSUME Open(u), NEW reason \in {"abandoned", "expired"},
             Terminalize(u, reason), GoTo(w, "removeDir"), u \in Upload
      PROVE  Knows(w)'
  <2>1. Ended(u)' /\ ~Open(u)'
    BY <1>1, <1>9 DEF Terminalize, Ended, Open, NoUpload
  <2> QED BY <1>4, <1>7, <1>9, <2>1 DEF Knows, Issued
<1>10. CASE \/ RequestCreate(w) \/ RequestExpiry(w) \/ RequestUpload(w)
            \/ RequestChunk(w)
  <2>1. req'[w].pc \in {"sweepStart", "lock"}
    BY <1>1, <1>10 DEF RequestCreate, RequestExpiry, RequestUpload,
       RequestChunk, Update, Idle, RequestsTyped
  <2> QED BY <1>5, <2>1
<1>11. CASE FindExpired(w) \/ LockExpired(w) \/ LockUpload(w) \/ PersistUpload(w)
  <2>1. CASE FindExpired(w) \/ LockUpload(w)
    <3>1. CASE FindExpired(w)
      <4> DEFINE T == Candidates(req[w].now)
      <4>1. Update(w, [req[w] EXCEPT !.pc = "sweepNext", !.todo = T])
        BY <3>1 DEF FindExpired
      <4> HIDE DEF T
      <4>2. req'[w].pc = "sweepNext"
        BY <1>1, <1>2, <4>1 DEF Update, RequestsTyped, Request
      <4> QED BY <1>5, <4>2
    <3>2. CASE LockUpload(w)
      BY <1>5, <1>7, <3>2 DEF LockUpload, PC
    <3> QED BY <2>1, <3>1, <3>2
  <2>3. CASE LockExpired(w)
    <3>1. PICK x \in req[w].todo :
             Update(w, [req[w] EXCEPT !.pc = "sweepCheck", !.upload = x,
                                      !.todo = @ \ {x}])
      BY <2>3 DEF LockExpired
    <3>2. req'[w].pc = "sweepCheck"
      BY <1>1, <1>2, <3>1 DEF Update, RequestsTyped, Request
    <3> QED BY <1>5, <3>2
  <2>2. CASE PersistUpload(w)
    <3>1. \/ Finish(w)
          \/ \E x \in Upload : Update(w, [req[w] EXCEPT !.pc = "respond",
                                                        !.upload = x])
      BY <2>2 DEF PersistUpload
    <3>2. ASSUME NEW x \in Upload,
                 Update(w, [req[w] EXCEPT !.pc = "respond", !.upload = x])
          PROVE  req'[w].pc = "respond"
      BY <1>1, <1>2, <3>2 DEF Update, RequestsTyped, Request
    <3> QED BY <1>5, <1>6, <3>1, <3>2
  <2> QED BY <1>11, <2>1, <2>2, <2>3
<1>12. CASE ExpireCandidate(w) \/ ExpireOnAccess(w) \/ AbandonUpload(w)
  <2>1. u \in Upload
    BY <1>3, <1>4, <1>12 DEF ExpireCandidate, ExpireOnAccess, AbandonUpload
  <2>2. \/ GoTo(w, "sweepNext")
        \/ /\ Open(u) /\ GoTo(w, "removeDir")
           /\ Terminalize(u, "expired") \/ Terminalize(u, "abandoned")
    BY <1>12 DEF ExpireCandidate, ExpireOnAccess, AbandonUpload
  <2> QED BY <1>8, <1>9, <2>1, <2>2
<1>13. CASE FinishSweep(w) \/ RemoveUploadDir(w)
  BY <1>6, <1>8, <1>13 DEF FinishSweep, RemoveUploadDir
<1>14. CASE \/ Respond(w) \/ AnswerFromRow(w) \/ AnswerConflict(w)
            \/ UnlinkChunk(w) \/ RefreshStatus(w) \/ Cancel(w)
            \/ CancelBlocking(w)
  BY <1>6, <1>14 DEF Respond, AnswerFromRow, AnswerConflict, UnlinkChunk,
     RefreshStatus, Cancel, CancelBlocking
<1>15. CASE CheckChunk(w)
  <2>1. UNCHANGED accepted
    BY <1>15 DEF CheckChunk, rows
  <2>2. Finish(w) \/ (GoTo(w, "link") /\ accepted[u][c] = None)
    BY <1>15 DEF CheckChunk
  <2> QED BY <1>4, <1>6, <1>7, <2>1, <2>2 DEF Knows
<1>16. CASE LinkChunk(w)
  <2>1. u \in Upload /\ c \in Chunk /\ accepted[u][c] = None
    BY <1>2, <1>3, <1>4, <1>16 DEF LinkChunk, Knows
  <2>2. UNCHANGED accepted
    BY <1>16 DEF LinkChunk, rows
  <2>3. CASE /\ chunkFile' = [chunkFile EXCEPT ![u][c] = req[w].body]
             /\ GoTo(w, "sync")
    <3>1. chunkFile'[u][c] = req[w].body
      BY <1>1, <2>1, <2>3
    <3> QED BY <1>4, <1>7, <2>1, <2>2, <2>3, <3>1 DEF Knows
  <2>4. CASE chunkFile[u][c] = req[w].body /\ GoTo(w, "record") /\ UNCHANGED disk
    BY <1>4, <1>7, <2>4 DEF Knows, disk
  <2>5. CASE GoTo(w, "conflict")
    BY <1>4, <1>5, <1>7, <2>5
  <2> QED BY <1>16, <2>3, <2>4, <2>5 DEF LinkChunk
<1>17. CASE SyncChunk(w) \/ SyncFails(w)
  <2>1. accepted[u][c] = None /\ chunkFile[u][c] = req[w].body
    BY <1>2, <1>17 DEF SyncChunk, SyncFails, Knows
  <2>2. UNCHANGED <<accepted, chunkFile>>
    BY <1>17 DEF SyncChunk, SyncFails, rows, disk
  <2>3. GoTo(w, "record") \/ GoTo(w, "unlink")
    BY <1>17 DEF SyncChunk, SyncFails
  <2> QED BY <1>4, <1>7, <2>1, <2>2, <2>3 DEF Knows
<1>18. CASE RecordChunk(w) \/ PrepareArtifacts(w)
  <2>1. Finish(w) \/ GoTo(w, "refresh") \/ GoTo(w, "commit")
    BY <1>18 DEF RecordChunk, PrepareArtifacts
  <2> QED BY <1>4, <1>5, <1>6, <1>7, <2>1
<1>19. CASE CommitCompletion(w)
  <2>1. u \in Upload
    BY <1>3, <1>4, <1>19 DEF CommitCompletion
  <2>2. CASE Finish(w)
    BY <1>6, <2>2
  <2>3. CASE /\ upload' = [upload EXCEPT ![u].status = "completed"]
             /\ GoTo(w, "removeDir")
    <3>1. upload'[u].status = "completed"
      BY <1>1, <2>1, <2>3 DEF UploadRow
    <3>2. Issued(u)' /\ ~Open(u)'
      BY <3>1 DEF Issued, Open
    <3> QED BY <1>4, <1>7, <2>3, <3>2 DEF Knows
  <2> QED BY <1>19, <2>2, <2>3 DEF CommitCompletion
<1> QED
  BY <1>10, <1>11, <1>12, <1>13, <1>14, <1>15, <1>16, <1>17, <1>18, <1>19
     DEF WorkerStep, RequestStep

\* The parts of the invariant about files that hold without rows.
LEMMA KnownStays ==
    ASSUME CoreInv, FilesKnown, NoLateUnlink, ~DetachedUnlink, [Next]_vars
    PROVE  FilesKnown' /\ NoLateUnlink'
<1>1. NoLateUnlink'
  <2>1. ASSUME NEW w \in Worker, CancelBlocking(w) PROVE NoLateUnlink'
    <3>1. req[w].pc # "unlink"
      BY <2>1 DEF CancelBlocking, At
    <3>2. late' = late \cup {[op |-> req[w].pc, upload |-> req[w].upload,
                              chunk |-> req[w].chunk, body |-> req[w].body]}
      BY <2>1 DEF CancelBlocking
    <3> QED BY <3>1, <3>2 DEF NoLateUnlink
  <2>2. CASE late' \subseteq late
    BY <2>2 DEF NoLateUnlink
  <2>3. ASSUME NEW w \in Worker, WorkerStep(w), ~CancelBlocking(w)
        PROVE  late' = late
    BY <2>3 DEF WorkerStep, RequestStep, RequestCreate, RequestExpiry,
       RequestUpload, RequestChunk, FindExpired, LockExpired, ExpireCandidate,
       FinishSweep, PersistUpload, Respond, LockUpload, AnswerFromRow,
       ExpireOnAccess, AbandonUpload, CheckChunk, LinkChunk, AnswerConflict,
       SyncChunk, UnlinkChunk, RecordChunk, RefreshStatus, PrepareArtifacts,
       CommitCompletion, RemoveUploadDir, SyncFails, Cancel, disk
  <2>4. ASSUME NEW e \in late, FinishLate(e) PROVE late' \subseteq late
    BY <2>4 DEF FinishLate
  <2>5. CASE Crash \/ StartRecovery \/ ServeAfterSweep \/ Tick \/ UNCHANGED vars
    BY <2>2, <2>5 DEF Crash, StartRecovery, ServeAfterSweep, Tick, disk, vars
  <2>6. ASSUME NEW u \in Upload, RecoverEnded(u) \/ RecoverStatus(u)
        PROVE  late' = late
    BY <2>6 DEF RecoverEnded, RecoverStatus, disk
  <2>7. ASSUME NEW u \in Upload, NEW c \in Chunk, RecoverChunk(u, c)
        PROVE  late' = late
    BY <2>7 DEF RecoverChunk
  <2> QED
    BY <2>1, <2>2, <2>3, <2>4, <2>5, <2>6, <2>7
       DEF Next, RecoveryStep, WorkerStep
<1>2. ASSUME NEW v \in Worker PROVE Knows(v)'
  <2>1. CASE WorkerStep(v)
    BY <2>1, KnowsMover
  <2>2. CASE Crash
    <3>1. req'[v].pc = "idle"
      BY <2>2, CrashIdles DEF Idle
    <3> QED BY <3>1 DEF Knows
  <2>3. CASE ~WorkerStep(v) /\ ~Crash
    <3>1. ASSUME NEW w \in Worker, WorkerStep(w) PROVE req'[v] = req[v]
      <4>1. Held(w) /\ Past(w) /\ Typed /\ w # v
        BY <2>3, <3>1 DEF CoreInv, LocksHeld, ReadingsPast, Held, Past
      <4> QED BY <3>1, <4>1, StepMoves DEF Moved
    <3>2. req'[v] = req[v]
      BY <2>3, <3>1, OtherSteps
    <3> QED BY <2>3, <3>2, KnowsOthers
  <2> QED BY <2>1, <2>2, <2>3
<1> QED BY <1>1, <1>2 DEF FilesKnown

\* Where a chunk's file changes, no accepted row of an open upload depends on
\* it.
LEMMA ChangedFiles ==
    ASSUME CoreInv, FilesKnown, NoLateUnlink, FilesSound, [Next]_vars,
           NEW v \in Upload, NEW c \in Chunk, Treated(v), Treated(v)',
           chunkFile'[v][c] # chunkFile[v][c], Open(v)'
    PROVE  accepted'[v][c] = None
<1>1. /\ Typed /\ RowsTyped
      /\ chunkFile \in [Upload -> [Chunk -> Body \cup {None}]]
      /\ \A w \in Worker : RequestSound(req[w])
  BY DEF CoreInv, Typed, DiskTyped, RequestsTyped, RequestsSound
<1>2. ASSUME NEW w \in Worker, LinkChunk(w) \/ UnlinkChunk(w)
      PROVE  accepted'[v][c] = None
  <2>1. v = req[w].upload /\ c = req[w].chunk
    BY <1>1, <1>2 DEF LinkChunk, UnlinkChunk, disk
  <2>2. accepted[v][c] = None
    BY <1>2, <2>1 DEF FilesKnown, Knows, LinkChunk, UnlinkChunk, At
  <2>3. UNCHANGED accepted
    BY <1>2 DEF LinkChunk, UnlinkChunk, rows
  <2> QED BY <2>2, <2>3
<1>3. ASSUME NEW w \in Worker, RemoveUploadDir(w) PROVE FALSE
  <2>1. v = req[w].upload
    BY <1>1, <1>3 DEF RemoveUploadDir
  <2>2. ~Open(v)
    BY <1>3, <2>1 DEF FilesKnown, Knows, RemoveUploadDir, At
  <2>3. Open(v)' <=> Open(v)
    BY <1>3 DEF RemoveUploadDir, rows, Open
  <2> QED BY <2>2, <2>3
<1>4. ASSUME NEW e \in late, FinishLate(e) PROVE accepted'[v][c] = None
  <2>1. chunkFile[v][c] = None
    BY <1>1, <1>4, LateFiles DEF NoLateUnlink
  <2>2. UNCHANGED rows
    BY <1>4 DEF FinishLate
  <2>3. Open(v)
    BY <2>2 DEF rows, Open
  <2>4. accepted[v][c] = None
    BY <2>1, <2>3 DEF FilesSound
  <2> QED BY <2>2, <2>4 DEF rows
<1>5. ~Crash
  BY DEF Crash, Treated
<1>6. ASSUME ServeAfterSweep PROVE FALSE
  BY <1>1, <1>6 DEF ServeAfterSweep, NoUpload, Open
<1>7. ASSUME NEW u \in Upload, RecoverEnded(u) PROVE FALSE
  <2>1. v = u
    BY <1>1, <1>7 DEF RecoverEnded
  <2> QED BY <1>7, <2>1 DEF RecoverEnded, Treated
<1>8. ASSUME NEW u \in Upload, NEW d \in Chunk, RecoverChunk(u, d) PROVE FALSE
  <2>1. v = u
    BY <1>1, <1>8 DEF RecoverChunk
  <2> QED BY <1>8, <2>1 DEF RecoverChunk, Treated
<1> QED BY <1>2, <1>3, <1>4, <1>5, <1>6, <1>7, <1>8, FileSteps DEF FileStep

\* Where a row's chunk changes, its file is known to agree.
LEMMA FilesStay ==
    ASSUME CoreInv, FilesKnown, NoLateUnlink, FilesSound, [Next]_vars
    PROVE  FilesSound'
<1> SUFFICES ASSUME NEW v \in Upload, NEW c \in Chunk,
                    Treated(v)', Open(v)', accepted'[v][c] # None
             PROVE  chunkFile'[v][c] = accepted'[v][c]
  BY DEF FilesSound
<1>1. Typed /\ RowsTyped /\ RowStep
  BY RowSteps DEF CoreInv, Typed
<1>2. CASE ~Treated(v)
  <2>1. CASE StartRecovery /\ ~Issued(v)
    BY <2>1 DEF StartRecovery, rows, Issued, Open
  <2>2. CASE RecoverEnded(v)
    BY <2>2 DEF RecoverEnded, rows, Open
  <2>3. CASE RecoverStatus(v)
    BY <2>3 DEF RecoverStatus, disk
  <2> QED BY <1>2, <2>1, <2>2, <2>3, TreatedSteps
<1>3. CASE Treated(v) /\ chunkFile'[v][c] # chunkFile[v][c]
  BY <1>3, ChangedFiles
<1>4. CASE Treated(v) /\ chunkFile'[v][c] = chunkFile[v][c]
  <2>1. Open(v) /\ accepted[v][c] # None => chunkFile[v][c] = accepted[v][c]
    BY <1>4 DEF FilesSound
  <2>2. ASSUME accepted'[v][c] = accepted[v][c], Open(v)
        PROVE  chunkFile'[v][c] = accepted'[v][c]
    BY <1>4, <2>1, <2>2
  <2>3. CASE RowKept(v)
    BY <2>2, <2>3 DEF RowKept, Open
  <2>4. ~RowEnded(v)
    BY DEF RowEnded, NoUpload, Open
  <2>5. ASSUME NEW u \in Upload, Restates(u)
        PROVE  chunkFile'[v][c] = accepted'[v][c]
    <3>1. v # u => RowKept(v)
      BY <1>1, <2>5, RestatesRows
    <3>2. v = u => accepted'[v] = accepted[v] /\ Open(v)
      BY <1>1, <2>5, RestatesRows
    <3> QED BY <2>2, <2>3, <3>1, <3>2
  <2>6. ASSUME NEW u \in Upload, NEW k \in Capture, NEW m \in Manifest,
               Opens(u, k, m)
        PROVE  RowKept(v)
    <3>1. v # u => RowKept(v)
      BY <1>1, <2>6, OpensRows
    <3>2. accepted'[v] = accepted[v]
      BY <1>1, <2>6, OpensRows
    <3>3. v # u
      BY <2>6, <3>2 DEF Opens, CoreInv, RowsDisjoint, RowSound
    <3> QED BY <3>1, <3>3
  <2>7. ASSUME NEW w \in Worker, Accepts(w)
        PROVE  chunkFile'[v][c] = accepted'[v][c]
    <3>1. upload'[v] = upload[v]
      BY <1>1, <2>7, AcceptsRows
    <3>2. CASE v = req[w].upload /\ c = req[w].chunk
      <4>1. accepted'[v][c] = req[w].body
        BY <1>1, <2>7, <3>2, AcceptsRows
      <4>2. chunkFile[v][c] = req[w].body
        BY <2>7, <3>2 DEF FilesKnown, Knows, Accepts, At
      <4> QED BY <1>4, <4>1, <4>2
    <3>3. CASE ~(v = req[w].upload /\ c = req[w].chunk)
      <4>1. accepted'[v][c] = accepted[v][c]
        BY <1>1, <2>7, <3>3, AcceptsRows
      <4> QED BY <2>2, <3>1, <4>1 DEF Open
    <3> QED BY <3>2, <3>3
  <2>8. ASSUME NEW u \in Upload, NEW d \in Chunk, RecoverChunk(u, d)
        PROVE  RowKept(v)
    <3>1. v # u
      BY <1>4, <2>8 DEF RecoverChunk, Treated
    <3> QED BY <1>1, <2>8, <3>1 DEF RecoverChunk, RowsTyped, RowKept
  <2>9. CASE UNCHANGED rows
    BY <2>3, <2>9 DEF rows, RowKept
  <2> QED
    BY <1>1, <2>3, <2>4, <2>5, <2>6, <2>7, <2>8, <2>9, EndsRows, SweepRows
       DEF RowStep
<1> QED BY <1>2, <1>3, <1>4

\* While the server serves, every accepted chunk of an open upload has its
\* file, for any number of racing requests, cancellations, failed syncs and
\* power losses, as long as no removal of a file outlives its request.
THEOREM AcceptedAreStored ==
    ASSUME ~DetachedUnlink
    PROVE  Spec => []AcceptedChunksStored
<1> DEFINE FileInv == FilesKnown /\ NoLateUnlink /\ FilesSound
<1>1. Init => FileInv
  <2> SUFFICES ASSUME Init PROVE FileInv
    OBVIOUS
  <2>1. FilesKnown
    BY DEF Init, FilesKnown, Knows, Idle
  <2>2. NoLateUnlink
    BY DEF Init, NoLateUnlink
  <2>3. FilesSound
    BY DEF Init, FilesSound, NoUpload, Open
  <2> QED BY <2>1, <2>2, <2>3
<1>2. CoreInv /\ FileInv /\ [Next]_vars => FileInv'
  BY KnownStays, FilesStay
<1>3. FileInv => AcceptedChunksStored
  BY DEF FilesSound, AcceptedChunksStored, Treated
<1> QED BY <1>1, <1>2, <1>3, CoreInvariant, PTL DEF Spec

=============================================================================
