----------------------------- MODULE Downloads -----------------------------
(***************************************************************************)
(* Reads of one snapshot, or of one of its artifacts, from the archive of  *)
(* module Integrity while its requests go on.  A read is several queries   *)
(* with nothing to keep the snapshot between them, and a download opens    *)
(* the blob without its lock.  Two readers, or a reader and a scan, cannot *)
(* affect each other, so that one at a time is enough.                     *)
(***************************************************************************)
EXTENDS Integrity

VARIABLE read  \* the read in progress

readVars == <<vars, read>>

\* "gone" remembers that the snapshot was not live all the time (history);
\* "touched" that the opened file's metadata changed while it was hashed.
Read == [pc : {"idle", "row", "manifest", "rows", "artifacts", "open", "hash",
               "stream", "over"},
         of : {"snapshot", "artifact"},
         snapshot : Snapshot \cup {0}, digest : Digest \cup {0},
         gone : BOOLEAN, touched : BOOLEAN,
         answer : {"none", "ok", "torn", "not found", "internal", "integrity"}]

ReadTypeOK == TypeOK /\ read \in Read

NoRead == [pc |-> "idle", of |-> "snapshot", snapshot |-> 0, digest |-> 0,
           gone |-> FALSE, touched |-> FALSE, answer |-> "none"]

GotoRead(pc) == read' = [read EXCEPT !.pc = pc]
Answer(a) == read' = [read EXCEPT !.pc = "over", !.answer = a]
ReadIsLive == Live(read.snapshot)

\* A request for an artifact names it by an identifier the client has seen.
BeginRead(of, s, d) ==
    /\ read.pc = "idle" /\ scan.pc = "begin"
    /\ snap[s] # "none" /\ d \in Refs[s]
    /\ read' = [NoRead EXCEPT !.pc = "row", !.of = of, !.snapshot = s, !.digest = d,
                              !.gone = ~Live(s)]
    /\ UNCHANGED vars

\* The first query joins the live snapshot with its manifest (get_snapshot) or
\* with the artifact and its blob (download_artifact).
ReadRow ==
    /\ read.pc = "row"
    /\ IF ReadIsLive THEN GotoRead("manifest") ELSE Answer("not found")
    /\ UNCHANGED vars

\* reconcile_snapshot: a snapshot deleted meanwhile is absent to get_snapshot and
\* an integrity failure to download_artifact.
ReconcileRow ==
    /\ read.pc = "manifest"
    /\ IF ReadIsLive THEN GotoRead("rows")
       ELSE Answer(IF read.of = "snapshot" THEN "not found" ELSE "integrity")
    /\ UNCHANGED vars

\* Its second query: without artifacts the snapshot counts as drifted.
ReconcileRows ==
    /\ read.pc = "rows"
    /\ IF ReadIsLive THEN GotoRead(IF read.of = "snapshot" THEN "artifacts" ELSE "open")
       ELSE Answer(IF read.of = "snapshot" THEN "internal" ELSE "integrity")
    /\ UNCHANGED vars

\* snapshot_response lists the artifacts with one more query.
ReadArtifacts ==
    /\ read.pc = "artifacts"
    /\ Answer(IF ReadIsLive THEN "ok" ELSE "torn")
    /\ UNCHANGED vars

\* preflight_blob: the file is opened without the blob's lock, ...
OpenBlob ==
    /\ read.pc = "open"
    /\ IF file[read.digest] = "absent" THEN Answer("integrity") ELSE GotoRead("hash")
    /\ UNCHANGED vars

\* ... hashed, and its metadata compared with what they were before.
HashBlob ==
    /\ read.pc = "hash"
    /\ IF read.touched \/ file[read.digest] # "good"
         THEN Answer("integrity") ELSE GotoRead("stream")
    /\ UNCHANGED vars

\* The body comes from the open file, which an unlink no longer affects.
StreamBlob ==
    /\ read.pc = "stream"
    /\ Answer("ok")
    /\ UNCHANGED vars

ReadStep ==
    \/ \E of \in {"snapshot", "artifact"}, s \in Snapshot, d \in Digest :
          BeginRead(of, s, d)
    \/ ReadRow \/ ReconcileRow \/ ReconcileRows \/ ReadArtifacts
    \/ OpenBlob \/ HashBlob \/ StreamBlob

\* What a step does to the file that is being hashed: it is written to, or one of
\* its links goes, and with it its ctime.
Touches(d) == file'[d] # file[d] \/ (d \in staged /\ d \notin staged')

\* The archive moves on under the read.  Bound: a behaviour has one read or one
\* scan, and ends with it.
ArchiveStep ==
    /\ read.pc # "over" /\ scan.pc # "over"
    /\ Next
    /\ read.pc # "idle" => UNCHANGED scan
    /\ read' = IF read.pc = "idle" THEN read
               ELSE [read EXCEPT
                       !.gone = @ \/ snap'[read.snapshot] # "live",
                       !.touched = @ \/ (read.pc = "hash" /\ Touches(read.digest))]

ReadInit == Init /\ read = NoRead
ReadNext == ArchiveStep \/ ReadStep
ReadSpec == ReadInit /\ [][ReadNext]_readVars

-----------------------------------------------------------------------------
(* Properties *)

\* A snapshot that stays live for the time of a read is served, and so is each of
\* its artifacts unless a fault has touched the blob, or its file lost its link in
\* an upload's directory just then: no deletion of a snapshot with the same bytes,
\* and no collection, gets in the way.
LiveReadsSucceed ==
    read.pc = "over" /\ ~read.gone =>
        \/ read.answer = "ok"
        \/ read.of = "artifact" /\ (read.touched \/ read.digest \in harmed)

\* docs/self-hosting.md on artifact_integrity_failure, for an artifact that exists
\* all the time: "This is corruption, not absence".
IntegrityFailureIsCorruption ==
    read.answer = "integrity" /\ ~read.gone => read.digest \in harmed
=============================================================================
