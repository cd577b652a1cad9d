------------------------------ MODULE Listing ------------------------------
(***************************************************************************)
(* Traversal of the archive's collections, page by page, while captures    *)
(* are recorded and snapshots deleted between the pages.  A collection is  *)
(* a function from the ids of its rows to their sort keys, read by one SQL *)
(* query per page.                                                         *)
(*                                                                         *)
(* Sort keys are wall-clock readings taken before the transaction that     *)
(* records them (ingestion.rs, deletion.rs), and the wall clock may step   *)
(* back: a step may record any key, in particular one below rows that are  *)
(* already listed.                                                         *)
(***************************************************************************)
EXTENDS Naturals, FiniteSets

CONSTANTS
    Session, Snapshot, Capture, Artifact, \* UUIDs, ordered as numbers
    Client,
    SessionOf,     \* [Snapshot -> Session]
    SnapshotOf,    \* [Capture -> Snapshot]
    ArtifactOf,    \* [Artifact -> Snapshot]
    ClientOf,      \* [Capture -> Client]
    MaxKey,        \* bound on the sort keys
    MaxLimit,      \* MAX_PAGE_LIMIT
    Filter,        \* filters the traversals use, a set of FilterRecords
    None

Id == Session \cup Snapshot \cup Capture \cup Artifact
Key == 0 .. MaxKey
Limit == 1 .. MaxLimit

Kind == {"sessions", "snapshots", "captures", "snapshotCaptures", "manifests",
         "artifacts", "tombstones"}

\* SessionFilters, CaptureFilters, SnapshotFilters...; None when not given.
FilterRecord == [session : Session \cup {None}, snapshot : Snapshot \cup {None},
                 client : Client \cup {None}, from : Key, to : Key]

ASSUME ListingAssumption ==
    /\ Id \subseteq Nat
    /\ IsFiniteSet(Id)
    /\ SessionOf \in [Snapshot -> Session]
    /\ SnapshotOf \in [Capture -> Snapshot]
    /\ ArtifactOf \in [Artifact -> Snapshot]
    /\ ClientOf \in [Capture -> Client]
    /\ MaxKey \in Nat
    /\ MaxLimit \in Nat \ {0}
    /\ Filter \subseteq FilterRecord
    /\ None \notin Nat

VARIABLES
    snapshot,   \* [Snapshot -> Key or None]  completed_at_seq; None: no row
    tombstone,  \* [Snapshot -> Key or None]  deleted_at_seq; None: not deleted
    capture,    \* [Capture -> Key or None]   server_completed_at_seq
    latest,     \* [Session -> Snapshot or None]  session_latest_context
    list,       \* the client's traversal
    count,      \* history: [Id -> Nat] how often the traversal listed an id
    stable      \* history: rows of the first page's collection, unchanged since

archive == <<snapshot, tombstone, capture, latest>>
vars == <<snapshot, tombstone, capture, latest, list, count, stable>>

Boundary == [key : Key, id : Id]

\* The cursor the client holds (phase "open"): kind and filter_hash, the high
\* watermark, and the boundary of the last row returned.
Traversal == [kind : Kind, filter : Filter \cup {None},
              phase : {"idle", "first", "open", "done", "gone"},
              high : Boundary \cup {None}, after : Boundary \cup {None}]

TypeOK ==
    /\ snapshot \in [Snapshot -> Key \cup {None}]
    /\ tombstone \in [Snapshot -> Key \cup {None}]
    /\ capture \in [Capture -> Key \cup {None}]
    /\ latest \in [Session -> Snapshot \cup {None}]
    /\ list \in Traversal
    /\ list.phase # "idle" => list.filter \in Filter
    /\ list.phase = "open" => list.high \in Boundary /\ list.after \in Boundary
    /\ count \in [Id -> Nat]
    /\ stable \subseteq Id

Init ==
    /\ snapshot = [s \in Snapshot |-> None]
    /\ tombstone = [s \in Snapshot |-> None]
    /\ capture = [c \in Capture |-> None]
    /\ latest = [e \in Session |-> None]
    /\ list = [kind |-> "sessions", filter |-> None, phase |-> "idle",
               high |-> None, after |-> None]
    /\ count = [i \in Id |-> 0]
    /\ stable = {}

----------------------------------------------------------------------------
\* The collections.

Live(s) == snapshot[s] # None /\ tombstone[s] = None

InRange(key, f) == f.from <= key /\ key <= f.to

\* EXISTS (SELECT 1 FROM captures ... client_id = ?)
CapturedBy(s, f) ==
    f.client # None =>
        \E c \in Capture : /\ SnapshotOf[c] = s
                           /\ capture[c] # None
                           /\ ClientOf[c] = f.client

SnapshotMatches(s, f) ==
    /\ f.session # None => SessionOf[s] = f.session
    /\ f.snapshot # None => s = f.snapshot

\* list_sessions: a session is listed at its newest live snapshot.
SessionRows(f) ==
    [e \in {e \in Session : /\ latest[e] # None
                            /\ Live(latest[e])
                            /\ CapturedBy(latest[e], f)
                            /\ InRange(snapshot[latest[e]], f)}
        |-> snapshot[latest[e]]]

\* query_snapshot_rows
SnapshotRows(f) ==
    [s \in {s \in Snapshot : /\ Live(s)
                             /\ SnapshotMatches(s, f)
                             /\ CapturedBy(s, f)
                             /\ InRange(snapshot[s], f)} |-> snapshot[s]]

\* list_captures, list_session_captures, get_snapshot_captures
CaptureRows(f) ==
    [c \in {c \in Capture : /\ capture[c] # None
                            /\ Live(SnapshotOf[c])
                            /\ SnapshotMatches(SnapshotOf[c], f)
                            /\ f.client # None => ClientOf[c] = f.client
                            /\ InRange(capture[c], f)} |-> capture[c]]

\* list_manifests: one row for each capture, at the capture's boundary.
ManifestRows(f) ==
    [c \in {c \in Capture : /\ capture[c] # None
                            /\ Live(SnapshotOf[c])
                            /\ SnapshotMatches(SnapshotOf[c], f)}
        |-> capture[c]]

\* list_artifacts: all the artifacts of a snapshot have its key.
ArtifactRows(f) ==
    [a \in {a \in Artifact : /\ Live(ArtifactOf[a])
                             /\ SnapshotMatches(ArtifactOf[a], f)}
        |-> snapshot[ArtifactOf[a]]]

\* list_tombstones
TombstoneRows ==
    [s \in {s \in Snapshot : tombstone[s] # None} |-> tombstone[s]]

Rows(kind, f) ==
    CASE kind = "sessions" -> SessionRows(f)
      [] kind = "snapshots" -> SnapshotRows(f)
      [] kind \in {"captures", "snapshotCaptures"} -> CaptureRows(f)
      [] kind = "manifests" -> ManifestRows(f)
      [] kind = "artifacts" -> ArtifactRows(f)
      [] kind = "tombstones" -> TombstoneRows

\* The query parameters each collection has; the others are refused.
Accepts(kind, f) ==
    /\ f.session # None => kind \in {"snapshots", "captures", "manifests",
                                     "artifacts"}
    /\ f.snapshot # None => kind \in {"captures", "snapshotCaptures",
                                      "artifacts"}
    /\ kind = "snapshotCaptures" => f.snapshot # None
    /\ f.client # None => kind \in {"sessions", "snapshots", "captures"}
    /\ f.from <= f.to
    /\ <<f.from, f.to>> # <<0, MaxKey>> =>
            kind \in {"sessions", "snapshots", "captures"}

----------------------------------------------------------------------------
\* Archive steps between the pages.

\* The rows of the traversal that a step left alone.
Unmoved(before, after) ==
    {i \in stable : i \in DOMAIN before /\ i \in DOMAIN after
                    /\ after[i] = before[i]}

TrackStable ==
    stable' = IF list.filter = None THEN {}
              ELSE Unmoved(Rows(list.kind, list.filter),
                           Rows(list.kind, list.filter)')

\* The rows' order, newest first; ties are broken by the id.
Before(b, c) == b.key > c.key \/ (b.key = c.key /\ b.id > c.id)

\* upsert_session_latest_context: the WHERE of its ON CONFLICT clause.
Supersedes(s, key, e) ==
    latest[e] = None \/ Before([key |-> key, id |-> s],
                               [key |-> snapshot[latest[e]], id |-> latest[e]])

\* The transaction that records a capture: of a new snapshot, or one more of
\* a snapshot that is live.
RecordCapture(c, key) ==
    LET s == SnapshotOf[c]
        e == SessionOf[s]
        completed == IF snapshot[s] = None THEN key ELSE snapshot[s]
    IN  /\ capture[c] = None
        /\ tombstone[s] = None
        /\ capture' = [capture EXCEPT ![c] = key]
        /\ snapshot' = [snapshot EXCEPT ![s] = completed]
        /\ latest' = IF Supersedes(s, completed, e)
                     THEN [latest EXCEPT ![e] = s] ELSE latest
        /\ UNCHANGED <<tombstone, list, count>>
        /\ TrackStable

\* rebuild_session_latest_context, without the snapshot that is deleted.
Newest(e, gone) ==
    LET left == {s \in Snapshot \ {gone} : Live(s) /\ SessionOf[s] = e}
        newest == {s \in left : \A q \in left \ {s} :
                      Before([key |-> snapshot[s], id |-> s],
                             [key |-> snapshot[q], id |-> q])}
    IN  IF newest = {} THEN None ELSE CHOOSE s \in newest : TRUE

DeleteSnapshot(s, key) ==
    /\ Live(s)
    /\ tombstone' = [tombstone EXCEPT ![s] = key]
    /\ latest' = [latest EXCEPT ![SessionOf[s]] = Newest(SessionOf[s], s)]
    /\ UNCHANGED <<snapshot, capture, list, count>>
    /\ TrackStable

----------------------------------------------------------------------------
\* Pages.

BoundaryOf(rows, i) == [key |-> rows[i], id |-> i]

\* A mutant: the cursor's row is within the next page's bounds.
WithinBoundsOrAt(b, high, after) ==
    /\ b = high \/ Before(high, b)
    /\ b = after \/ Before(after, b)

\* append_descending_bounds: at or below the high watermark, strictly below
\* the last row returned.
WithinBounds(b, high, after) ==
    /\ b = high \/ Before(high, b)
    /\ Before(after, b)

\* ORDER BY key DESC, id DESC LIMIT n: the ids of the first n rows.
First(rows, ids, n) ==
    {i \in ids :
        Cardinality({j \in ids : Before(BoundaryOf(rows, j),
                                        BoundaryOf(rows, i))}) < n}

\* A mutant: the cursor is the look-ahead row.
CursorAtLookahead(rows, page, seen) ==
    {i \in seen : \A j \in seen \ {i} : Before(BoundaryOf(rows, j),
                                               BoundaryOf(rows, i))}

\* page_from_rows: the cursor is the last of the rows returned.
CursorRow(rows, page, seen) ==
    {i \in page : \A j \in page \ {i} : Before(BoundaryOf(rows, j),
                                               BoundaryOf(rows, i))}

\* A mutant: the watermark is only ever taken from the cursor.
HighFromCursor(rows, page) == {list.high}

\* page_from_rows: the first page's newest row bounds the whole traversal.
HighWatermark(rows, page) ==
    IF list.phase = "open" THEN {list.high}
    ELSE {BoundaryOf(rows, i) :
            i \in {i \in page : \A j \in page : ~Before(BoundaryOf(rows, j),
                                                        BoundaryOf(rows, i))}}

\* page_from_rows: limit + 1 rows were read, and there is a next cursor only
\* when the last of them is not returned.
PageFromRows(rows, ids, limit) ==
    LET page == First(rows, ids, limit)
        seen == First(rows, ids, limit + 1)
    IN  /\ count' = [i \in Id |-> IF i \in page THEN count[i] + 1 ELSE count[i]]
        /\ IF seen = page
           THEN list' = [list EXCEPT !.phase = "done"]
           ELSE \E i \in CursorRow(rows, page, seen),
                   high \in HighWatermark(rows, page) :
                   list' = [list EXCEPT !.phase = "open", !.high = high,
                                        !.after = BoundaryOf(rows, i)]

\* The client starts a traversal, and gives up the one it may be in.
Begin(kind, f) ==
    /\ Accepts(kind, f)
    /\ list' = [kind |-> kind, filter |-> f, phase |-> "first",
                high |-> None, after |-> None]
    /\ count' = [i \in Id |-> 0]
    /\ stable' = {}
    /\ UNCHANGED archive

\* get_snapshot_captures first looks the snapshot up.
Found == list.kind = "snapshotCaptures" => Live(list.filter.snapshot)

\* A page request without a cursor.
FirstPage(limit) ==
    LET rows == Rows(list.kind, list.filter)
    IN  /\ list.phase = "first"
        /\ Found
        /\ PageFromRows(rows, DOMAIN rows, limit)
        /\ stable' = DOMAIN rows
        /\ UNCHANGED archive

\* A page request with the cursor of the page before; the limit may differ.
\* parse_page has checked that the cursor is of this kind and filter_hash.
NextPage(limit) ==
    LET rows == Rows(list.kind, list.filter)
        ids == {i \in DOMAIN rows : WithinBounds(BoundaryOf(rows, i),
                                                 list.high, list.after)}
    IN  /\ list.phase = "open"
        /\ Found
        /\ PageFromRows(rows, ids, limit)
        /\ UNCHANGED stable
        /\ UNCHANGED archive

\* get_snapshot_captures: 404, the snapshot is not there or was deleted.
SnapshotNotFound ==
    /\ list.phase \in {"first", "open"}
    /\ ~Found
    /\ list' = [list EXCEPT !.phase = "gone"]
    /\ UNCHANGED <<count, stable>>
    /\ UNCHANGED archive

Next ==
    \/ \E c \in Capture, key \in Key : RecordCapture(c, key)
    \/ \E s \in Snapshot, key \in Key : DeleteSnapshot(s, key)
    \/ \E kind \in Kind, f \in Filter : Begin(kind, f)
    \/ \E limit \in Limit : FirstPage(limit) \/ NextPage(limit)
    \/ SnapshotNotFound

Spec == Init /\ [][Next]_vars

----------------------------------------------------------------------------
\* Properties.

\* A traversal that ends has listed exactly once every row that was in the
\* collection at its first page and kept its place until the end, whatever
\* was recorded or deleted, at whatever keys, between its pages.
TraversalExact ==
    list.phase = "done" => \A i \in stable : count[i] = 1

\* No row is listed twice in one traversal, in any collection whose rows keep
\* their sort key.  A session does not: when its newest snapshot is deleted it
\* falls back below the cursor, and is listed again.
NoRowTwice ==
    list.kind # "sessions" => \A i \in Id : count[i] <= 1
=============================================================================
