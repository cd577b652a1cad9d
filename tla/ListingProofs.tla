--------------------------- MODULE ListingProofs ---------------------------
(***************************************************************************)
(* Proofs about traversals, for any number of rows, any keys, filters and  *)
(* limits: what page_from_rows cuts off is an initial part of the rows in  *)
(* their order, and so a traversal lists every row that stays put exactly  *)
(* once, and no row with a fixed key twice.                                *)
(***************************************************************************)
EXTENDS Listing, FiniteSetTheorems, WellFoundedInduction, TLAPS

-----------------------------------------------------------------------------
(* The order of the rows *)

\* Row j comes before row i.
Ahead(rows, j, i) == Before(BoundaryOf(rows, j), BoundaryOf(rows, i))

\* Rows whose keys and ids can be compared.
Sortable(rows, ids) ==
    /\ ids \subseteq Nat
    /\ IsFiniteSet(ids)
    /\ \A i \in ids : rows[i] \in Nat

\* The rows of a page that come before row i.
AheadOf(rows, ids, i) == {j \in ids : Ahead(rows, j, i)}

\* Boundaries are ordered strictly: by descending key, then descending id.
LEMMA BeforeOrder ==
  ASSUME NEW b, NEW c, NEW d,
         b.key \in Nat, b.id \in Nat, c.key \in Nat, c.id \in Nat,
         d.key \in Nat, d.id \in Nat
  PROVE  /\ ~(Before(b, c) /\ Before(c, b))
         /\ Before(b, c) /\ Before(c, d) => Before(b, d)
         /\ ~Before(b, c) /\ Before(b, d) => Before(c, d)
         /\ b.id # c.id => Before(b, c) \/ Before(c, b)
  BY DEF Before

\* The rows of a collection are ordered strictly and totally.
LEMMA AheadOrder ==
  ASSUME NEW rows, NEW ids, Sortable(rows, ids),
         NEW i \in ids, NEW j \in ids, NEW k \in ids
  PROVE  /\ ~Ahead(rows, i, i)
         /\ ~(Ahead(rows, i, j) /\ Ahead(rows, j, i))
         /\ Ahead(rows, i, j) /\ Ahead(rows, j, k) => Ahead(rows, i, k)
         /\ i # j => Ahead(rows, i, j) \/ Ahead(rows, j, i)
  BY DEF Sortable, Ahead, BoundaryOf, Before

\* How many rows come before a row is a number, and less for rows further ahead.
LEMMA AheadCount ==
  ASSUME NEW rows, NEW ids, Sortable(rows, ids), NEW i \in ids
  PROVE  /\ IsFiniteSet(AheadOf(rows, ids, i))
         /\ Cardinality(AheadOf(rows, ids, i)) \in Nat
         /\ \A j \in ids : Ahead(rows, j, i) =>
               Cardinality(AheadOf(rows, ids, j)) < Cardinality(AheadOf(rows, ids, i))
<1>1. IsFiniteSet(ids)
  BY DEF Sortable
<1>2. ASSUME NEW j \in ids
      PROVE  /\ IsFiniteSet(AheadOf(rows, ids, j))
             /\ Cardinality(AheadOf(rows, ids, j)) \in Nat
  <2>1. AheadOf(rows, ids, j) \in SUBSET ids
    BY DEF AheadOf
  <2>2. IsFiniteSet(AheadOf(rows, ids, j))
    BY <1>1, <2>1, FS_Subset
  <2> QED BY <2>2, FS_CardinalityType
<1>3. ASSUME NEW j \in ids, Ahead(rows, j, i)
      PROVE  Cardinality(AheadOf(rows, ids, j)) < Cardinality(AheadOf(rows, ids, i))
  <2>1. AheadOf(rows, ids, j) \in SUBSET AheadOf(rows, ids, i)
    BY <1>3, AheadOrder DEF AheadOf
  <2>2. j \in AheadOf(rows, ids, i) /\ j \notin AheadOf(rows, ids, j)
    BY <1>3, AheadOrder DEF AheadOf
  <2>3. /\ Cardinality(AheadOf(rows, ids, j)) <= Cardinality(AheadOf(rows, ids, i))
        /\ Cardinality(AheadOf(rows, ids, j)) # Cardinality(AheadOf(rows, ids, i))
    BY <1>2, <2>1, <2>2, FS_Subset
  <2> QED BY <1>2, <2>3
<1> QED BY <1>2, <1>3

\* A set of numbers has a least element.
LEMMA LeastNumber ==
  ASSUME NEW T, T \subseteq Nat, T # {}
  PROVE  \E x \in T : \A y \in T : x <= y
<1>1. PICK x \in T : \A y \in T : ~(<<y, x>> \in OpToRel(<, Nat))
  BY NatLessThanWellFounded, WFMin, Zenon
<1>2. ASSUME NEW y \in T PROVE x <= y
  <2>1. ~(y < x)
    BY <1>1 DEF OpToRel
  <2> QED BY <2>1
<1> QED BY <1>2

-----------------------------------------------------------------------------
(* What the LIMIT of the query cuts off *)

\* A page is an initial part of the rows.
LEMMA FirstIsPrefix ==
  ASSUME NEW rows, NEW ids, Sortable(rows, ids), NEW n \in Nat
  PROVE  /\ First(rows, ids, n) \subseteq ids
         /\ \A i \in ids, k \in First(rows, ids, n) :
               Ahead(rows, i, k) => i \in First(rows, ids, n)
<1>1. First(rows, ids, n) = {i \in ids : Cardinality(AheadOf(rows, ids, i)) < n}
  BY DEF First, AheadOf, Ahead
<1> QED BY <1>1, AheadCount

\* At most n rows are returned.
LEMMA FirstIsBounded ==
  ASSUME NEW rows, NEW ids, Sortable(rows, ids), NEW n \in Nat
  PROVE  /\ IsFiniteSet(First(rows, ids, n))
         /\ Cardinality(First(rows, ids, n)) <= n
<1> DEFINE page == First(rows, ids, n)
           rank(i) == Cardinality(AheadOf(rows, ids, i))
<1>1. page = {i \in ids : rank(i) < n}
  BY DEF First, AheadOf, Ahead
<1>2. \A i \in ids : rank(i) \in Nat
  BY AheadCount
<1>3. IsFiniteSet(page)
  BY <1>1, FS_Subset DEF Sortable
<1>4. CASE page = {}
  BY <1>4, FS_EmptySet
<1>5. CASE page # {}
  <2> DEFINE slack == {n - rank(i) : i \in page}
  <2>1. slack \subseteq Nat /\ slack # {}
    BY <1>1, <1>2, <1>5
  <2>2. PICK x \in slack : \A y \in slack : x <= y
    BY <2>1, LeastNumber
  <2>3. PICK k \in page : x = n - rank(k)
    BY <2>2
  <2>4. ASSUME NEW j \in page PROVE rank(j) <= rank(k)
    <3>1. n - rank(k) <= n - rank(j)
      BY <2>2, <2>3
    <3>2. rank(j) \in Nat /\ rank(k) \in Nat
      BY <1>1, <1>2
    <3> HIDE DEF rank
    <3> QED BY <3>1, <3>2
  <2>5. page \in SUBSET (AheadOf(rows, ids, k) \cup {k})
    <3> SUFFICES ASSUME NEW j \in page, j # k PROVE Ahead(rows, j, k)
      BY <1>1 DEF AheadOf
    <3>1. ~Ahead(rows, k, j)
      BY <1>1, <1>2, <2>4, AheadCount
    <3> QED BY <1>1, <3>1, AheadOrder
  <2>6. /\ IsFiniteSet(AheadOf(rows, ids, k) \cup {k})
        /\ Cardinality(AheadOf(rows, ids, k) \cup {k}) <= rank(k) + 1
    <3>1. IsFiniteSet(AheadOf(rows, ids, k)) /\ rank(k) \in Nat
      BY <1>1, AheadCount
    <3> QED BY <3>1, FS_AddElement
  <2>7. Cardinality(page) <= Cardinality(AheadOf(rows, ids, k) \cup {k})
    BY <2>5, <2>6, FS_Subset
  <2>8. Cardinality(page) \in Nat
        /\ Cardinality(AheadOf(rows, ids, k) \cup {k}) \in Nat
    BY <1>3, <2>6, FS_CardinalityType
  <2> QED BY <1>1, <1>2, <1>3, <2>3, <2>6, <2>7, <2>8
<1> QED BY <1>4, <1>5

\* When the row beyond the limit is missing the page holds all that is left.
LEMMA FirstExhausts ==
  ASSUME NEW rows, NEW ids, Sortable(rows, ids), NEW n \in Nat,
         First(rows, ids, n + 1) = First(rows, ids, n)
  PROVE  First(rows, ids, n) = ids
<1> DEFINE page == First(rows, ids, n)
           rank(i) == Cardinality(AheadOf(rows, ids, i))
<1>1. page = {i \in ids : rank(i) < n} /\ page = {i \in ids : rank(i) < n + 1}
  BY DEF First, AheadOf, Ahead
<1>2. \A i \in ids : rank(i) \in Nat
  BY AheadCount
<1> SUFFICES ASSUME ids \ page # {} PROVE FALSE
  BY <1>1
<1> DEFINE ranks == {rank(i) : i \in ids \ page}
<1>3. PICK x \in ranks : \A y \in ranks : x <= y
  BY <1>2, LeastNumber
<1>4. PICK i \in ids \ page : x = rank(i)
  BY <1>3
<1>5. AheadOf(rows, ids, i) \in SUBSET page
  <2> SUFFICES ASSUME NEW j \in ids, Ahead(rows, j, i) PROVE j \in page
    BY DEF AheadOf
  <2>1. rank(j) < rank(i)
    BY AheadCount
  <2> QED BY <1>2, <1>3, <1>4, <2>1
<1>6. rank(i) <= n
  <2>1. rank(i) <= Cardinality(page)
    BY <1>5, FirstIsBounded, FS_Subset
  <2>2. Cardinality(page) \in Nat /\ Cardinality(page) <= n
    BY FirstIsBounded, FS_CardinalityType
  <2> QED BY <1>2, <2>1, <2>2
<1> QED BY <1>1, <1>2, <1>4, <1>6

\* The cursor cuts the rows in two: what has been returned is not beyond it, and
\* what has not been returned is.
LEMMA CursorCuts ==
  ASSUME NEW rows, NEW ids, Sortable(rows, ids), NEW n \in Nat, NEW seen,
         NEW k \in CursorRow(rows, First(rows, ids, n), seen)
  PROVE  /\ k \in First(rows, ids, n) /\ k \in ids
         /\ \A i \in First(rows, ids, n) : ~Ahead(rows, k, i)
         /\ \A i \in ids \ First(rows, ids, n) : Ahead(rows, k, i)
<1>1. /\ k \in First(rows, ids, n)
      /\ \A j \in First(rows, ids, n) \ {k} : Ahead(rows, j, k)
  BY DEF CursorRow, Ahead
<1>2. k \in ids /\ First(rows, ids, n) \subseteq ids
  BY <1>1, FirstIsPrefix
<1>3. ASSUME NEW i \in First(rows, ids, n) PROVE ~Ahead(rows, k, i)
  BY <1>1, <1>2, AheadOrder
<1>4. ASSUME NEW i \in ids \ First(rows, ids, n) PROVE Ahead(rows, k, i)
  BY <1>1, <1>2, FirstIsPrefix, AheadOrder
<1> QED BY <1>1, <1>2, <1>3, <1>4

-----------------------------------------------------------------------------
(* The state *)

\* The rows of every collection have ids and keys.
LEMMA RowsSortable ==
  ASSUME TypeOK, NEW kind \in Kind, NEW f \in Filter
  PROVE  /\ DOMAIN Rows(kind, f) \subseteq Id
         /\ \A i \in DOMAIN Rows(kind, f) : Rows(kind, f)[i] \in Key
<1> USE DEF TypeOK, Id, Live
<1> DEFINE Fine(rows) == DOMAIN rows \subseteq Id /\ \A i \in DOMAIN rows : rows[i] \in Key
<1>1. Fine(SessionRows(f))
  BY DEF SessionRows
<1>2. Fine(SnapshotRows(f))
  BY DEF SnapshotRows
<1>3. Fine(CaptureRows(f))
  BY DEF CaptureRows
<1>4. Fine(ManifestRows(f))
  BY DEF ManifestRows
<1>5. Fine(ArtifactRows(f))
  BY ListingAssumption DEF ArtifactRows
<1>6. Fine(TombstoneRows)
  BY DEF TombstoneRows
<1> HIDE DEF Fine
<1>7. Fine(Rows(kind, f))
  BY <1>1, <1>2, <1>3, <1>4, <1>5, <1>6 DEF Rows, Kind
<1> QED BY <1>7 DEF Fine

\* So a page can be cut from any part of them.
LEMMA PartsSortable ==
  ASSUME TypeOK, NEW kind \in Kind, NEW f \in Filter,
         NEW ids, ids \subseteq DOMAIN Rows(kind, f)
  PROVE  Sortable(Rows(kind, f), ids)
<1>1. ids \in SUBSET Id
  BY RowsSortable
<1>2. IsFiniteSet(ids) /\ ids \subseteq Nat
  BY <1>1, ListingAssumption, FS_Subset
<1>3. Key \subseteq Nat
  BY ListingAssumption DEF Key
<1> QED BY <1>2, <1>3, RowsSortable DEF Sortable

\* What a page request does: rows of the collection are counted, and the next
\* cursor, if there is one, is one of them.
LEMMA PageStep ==
  ASSUME TypeOK, list.phase \in {"first", "open"}, NEW limit \in Limit,
         NEW ids, ids \subseteq DOMAIN Rows(list.kind, list.filter),
         PageFromRows(Rows(list.kind, list.filter), ids, limit)
  PROVE  LET rows == Rows(list.kind, list.filter)
             page == First(rows, ids, limit)
         IN  /\ Sortable(rows, ids) /\ page \subseteq ids
             /\ count' = [i \in Id |-> IF i \in page THEN count[i] + 1 ELSE count[i]]
             /\ \/ /\ list' = [list EXCEPT !.phase = "done"]
                   /\ page = ids
                \/ \E k \in page, high \in HighWatermark(rows, page) :
                      /\ list' = [list EXCEPT !.phase = "open", !.high = high,
                                              !.after = BoundaryOf(rows, k)]
                      /\ \A i \in page : ~Ahead(rows, k, i)
                      /\ \A i \in ids \ page : Ahead(rows, k, i)
<1> DEFINE rows == Rows(list.kind, list.filter)
           page == First(rows, ids, limit)
           seen == First(rows, ids, limit + 1)
<1>1. list.kind \in Kind /\ list.filter \in Filter
  BY DEF TypeOK, Traversal
<1>2. Sortable(rows, ids)
  BY <1>1, PartsSortable
<1>3. limit \in Nat
  BY ListingAssumption DEF Limit
<1> HIDE DEF rows
<1>4. page \subseteq ids
  BY <1>2, <1>3, FirstIsPrefix
<1>5. count' = [i \in Id |-> IF i \in page THEN count[i] + 1 ELSE count[i]]
  BY DEF PageFromRows, rows
<1>6. CASE seen = page
  <2>1. page = ids
    BY <1>2, <1>3, <1>6, FirstExhausts
  <2>2. list' = [list EXCEPT !.phase = "done"]
    BY <1>6 DEF PageFromRows, rows
  <2> QED BY <1>2, <1>4, <1>5, <2>1, <2>2 DEF rows
<1>7. CASE seen # page
  <2>1. PICK k \in CursorRow(rows, page, seen), high \in HighWatermark(rows, page) :
            list' = [list EXCEPT !.phase = "open", !.high = high,
                                 !.after = BoundaryOf(rows, k)]
    BY <1>7 DEF PageFromRows, rows
  <2>2. /\ k \in page
        /\ \A i \in page : ~Ahead(rows, k, i)
        /\ \A i \in ids \ page : Ahead(rows, k, i)
    BY <1>2, <1>3, CursorCuts
  <2> QED BY <1>2, <1>4, <1>5, <2>1, <2>2 DEF rows
<1> QED BY <1>6, <1>7

ArchiveTypes ==
    /\ snapshot \in [Snapshot -> Key \cup {None}]
    /\ tombstone \in [Snapshot -> Key \cup {None}]
    /\ capture \in [Capture -> Key \cup {None}]
    /\ latest \in [Session -> Snapshot \cup {None}]

\* A capture or a deletion leaves the traversal alone and can only shrink the set
\* of rows that have kept their place.
LEMMA ArchiveStep ==
  ASSUME TypeOK,
         \/ \E c \in Capture, key \in Key : RecordCapture(c, key)
         \/ \E s \in Snapshot, key \in Key : DeleteSnapshot(s, key)
  PROVE  /\ ArchiveTypes'
         /\ UNCHANGED <<list, count>>
         /\ TrackStable /\ stable' \subseteq stable
<1> USE DEF TypeOK, ArchiveTypes
<1>1. ASSUME NEW c \in Capture, NEW key \in Key, RecordCapture(c, key)
      PROVE  ArchiveTypes' /\ UNCHANGED <<list, count>> /\ TrackStable
  <2>1. SnapshotOf[c] \in Snapshot /\ SessionOf[SnapshotOf[c]] \in Session
    BY ListingAssumption
  <2>2. UNCHANGED <<tombstone, list, count>> /\ TrackStable
    BY <1>1 DEF RecordCapture
  <2>3. capture' \in [Capture -> Key \cup {None}]
    BY <1>1 DEF RecordCapture
  <2>4. snapshot' \in [Snapshot -> Key \cup {None}]
    BY <1>1, <2>1 DEF RecordCapture
  <2>5. latest' \in [Session -> Snapshot \cup {None}]
    BY <1>1, <2>1 DEF RecordCapture
  <2> QED BY <2>2, <2>3, <2>4, <2>5
<1>2. ASSUME NEW s \in Snapshot, NEW key \in Key, DeleteSnapshot(s, key)
      PROVE  ArchiveTypes' /\ UNCHANGED <<list, count>> /\ TrackStable
  <2>1. SessionOf[s] \in Session
    BY ListingAssumption
  <2>2. Newest(SessionOf[s], s) \in Snapshot \cup {None}
    <3> DEFINE left == {q \in Snapshot \ {s} : Live(q) /\ SessionOf[q] = SessionOf[s]}
               newest == {q \in left : \A r \in left \ {q} :
                             Before([key |-> snapshot[q], id |-> q],
                                    [key |-> snapshot[r], id |-> r])}
    <3>1. newest \subseteq Snapshot
      OBVIOUS
    <3>2. Newest(SessionOf[s], s) = IF newest = {} THEN None
                                    ELSE CHOOSE q \in newest : TRUE
      BY DEF Newest
    <3> HIDE DEF newest
    <3> QED BY <3>1, <3>2
  <2>3. UNCHANGED <<snapshot, capture, list, count>> /\ TrackStable
    BY <1>2 DEF DeleteSnapshot
  <2>4. tombstone' \in [Snapshot -> Key \cup {None}]
    BY <1>2 DEF DeleteSnapshot
  <2>5. latest' \in [Session -> Snapshot \cup {None}]
    BY <1>2, <2>1, <2>2 DEF DeleteSnapshot
  <2> QED BY <2>3, <2>4, <2>5
<1>3. TrackStable => stable' \subseteq stable
  BY DEF TrackStable, Unmoved
<1> QED BY <1>1, <1>2, <1>3

\* The types of rows, cursor and history.
THEOREM ListingTypes == Spec => []TypeOK
<1>1. Init => TypeOK
  BY DEF Init, TypeOK, Traversal, Kind
<1>2. TypeOK /\ [Next]_vars => TypeOK'
  <2> SUFFICES ASSUME TypeOK, [Next]_vars PROVE TypeOK'
    OBVIOUS
  <2>1. ASSUME \/ \E c \in Capture, key \in Key : RecordCapture(c, key)
               \/ \E s \in Snapshot, key \in Key : DeleteSnapshot(s, key)
        PROVE  TypeOK'
    BY <2>1, ArchiveStep DEF TypeOK, ArchiveTypes
  <2>2. ASSUME NEW kind \in Kind, NEW f \in Filter, Begin(kind, f) PROVE TypeOK'
    BY <2>2 DEF Begin, TypeOK, Traversal, archive
  <2>3. ASSUME NEW limit \in Limit, FirstPage(limit) \/ NextPage(limit)
        PROVE  TypeOK'
    <3> DEFINE rows == Rows(list.kind, list.filter)
    <3>1. list.phase \in {"first", "open"} /\ UNCHANGED archive
      BY <2>3 DEF FirstPage, NextPage
    <3>2. list \in Traversal /\ list.kind \in Kind /\ list.filter \in Filter
      BY <3>1 DEF TypeOK, Traversal
    <3>3. PICK ids \in SUBSET DOMAIN rows : PageFromRows(rows, ids, limit)
      BY <2>3 DEF FirstPage, NextPage
    <3>4. DOMAIN rows \subseteq Id /\ \A i \in DOMAIN rows : rows[i] \in Key
      BY <3>2, RowsSortable
    <3>5. \A i \in DOMAIN rows : BoundaryOf(rows, i) \in Boundary
      BY <3>4 DEF BoundaryOf, Boundary
    <3> DEFINE page == First(rows, ids, limit)
    <3>6. /\ page \subseteq ids
          /\ count' = [i \in Id |-> IF i \in page THEN count[i] + 1 ELSE count[i]]
          /\ \/ list' = [list EXCEPT !.phase = "done"]
             \/ \E k \in page, high \in HighWatermark(rows, page) :
                   list' = [list EXCEPT !.phase = "open", !.high = high,
                                        !.after = BoundaryOf(rows, k)]
      BY <3>1, <3>3, PageStep
    <3>7. HighWatermark(rows, page) \subseteq Boundary
      <4>1. list.phase = "open" => list.high \in Boundary
        BY DEF TypeOK
      <4> HIDE DEF rows, page
      <4>2. \A i \in page : BoundaryOf(rows, i) \in Boundary
        BY <3>3, <3>5, <3>6
      <4> QED BY <4>1, <4>2 DEF HighWatermark
    <3>8. count' \in [Id -> Nat]
      <4>1. count \in [Id -> Nat]
        BY DEF TypeOK
      <4> HIDE DEF rows, page
      <4>2. count' = [i \in Id |-> IF i \in page THEN count[i] + 1 ELSE count[i]]
        BY <3>6
      <4> QED BY <4>1, <4>2
    <3>9. /\ list' \in Traversal /\ list'.filter \in Filter
          /\ list'.phase = "open" => list'.high \in Boundary /\ list'.after \in Boundary
      <4> HIDE DEF rows, page
      <4>1. CASE list' = [list EXCEPT !.phase = "done"]
        BY <3>2, <4>1 DEF Traversal
      <4>2. ASSUME NEW k \in page, NEW high \in HighWatermark(rows, page),
                   list' = [list EXCEPT !.phase = "open", !.high = high,
                                        !.after = BoundaryOf(rows, k)]
            PROVE  <3>9!1 /\ <3>9!2
        <5>1. high \in Boundary /\ BoundaryOf(rows, k) \in Boundary
          BY <3>3, <3>5, <3>6, <3>7
        <5> QED BY <3>2, <4>2, <5>1 DEF Traversal
      <4> QED BY <3>6, <4>1, <4>2
    <3>10. stable' \subseteq Id
      BY <2>3, <3>4 DEF FirstPage, NextPage, TypeOK
    <3> QED BY <3>1, <3>8, <3>9, <3>10 DEF TypeOK, archive
  <2>4. ASSUME SnapshotNotFound PROVE TypeOK'
    BY <2>4 DEF SnapshotNotFound, TypeOK, Traversal, archive
  <2>5. ASSUME UNCHANGED vars PROVE TypeOK'
    BY <2>5 DEF vars, TypeOK
  <2> QED BY <2>1, <2>2, <2>3, <2>4, <2>5 DEF Next
<1> QED
  BY <1>1, <1>2, PTL DEF Spec

-----------------------------------------------------------------------------
(* Rows that stay put *)

\* A stable row is still within the watermark, and has been listed once if it is
\* not beyond the cursor, and not at all if it is.
StablePlace(i) ==
    LET row == BoundaryOf(Rows(list.kind, list.filter), i)
    IN  /\ i \in DOMAIN Rows(list.kind, list.filter)
        /\ row = list.high \/ Before(list.high, row)
        /\ count[i] = IF Before(list.after, row) THEN 0 ELSE 1

StableInv ==
    /\ list.phase \in {"idle", "first"} => stable = {}
    /\ list.phase = "first" => \A i \in Id : count[i] = 0
    /\ list.phase = "open" => \A i \in stable : StablePlace(i)
    /\ TraversalExact

\* A row that kept its place keeps its relation to cursor and watermark.
LEMMA StableArchiveStep ==
  ASSUME TypeOK, StableInv,
         UNCHANGED <<list, count>>, TrackStable, stable' \subseteq stable
  PROVE  StableInv'
<1>1. ASSUME list.phase = "open", NEW i \in stable' PROVE StablePlace(i)'
  <2>1. list.filter # None
    BY <1>1 DEF TrackStable
  <2>2. /\ i \in DOMAIN Rows(list.kind, list.filter)'
        /\ Rows(list.kind, list.filter)'[i] = Rows(list.kind, list.filter)[i]
    BY <1>1, <2>1 DEF TrackStable, Unmoved
  <2>3. BoundaryOf(Rows(list.kind, list.filter), i)'
            = BoundaryOf(Rows(list.kind, list.filter), i)
    BY <2>2 DEF BoundaryOf
  <2>4. StablePlace(i)
    BY <1>1 DEF StableInv
  <2> QED BY <2>2, <2>3, <2>4 DEF StablePlace
<1> QED BY <1>1 DEF StableInv, TraversalExact

\* The rows depend on nothing but the archive's tables.
LEMMA SameRows ==
  ASSUME UNCHANGED archive, list'.kind = list.kind, list'.filter = list.filter
  PROVE  Rows(list.kind, list.filter)' = Rows(list.kind, list.filter)
<1> USE DEF archive, Live, CapturedBy
<1>1. PICK kind, f : list.kind = kind /\ list.filter = f
  OBVIOUS
<1>2. SessionRows(f)' = SessionRows(f)
  BY DEF SessionRows
<1>3. SnapshotRows(f)' = SnapshotRows(f)
  BY DEF SnapshotRows
<1>4. CaptureRows(f)' = CaptureRows(f)
  BY DEF CaptureRows
<1>5. ManifestRows(f)' = ManifestRows(f)
  BY DEF ManifestRows
<1>6. ArtifactRows(f)' = ArtifactRows(f)
  BY DEF ArtifactRows
<1>7. TombstoneRows' = TombstoneRows
  BY DEF TombstoneRows
<1>8. Rows(kind, f)' = Rows(kind, f)
  BY <1>2, <1>3, <1>4, <1>5, <1>6, <1>7 DEF Rows
<1> QED BY <1>1, <1>8

\* A page of the traversal: the rows it returns are counted, the cursor moves to
\* the last of them, and at the end nothing is left.
LEMMA StableFirstPage ==
  ASSUME TypeOK, StableInv, NEW limit \in Limit, FirstPage(limit)
  PROVE  StableInv'
<1> DEFINE rows == Rows(list.kind, list.filter)
           ids == DOMAIN rows
           page == First(rows, ids, limit)
<1>1. /\ list.phase = "first" /\ list \in Traversal
      /\ list.kind \in Kind /\ list.filter \in Filter
  BY DEF FirstPage, TypeOK, Traversal
<1>2. /\ PageFromRows(rows, ids, limit)
      /\ stable' = ids /\ UNCHANGED archive
  BY DEF FirstPage
<1>3. ids \subseteq Id
  BY <1>1, RowsSortable
<1>4. \A i \in Id : count[i] = 0
  BY <1>1 DEF StableInv
<1>5. /\ Sortable(rows, ids) /\ page \subseteq ids
      /\ count' = [i \in Id |-> IF i \in page THEN count[i] + 1 ELSE count[i]]
  BY <1>1, <1>2, PageStep
<1>6. \/ /\ list' = [list EXCEPT !.phase = "done"]
         /\ page = ids
      \/ \E k \in page, high \in HighWatermark(rows, page) :
            /\ list' = [list EXCEPT !.phase = "open", !.high = high,
                                    !.after = BoundaryOf(rows, k)]
            /\ \A i \in page : ~Ahead(rows, k, i)
            /\ \A i \in ids \ page : Ahead(rows, k, i)
  BY <1>1, <1>2, PageStep
<1>7. ASSUME NEW i \in ids PROVE count'[i] = IF i \in page THEN 1 ELSE 0
  <2> HIDE DEF page, ids
  <2> QED BY <1>3, <1>4, <1>5
<1>8. CASE list' = [list EXCEPT !.phase = "done"] /\ page = ids
  <2>1. list'.phase = "done"
    BY <1>1, <1>8 DEF Traversal
  <2>2. \A i \in ids : count'[i] = 1
    BY <1>7, <1>8
  <2> QED BY <1>2, <2>1, <2>2 DEF StableInv, TraversalExact
<1>9. ASSUME NEW k \in page, NEW high \in HighWatermark(rows, page),
             list' = [list EXCEPT !.phase = "open", !.high = high,
                                  !.after = BoundaryOf(rows, k)],
             \A i \in page : ~Ahead(rows, k, i),
             \A i \in ids \ page : Ahead(rows, k, i)
      PROVE  StableInv'
  <2>1. /\ list'.phase = "open" /\ list'.kind = list.kind
        /\ list'.filter = list.filter
        /\ list'.high = high /\ list'.after = BoundaryOf(rows, k)
    BY <1>1, <1>9 DEF Traversal
  <2>2. rows' = rows
    BY <1>2, <2>1, SameRows
  <2>3. ASSUME NEW i \in ids PROVE StablePlace(i)'
    <3>1. PICK t \in page : /\ high = BoundaryOf(rows, t)
                            /\ \A j \in page : ~Ahead(rows, j, t)
      BY <1>1 DEF HighWatermark, Ahead
    <3>2. ~Ahead(rows, i, t)
      <4>1. limit \in Nat
        BY ListingAssumption DEF Limit
      <4> QED BY <1>5, <3>1, <4>1, FirstIsPrefix
    <3>3. i = t \/ Ahead(rows, t, i)
      <4> HIDE DEF page, ids
      <4> QED BY <1>5, <3>1, <3>2, AheadOrder
    <3>4. BoundaryOf(rows, i) = high \/ Before(high, BoundaryOf(rows, i))
      BY <3>1, <3>3 DEF Ahead
    <3>5. Before(BoundaryOf(rows, k), BoundaryOf(rows, i)) <=> i \notin page
      BY <1>9 DEF Ahead
    <3> HIDE DEF rows
    <3> QED BY <1>7, <2>1, <2>2, <3>4, <3>5 DEF StablePlace, rows
  <2> QED BY <1>2, <2>1, <2>3 DEF StableInv, TraversalExact
<1> QED BY <1>6, <1>8, <1>9

\* The rows a cursor still admits.
Beyond(rows) ==
    {i \in DOMAIN rows : WithinBounds(BoundaryOf(rows, i), list.high, list.after)}

\* A next page: the same beyond the cursor, and nothing before it is touched.
LEMMA StableNextPage ==
  ASSUME TypeOK, StableInv, NEW limit \in Limit, NextPage(limit)
  PROVE  StableInv'
<1> DEFINE rows == Rows(list.kind, list.filter)
           ids == Beyond(rows)
           page == First(rows, ids, limit)
<1>1. /\ list.phase = "open" /\ list \in Traversal
      /\ list.kind \in Kind /\ list.filter \in Filter
      /\ list.after \in Boundary /\ list.high \in Boundary
  BY DEF NextPage, TypeOK, Traversal
<1>2. /\ PageFromRows(rows, ids, limit)
      /\ stable' = stable /\ UNCHANGED archive
  BY DEF NextPage, Beyond
<1>3. DOMAIN rows \subseteq Id /\ \A i \in DOMAIN rows : rows[i] \in Key
  BY <1>1, RowsSortable
<1>4. ids \subseteq DOMAIN rows
  BY DEF Beyond
<1>5. /\ Sortable(rows, ids) /\ page \subseteq ids
      /\ count' = [i \in Id |-> IF i \in page THEN count[i] + 1 ELSE count[i]]
  BY <1>1, <1>2, <1>4, PageStep
<1>6. \/ /\ list' = [list EXCEPT !.phase = "done"]
         /\ page = ids
      \/ \E k \in page, high \in HighWatermark(rows, page) :
            /\ list' = [list EXCEPT !.phase = "open", !.high = high,
                                    !.after = BoundaryOf(rows, k)]
            /\ \A i \in page : ~Ahead(rows, k, i)
            /\ \A i \in ids \ page : Ahead(rows, k, i)
  BY <1>1, <1>2, <1>4, PageStep
<1>7. ASSUME NEW i \in stable
      PROVE  /\ i \in DOMAIN rows
             /\ i \in ids <=> Before(list.after, BoundaryOf(rows, i))
             /\ BoundaryOf(rows, i) = list.high
                \/ Before(list.high, BoundaryOf(rows, i))
             /\ count'[i] = IF i \in ids \ page THEN 0 ELSE 1
  <2>1. StablePlace(i)
    BY <1>1, <1>7 DEF StableInv
  <2>2. /\ i \in DOMAIN rows
        /\ i \in ids <=> Before(list.after, BoundaryOf(rows, i))
        /\ BoundaryOf(rows, i) = list.high \/ Before(list.high, BoundaryOf(rows, i))
    BY <2>1 DEF StablePlace, Beyond, WithinBounds
  <2>3. count[i] = IF i \in ids THEN 0 ELSE 1
    BY <2>1, <2>2 DEF StablePlace
  <2> HIDE DEF page, ids, rows
  <2>4. count'[i] = IF i \in page THEN count[i] + 1 ELSE count[i]
    BY <1>3, <1>5, <2>2
  <2> QED BY <1>5, <2>2, <2>3, <2>4
<1>8. CASE list' = [list EXCEPT !.phase = "done"] /\ page = ids
  <2>1. list'.phase = "done"
    BY <1>1, <1>8 DEF Traversal
  <2>2. \A i \in stable : count'[i] = 1
    <3> HIDE DEF page, ids, rows
    <3> QED BY <1>7, <1>8
  <2> QED BY <1>2, <2>1, <2>2 DEF StableInv, TraversalExact
<1>9. ASSUME NEW k \in page, NEW high \in HighWatermark(rows, page),
             list' = [list EXCEPT !.phase = "open", !.high = high,
                                  !.after = BoundaryOf(rows, k)],
             \A i \in page : ~Ahead(rows, k, i),
             \A i \in ids \ page : Ahead(rows, k, i)
      PROVE  StableInv'
  <2>1. /\ list'.phase = "open" /\ list'.kind = list.kind
        /\ list'.filter = list.filter
        /\ list'.high = list.high /\ list'.after = BoundaryOf(rows, k)
    <3>1. high = list.high
      BY <1>1 DEF HighWatermark
    <3> QED BY <1>1, <1>9, <3>1 DEF Traversal
  <2>2. rows' = rows
    BY <1>2, <2>1, SameRows
  <2>3. Before(list.after, BoundaryOf(rows, k)) /\ k \in DOMAIN rows
    BY <1>5, <1>4 DEF Beyond, WithinBounds
  <2>4. ASSUME NEW i \in stable PROVE StablePlace(i)'
    <3>1. Before(BoundaryOf(rows, k), BoundaryOf(rows, i)) <=> i \in ids \ page
      <4>1. CASE i \in ids
        BY <1>9, <4>1 DEF Ahead
      <4>2. CASE i \notin ids
        <5>1. ~Before(list.after, BoundaryOf(rows, i)) /\ i \in DOMAIN rows
          BY <1>7, <2>4, <4>2
        <5>2. /\ BoundaryOf(rows, i).key \in Nat /\ BoundaryOf(rows, i).id \in Nat
              /\ BoundaryOf(rows, k).key \in Nat /\ BoundaryOf(rows, k).id \in Nat
              /\ list.after.key \in Nat /\ list.after.id \in Nat
          <6>1. Id \subseteq Nat /\ Key \subseteq Nat
            BY ListingAssumption DEF Key
          <6>2. i \in Nat /\ k \in Nat /\ rows[i] \in Nat /\ rows[k] \in Nat
            BY <1>3, <2>3, <5>1, <6>1
          <6>3. list.after.key \in Key /\ list.after.id \in Id
            BY <1>1 DEF Boundary
          <6> HIDE DEF rows
          <6> QED BY <6>1, <6>2, <6>3 DEF BoundaryOf
        <5>3. ~Before(BoundaryOf(rows, k), BoundaryOf(rows, i))
          BY <2>3, <5>1, <5>2, BeforeOrder
        <5> QED BY <4>2, <5>3
      <4> QED BY <4>1, <4>2
    <3> HIDE DEF rows, page, ids
    <3> QED BY <1>7, <2>1, <2>2, <2>4, <3>1 DEF StablePlace, rows
  <2> QED BY <1>2, <2>1, <2>4 DEF StableInv, TraversalExact
<1> QED BY <1>6, <1>8, <1>9

\* For every collection, filter and sequence of limits, and whatever is recorded
\* and deleted at whatever keys between the pages: a traversal that ends has
\* listed each row that kept its place exactly once.
THEOREM TraversalsExact == Spec => []TraversalExact
<1>1. Init => StableInv
  BY DEF Init, StableInv, TraversalExact
<1>2. TypeOK /\ StableInv /\ [Next]_vars => StableInv'
  <2> SUFFICES ASSUME TypeOK, StableInv, [Next]_vars PROVE StableInv'
    OBVIOUS
  <2>1. ASSUME \/ \E c \in Capture, key \in Key : RecordCapture(c, key)
               \/ \E s \in Snapshot, key \in Key : DeleteSnapshot(s, key)
        PROVE  StableInv'
    BY <2>1, ArchiveStep, StableArchiveStep
  <2>2. ASSUME NEW kind \in Kind, NEW f \in Filter, Begin(kind, f)
        PROVE  StableInv'
    BY <2>2 DEF Begin, StableInv, TraversalExact
  <2>3. ASSUME NEW limit \in Limit, FirstPage(limit) \/ NextPage(limit)
        PROVE  StableInv'
    BY <2>3, StableFirstPage, StableNextPage
  <2>4. ASSUME SnapshotNotFound PROVE StableInv'
    BY <2>4 DEF SnapshotNotFound, StableInv, TraversalExact, TypeOK, Traversal
  <2>5. ASSUME UNCHANGED vars PROVE StableInv'
    <3>1. UNCHANGED <<list, count, stable, archive>>
      BY <2>5 DEF vars, archive
    <3>2. Rows(list.kind, list.filter)' = Rows(list.kind, list.filter)
      BY <3>1, SameRows
    <3> QED BY <3>1, <3>2 DEF StableInv, StablePlace, TraversalExact, BoundaryOf
  <2> QED BY <2>1, <2>2, <2>3, <2>4, <2>5 DEF Next
<1>3. StableInv => TraversalExact
  BY DEF StableInv
<1> QED
  BY <1>1, <1>2, <1>3, ListingTypes, PTL DEF Spec

-----------------------------------------------------------------------------
(* Rows with a fixed key *)

\* The row behind an id, in the collections other than the sessions: where its
\* sort key is kept once it has one.
Keyed(kind, i) ==
    CASE kind = "snapshots" -> i \in Snapshot /\ snapshot[i] # None
      [] kind \in {"captures", "snapshotCaptures", "manifests"} ->
            i \in Capture /\ capture[i] # None
      [] kind = "artifacts" -> i \in Artifact /\ snapshot[ArtifactOf[i]] # None
      [] kind = "tombstones" -> i \in Snapshot /\ tombstone[i] # None
      [] OTHER -> FALSE

KeyOf(kind, i) ==
    CASE kind = "snapshots" -> snapshot[i]
      [] kind \in {"captures", "snapshotCaptures", "manifests"} -> capture[i]
      [] kind = "artifacts" -> snapshot[ArtifactOf[i]]
      [] OTHER -> tombstone[i]

Place(kind, i) == [key |-> KeyOf(kind, i), id |-> i]

\* What has been listed once is not beyond the cursor.
FixedInv ==
    /\ list.phase \in {"idle", "first"} => \A i \in Id : count[i] = 0
    /\ list.kind # "sessions" =>
          \A i \in Id : count[i] > 0 =>
              /\ count[i] = 1
              /\ Keyed(list.kind, i)
              /\ list.phase = "open" => ~Before(list.after, Place(list.kind, i))

\* The rows the queries return are such rows, at that key.
LEMMA RowsKeyed ==
  ASSUME TypeOK, NEW kind \in Kind \ {"sessions"}, NEW f \in Filter,
         NEW i \in DOMAIN Rows(kind, f)
  PROVE  Keyed(kind, i) /\ BoundaryOf(Rows(kind, f), i) = Place(kind, i)
<1>1. CASE kind = "snapshots"
  BY <1>1 DEF Rows, SnapshotRows, Keyed, KeyOf, Place, BoundaryOf, Live
<1>2. CASE kind \in {"captures", "snapshotCaptures"}
  BY <1>2 DEF Rows, CaptureRows, Keyed, KeyOf, Place, BoundaryOf
<1>3. CASE kind = "manifests"
  BY <1>3 DEF Rows, ManifestRows, Keyed, KeyOf, Place, BoundaryOf
<1>4. CASE kind = "artifacts"
  BY <1>4 DEF Rows, ArtifactRows, Keyed, KeyOf, Place, BoundaryOf, Live
<1>5. CASE kind = "tombstones"
  BY <1>5 DEF Rows, TombstoneRows, Keyed, KeyOf, Place, BoundaryOf
<1> QED BY <1>1, <1>2, <1>3, <1>4, <1>5 DEF Kind

\* A key, once there, is a key.
LEMMA KeyedPlace ==
  ASSUME TypeOK, NEW kind, NEW i \in Id, Keyed(kind, i)
  PROVE  Place(kind, i).key \in Nat /\ Place(kind, i).id \in Nat
<1>1. Key \subseteq Nat /\ Id \subseteq Nat
  BY ListingAssumption DEF Key
<1>2. KeyOf(kind, i) \in Key
  BY ListingAssumption DEF TypeOK, Keyed, KeyOf
<1> QED BY <1>1, <1>2 DEF Place

\* Nothing ever changes it.
LEMMA KeysAreFixed ==
  ASSUME TypeOK, NEW kind, NEW i \in Id, Keyed(kind, i),
         \/ \E c \in Capture, key \in Key : RecordCapture(c, key)
         \/ \E s \in Snapshot, key \in Key : DeleteSnapshot(s, key)
         \/ UNCHANGED archive
  PROVE  Keyed(kind, i)' /\ Place(kind, i)' = Place(kind, i)
<1>1. /\ \A s \in Snapshot : snapshot[s] # None => snapshot'[s] = snapshot[s]
      /\ \A c \in Capture : capture[c] # None => capture'[c] = capture[c]
      /\ \A s \in Snapshot : tombstone[s] # None => tombstone'[s] = tombstone[s]
  BY ListingAssumption DEF TypeOK, RecordCapture, DeleteSnapshot, Live, archive
<1>2. \A a \in Artifact : ArtifactOf[a] \in Snapshot
  BY ListingAssumption
<1>3. Keyed(kind, i)' /\ KeyOf(kind, i)' = KeyOf(kind, i)
  BY <1>1, <1>2 DEF Keyed, KeyOf
<1> QED BY <1>3 DEF Place

\* A page counts only rows that have not been counted, and leaves none of them
\* beyond its cursor.
LEMMA FixedPage ==
  ASSUME TypeOK, FixedInv, NEW limit \in Limit, FirstPage(limit) \/ NextPage(limit)
  PROVE  FixedInv'
<1> DEFINE rows == Rows(list.kind, list.filter)
<1>1. /\ list.phase \in {"first", "open"} /\ list \in Traversal
      /\ list.kind \in Kind /\ list.filter \in Filter
      /\ list.phase = "open" => list.after \in Boundary
  BY DEF FirstPage, NextPage, TypeOK, Traversal
<1>2. PICK ids \in SUBSET DOMAIN rows :
          /\ PageFromRows(rows, ids, limit) /\ UNCHANGED archive
          /\ list.phase = "open" => \A i \in ids : Before(list.after, BoundaryOf(rows, i))
  BY DEF FirstPage, NextPage, WithinBounds
<1> DEFINE page == First(rows, ids, limit)
<1>3. /\ page \subseteq ids
      /\ count' = [i \in Id |-> IF i \in page THEN count[i] + 1 ELSE count[i]]
  BY <1>1, <1>2, PageStep
<1>4. \/ list' = [list EXCEPT !.phase = "done"]
      \/ \E k \in page, high \in HighWatermark(rows, page) :
            /\ list' = [list EXCEPT !.phase = "open", !.high = high,
                                    !.after = BoundaryOf(rows, k)]
            /\ \A i \in page : ~Ahead(rows, k, i)
  BY <1>1, <1>2, PageStep
<1>5. list'.kind = list.kind /\ list'.phase \in {"open", "done"}
  <2> HIDE DEF rows, page
  <2> QED BY <1>1, <1>4 DEF Traversal
<1> SUFFICES ASSUME list.kind # "sessions", NEW i \in Id, count'[i] > 0
             PROVE  /\ count'[i] = 1
                    /\ Keyed(list.kind, i)'
                    /\ list'.phase = "open" => ~Before(list'.after, Place(list.kind, i)')
  BY <1>5 DEF FixedInv
<1>6. \A j \in DOMAIN rows : /\ Keyed(list.kind, j)
                             /\ BoundaryOf(rows, j) = Place(list.kind, j)
  BY <1>1, RowsKeyed
<1>7. DOMAIN rows \subseteq Id
  BY <1>1, RowsSortable
<1> HIDE DEF rows, page
<1>8. count \in [Id -> Nat]
  BY DEF TypeOK
<1>9. count'[i] = IF i \in page THEN count[i] + 1 ELSE count[i]
  BY <1>3
<1>10. i \in page => count[i] = 0
  <2>1. CASE list.phase = "first"
    BY <2>1 DEF FixedInv
  <2>2. CASE list.phase = "open"
    BY <1>2, <1>3, <1>6, <1>8, <2>2 DEF FixedInv
  <2> QED BY <1>1, <2>1, <2>2
<1>11. count'[i] = 1
  BY <1>8, <1>9, <1>10 DEF FixedInv
<1>12. Keyed(list.kind, i)
  BY <1>2, <1>3, <1>6, <1>9 DEF FixedInv
<1>13. Keyed(list.kind, i)' /\ Place(list.kind, i)' = Place(list.kind, i)
  <2>1. PICK kind : kind = list.kind
    OBVIOUS
  <2>2. Keyed(kind, i)' /\ Place(kind, i)' = Place(kind, i)
    BY <1>2, <1>12, <2>1, KeysAreFixed
  <2> QED BY <1>5, <2>1, <2>2
<1>14. ASSUME list'.phase = "open" PROVE ~Before(list'.after, Place(list.kind, i))
  <2>1. PICK k \in page : /\ list'.after = BoundaryOf(rows, k)
                          /\ \A j \in page : ~Ahead(rows, k, j)
    BY <1>1, <1>4, <1>14 DEF Traversal
  <2>2. k \in DOMAIN rows /\ k \in ids
    BY <1>2, <1>3, <2>1
  <2>3. CASE i \in page
    BY <1>2, <1>3, <1>6, <2>1, <2>3 DEF Ahead
  <2>4. CASE i \notin page
    <3>1. count[i] > 0 /\ list.phase = "open"
      BY <1>1, <1>9, <2>4 DEF FixedInv
    <3>2. ~Before(list.after, Place(list.kind, i))
      BY <3>1 DEF FixedInv
    <3>3. Before(list.after, Place(list.kind, k))
      BY <1>2, <1>6, <2>2, <3>1
    <3>4. /\ Place(list.kind, i).key \in Nat /\ Place(list.kind, i).id \in Nat
          /\ Place(list.kind, k).key \in Nat /\ Place(list.kind, k).id \in Nat
      BY <1>6, <1>7, <1>12, <2>2, KeyedPlace
    <3>5. list.after.key \in Nat /\ list.after.id \in Nat
      <4>1. Id \subseteq Nat /\ Key \subseteq Nat
        BY ListingAssumption DEF Key
      <4>2. list.after.key \in Key /\ list.after.id \in Id
        BY <1>1, <3>1 DEF Boundary
      <4> QED BY <4>1, <4>2
    <3>6. ~Before(Place(list.kind, k), Place(list.kind, i))
      BY <3>2, <3>3, <3>4, <3>5, BeforeOrder
    <3> QED BY <1>6, <2>1, <2>2, <3>6
  <2> QED BY <2>3, <2>4
<1> QED BY <1>5, <1>11, <1>13, <1>14

\* No traversal of a collection with fixed keys lists a row twice, although rows
\* come and go on either side of its cursor.
THEOREM NothingTwice == Spec => []NoRowTwice
<1>1. Init => FixedInv
  BY DEF Init, FixedInv
<1>2. TypeOK /\ FixedInv /\ [Next]_vars => FixedInv'
  <2> SUFFICES ASSUME TypeOK, FixedInv, [Next]_vars PROVE FixedInv'
    OBVIOUS
  <2>1. ASSUME UNCHANGED <<list, count>>,
               \/ \E c \in Capture, key \in Key : RecordCapture(c, key)
               \/ \E s \in Snapshot, key \in Key : DeleteSnapshot(s, key)
               \/ UNCHANGED archive
        PROVE  FixedInv'
    <3>1. PICK kind : kind = list.kind
      OBVIOUS
    <3>2. \A i \in Id : Keyed(kind, i) =>
              Keyed(kind, i)' /\ Place(kind, i)' = Place(kind, i)
      BY <2>1, KeysAreFixed
    <3>3. \A i \in Id : Keyed(list.kind, i) =>
              Keyed(list.kind, i)' /\ Place(list.kind, i)' = Place(list.kind, i)
      BY <2>1, <3>1, <3>2
    <3> QED BY <2>1, <3>3 DEF FixedInv
  <2>2. ASSUME \/ \E c \in Capture, key \in Key : RecordCapture(c, key)
               \/ \E s \in Snapshot, key \in Key : DeleteSnapshot(s, key)
        PROVE  FixedInv'
    BY <2>1, <2>2, ArchiveStep
  <2>3. ASSUME NEW kind \in Kind, NEW f \in Filter, Begin(kind, f) PROVE FixedInv'
    BY <2>3 DEF Begin, FixedInv
  <2>4. ASSUME NEW limit \in Limit, FirstPage(limit) \/ NextPage(limit)
        PROVE  FixedInv'
    BY <2>4, FixedPage
  <2>5. ASSUME SnapshotNotFound PROVE FixedInv'
    <3>1. list'.kind = list.kind /\ list'.phase = "gone"
      BY <2>5 DEF SnapshotNotFound, TypeOK, Traversal
    <3>2. PICK kind : kind = list.kind
      OBVIOUS
    <3>3. UNCHANGED <<count, archive>>
      BY <2>5 DEF SnapshotNotFound
    <3>4. \A i \in Id : Keyed(kind, i) => Keyed(kind, i)'
      BY <3>3, KeysAreFixed
    <3> QED BY <3>1, <3>2, <3>3, <3>4 DEF FixedInv
  <2>6. ASSUME UNCHANGED vars PROVE FixedInv'
    BY <2>1, <2>6 DEF vars, archive
  <2> QED BY <2>2, <2>3, <2>4, <2>5, <2>6 DEF Next
<1>3. TypeOK /\ FixedInv => NoRowTwice
  BY DEF FixedInv, NoRowTwice, TypeOK
<1> QED
  BY <1>1, <1>2, <1>3, ListingTypes, PTL DEF Spec
=============================================================================
