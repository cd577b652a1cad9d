--------------------------- MODULE SnapshotStore ---------------------------
(***************************************************************************)
(* What the archive promises its clients, without locks, requests, files   *)
(* or crashes: each semantic identity has at most one current snapshot, an *)
(* upload is answered once, with the snapshot that is current when it is   *)
(* answered, and a deleted snapshot never comes back under its own id.     *)
(***************************************************************************)
CONSTANTS Upload, Fingerprint, FingerprintOf, None

VARIABLES
    current,  \* [Fingerprint -> Upload or None]  the identity's live snapshot
    receipt,  \* [Upload -> Upload or None]       the snapshot an upload got
    retired   \* SUBSET Upload                    tombstoned snapshots

vars == <<current, receipt, retired>>

Init ==
    /\ current = [f \in Fingerprint |-> None]
    /\ receipt = [u \in Upload |-> None]
    /\ retired = {}

\* The first capture of an identity that has no current snapshot makes one.
Store(u) ==
    /\ receipt[u] = None
    /\ current[FingerprintOf[u]] = None
    /\ u \notin retired
    /\ current' = [current EXCEPT ![FingerprintOf[u]] = u]
    /\ receipt' = [receipt EXCEPT ![u] = u]
    /\ UNCHANGED retired

\* A further capture of the same content is answered with the current one.
Deduplicate(u) ==
    /\ receipt[u] = None
    /\ current[FingerprintOf[u]] # None
    /\ receipt' = [receipt EXCEPT ![u] = current[FingerprintOf[u]]]
    /\ UNCHANGED <<current, retired>>

Retire(f) ==
    /\ current[f] # None
    /\ retired' = retired \cup {current[f]}
    /\ current' = [current EXCEPT ![f] = None]
    /\ UNCHANGED receipt

Next ==
    \/ \E u \in Upload : Store(u) \/ Deduplicate(u)
    \/ \E f \in Fingerprint : Retire(f)

Spec == Init /\ [][Next]_vars
=============================================================================
