----------------------------- MODULE MCArchive -----------------------------
(***************************************************************************)
(* Instances of Archive for TLC: which manifests the three uploads carry.  *)
(*                                                                         *)
(* One identity.  Uploads 1, 2 and 3 capture the same content; 2 stored it *)
(* as other bytes, so it shares no blob lock with 1 and 3.  An identity    *)
(* can be deleted and rearchived twice.                                    *)
(*                                                                         *)
(* Shared bytes.  Three identities of one session: 1 and 2 share d1, 2 and *)
(* 3 contradict each other on d2, and 1 and 3 have no lock in common.      *)
(***************************************************************************)
EXTENDS ArchiveRefinement, TLC

CONSTANTS f1, f2, f3, c1, d1, d2, r1, r2

OneIdentity == [u \in Upload |-> f1]
OneIdentityDigests == [u \in Upload |-> IF u = 2 THEN {d2} ELSE {d1}]

ThreeIdentities ==
    [u \in Upload |-> CASE u = 1 -> f1 [] u = 2 -> f2 [] u = 3 -> f3]
SharedDigests ==
    [u \in Upload |-> CASE u = 1 -> {d1} [] u = 2 -> {d1, d2} [] u = 3 -> {d2}]
AllDigests == [u \in Upload |-> {d1, d2}]

OneRepresentation == [u \in Upload |-> [d \in Digest |-> r1]]
\* Upload 3 declares another representation of d2.
TwoRepresentations ==
    [u \in Upload |-> [d \in Digest |-> IF u = 3 THEN r2 ELSE r1]]

OneSession == [f \in Fingerprint |-> c1]
\* Uploads 1 and 2 collide on an upload stripe.
CollidingUploadStripes == [u \in Upload |-> IF u = 2 THEN 1 ELSE u]
DistinctUploadStripes == [u \in Upload |-> u]
SnapshotStripes == [f \in Fingerprint |-> IF f = f1 THEN 4 ELSE 5]
BlobStripes == [d \in Digest |-> IF d = d1 THEN 6 ELSE 7]

\* Deleters are interchangeable.
DeleterSymmetry == Permutations(Deleter)
=============================================================================
