---------------------------- MODULE MCIntegrity ----------------------------
(***************************************************************************)
(* Instances of Downloads, and with it of Integrity, for TLC: two          *)
(* snapshots that share a digest.                                          *)
(***************************************************************************)
EXTENDS Downloads, TLC

SharedRefs == [s \in Snapshot |-> IF s = 1 THEN {1} ELSE {1, 2}]

WriterSymmetry == Permutations(Writer)
=============================================================================
