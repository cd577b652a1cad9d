----------------------------- MODULE MCTransfer -----------------------------
(***************************************************************************)
(* Instances of Transfer for TLC.  Manifest m1 has two chunks in two       *)
(* artifacts; m2 has the first of them only.  Body b1 verifies, b2 does    *)
(* not.                                                                    *)
(***************************************************************************)
EXTENDS Transfer, TLC

CONSTANTS m1, m2, c1, c2, a1, a2, b1, s1

ChunkArtifacts == [c \in Chunk |-> IF c = c1 THEN a1 ELSE a2]
Layouts == [m \in Manifest |-> IF m = m1 THEN Chunk ELSE Chunk \cap {c1}]
Bodies == [m \in Manifest |-> [c \in Chunk |-> b1]]
\* Two uploads on one stripe, or each on its own.
OneStripe == [u \in Upload |-> s1]
OwnStripe == [u \in Upload |-> u]

\* Workers are interchangeable.
Symmetry == Permutations(Worker)
=============================================================================
