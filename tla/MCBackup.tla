------------------------------ MODULE MCBackup ------------------------------
(***************************************************************************)
(* Instances of ArchiveBackup for TLC.                                     *)
(***************************************************************************)
EXTENDS ArchiveBackup
=============================================================================
