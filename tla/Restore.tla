------------------------------ MODULE Restore ------------------------------
(***************************************************************************)
(* backup verify and backup restore of one finished backup directory, by   *)
(* several runs of the command with one destination, while the backup may  *)
(* be damaged, other programs use the destination and time passes.  The    *)
(* backup starts out as ArchiveBackup leaves it: complete and undamaged.   *)
(*                                                                         *)
(* restore makes two passes over the backup, each of which validates it,   *)
(* copies it into a staging directory and scans the copy: the first is the *)
(* verify command, the second produces what is installed.                  *)
(***************************************************************************)
EXTENDS Naturals

CONSTANTS
    Run,       \* runs of backup restore
    MaxClock,  \* bound on the clock
    MaxDamage, \* bound on damage to the backup
    None

ASSUME RestoreAssumption ==
    /\ MaxClock \in Nat
    /\ MaxDamage \in Nat
    /\ None \notin Run \cup Nat

VARIABLES
    backup,   \* the backup directory
    linked,   \* do hard links between backup and staging work?
    pass,     \* [Run -> 1..2]
    pc,       \* [Run -> ...]          progress within a pass
    staged,   \* [Run -> Copy or None] the staging directory
    dest,     \* the destination and the run that installed it
    clock,
    damage

vars == <<backup, linked, pass, pc, staged, dest, clock, damage>>

\* A copy of the archive: whether its database is as it was backed up, and its
\* blob files, which hard links share with the backup.  "rotted" is damage that
\* came after the copy was scanned in the second pass.
Copy == [database : BOOLEAN, blobs : {"intact", "damaged", "rotted"}]

Dest == [is : {"absent", "empty", "foreign", "restored"}, by : Run \cup {None}]

TypeOK ==
    /\ backup \in [database : BOOLEAN, blobs : BOOLEAN,
                   due : 0..MaxClock \cup {None}]
    /\ linked \in BOOLEAN
    /\ pass \in [Run -> 1..2]
    /\ pc \in [Run -> {"validate", "copy", "scan", "destination", "clear",
                       "exists", "rename", "done", "failed"}]
    /\ staged \in [Run -> Copy \cup {None}]
    /\ dest \in Dest
    /\ clock \in 0..MaxClock
    /\ damage \in 0..MaxDamage

Init ==
    /\ backup \in [database : {TRUE}, blobs : {TRUE},
                   due : 0..MaxClock \cup {None}]
    /\ linked \in BOOLEAN
    /\ pass = [r \in Run |-> 1]
    /\ pc = [r \in Run |-> "validate"]
    /\ staged = [r \in Run |-> None]
    /\ dest \in [is : {"absent", "empty", "foreign"}, by : {None}]
    /\ clock = 0
    /\ damage = 0

-----------------------------------------------------------------------------

Goto(r, l) == pc' = [pc EXCEPT ![r] = l]

\* An error drops the staging directory.
Fail(r) == Goto(r, "failed") /\ staged' = [staged EXCEPT ![r] = None]

\* validate_backup: layout, inventory and every hash of the manifest.
Validate(r) ==
    /\ pc[r] = "validate"
    /\ IF backup.database /\ backup.blobs
         THEN Goto(r, "copy") /\ UNCHANGED staged
         ELSE Fail(r)
    /\ UNCHANGED <<backup, linked, pass, dest, clock, damage>>

\* copy_backup_to_data_dir: the hash of every copied blob is compared again, the
\* database is copied as it is.
CopyBackup(r) ==
    /\ pc[r] = "copy"
    /\ IF backup.blobs
         THEN /\ Goto(r, "scan")
              /\ staged' = [staged EXCEPT ![r] =
                              [database |-> backup.database, blobs |-> "intact"]]
         ELSE Fail(r)
    /\ UNCHANGED <<backup, linked, pass, dest, clock, damage>>

\* The scan finds damaged blobs (errors) and a blob that is due for collection
\* (a warning); a blob within its grace is no reason for action.
InGrace == backup.due # None => backup.due > clock
Healthy(r) == staged[r].blobs = "intact" /\ InGrace

\* verify ends with its staging directory dropped; restore goes on.
EndFirstPass(r) ==
    /\ Goto(r, "destination")
    /\ pass' = [pass EXCEPT ![r] = 2]
    /\ staged' = [staged EXCEPT ![r] = None]

EndSecondPass(r) == Goto(r, "clear") /\ UNCHANGED <<pass, staged>>

\* Mutant: the scan of the second pass is not heeded.
ScanStagedOnce(r) ==
    /\ pc[r] = "scan"
    /\ \/ pass[r] = 1 /\ Healthy(r) /\ EndFirstPass(r)
       \/ pass[r] = 2 /\ EndSecondPass(r)
       \/ pass[r] = 1 /\ ~Healthy(r) /\ Fail(r) /\ UNCHANGED pass
    /\ UNCHANGED <<backup, linked, dest, clock, damage>>

\* Mutant: every healthy scan starts another pass.
ScanStagedAgain(r) ==
    /\ pc[r] = "scan" /\ Healthy(r)
    /\ Goto(r, "destination")
    /\ pass' = [pass EXCEPT ![r] = @ + 1]
    /\ UNCHANGED <<backup, linked, staged, dest, clock, damage>>

\* scan_staged_archive, and the demand that the run be healthy.  An altered
\* database may or may not be noticed.
ScanStaged(r) ==
    /\ pc[r] = "scan"
    /\ \/ pass[r] = 1 /\ Healthy(r) /\ EndFirstPass(r)
       \/ pass[r] = 2 /\ Healthy(r) /\ EndSecondPass(r)
       \/ /\ ~Healthy(r) \/ ~staged[r].database
          /\ Fail(r) /\ UNCHANGED pass
    /\ UNCHANGED <<backup, linked, dest, clock, damage>>

\* validate_restore_destination, between the passes.  A read-only parent or a
\* mount point is refused like a directory with contents.
CheckDestination(r) ==
    /\ pc[r] = "destination"
    /\ Goto(r, IF dest.is \in {"absent", "empty"} THEN "validate" ELSE "failed")
    /\ UNCHANGED <<backup, linked, pass, staged, dest, clock, damage>>

\* Mutant: an existing destination is removed with its contents.
RemoveDestination(r) ==
    /\ pc[r] = "clear"
    /\ Goto(r, "exists")
    /\ dest' = [is |-> "absent", by |-> None]
    /\ UNCHANGED <<backup, linked, pass, staged, clock, damage>>

\* "Recheck immediately before replacing an empty directory": the directory is
\* read, and remove_dir refuses one that is no longer empty.
ClearDestination(r) ==
    /\ pc[r] = "clear"
    /\ IF dest.is \in {"absent", "empty"}
         THEN /\ Goto(r, "exists")
              /\ dest' = [dest EXCEPT !.is = "absent"]
              /\ UNCHANGED staged
         ELSE Fail(r) /\ UNCHANGED dest
    /\ UNCHANGED <<backup, linked, pass, clock, damage>>

\* finalize: the destination must not exist ...
CheckAbsent(r) ==
    /\ pc[r] = "exists"
    /\ IF dest.is = "absent" THEN Goto(r, "rename") /\ UNCHANGED staged ELSE Fail(r)
    /\ UNCHANGED <<backup, linked, pass, dest, clock, damage>>

\* Mutant: the result of the rename is not looked at.
RenameUnchecked(r) ==
    /\ pc[r] = "rename"
    /\ Goto(r, "done")
    /\ dest' = IF dest.is \in {"absent", "empty"}
                 THEN [is |-> "restored", by |-> r] ELSE dest
    /\ UNCHANGED <<backup, linked, pass, staged, clock, damage>>

\* ... and the rename replaces nothing but an empty directory that appeared
\* meanwhile.  If the parent cannot be synced the command fails, with the
\* archive in place.
RenameStaging(r) ==
    /\ pc[r] = "rename"
    /\ IF dest.is \in {"absent", "empty"}
         THEN /\ pc' \in {[pc EXCEPT ![r] = l] : l \in {"done", "failed"}}
              /\ dest' = [is |-> "restored", by |-> r]
              /\ UNCHANGED staged
         ELSE Fail(r) /\ UNCHANGED dest
    /\ UNCHANGED <<backup, linked, pass, clock, damage>>

\* The command dies or a file operation fails; a directory it leaves behind has
\* a name that nothing reads.
Abort(r) ==
    /\ pc[r] \notin {"done", "failed"}
    /\ Fail(r)
    /\ UNCHANGED <<backup, linked, pass, dest, clock, damage>>

-----------------------------------------------------------------------------
(* The environment *)

Scanned(r) == pc[r] \in {"clear", "exists", "rename"} \/ dest.by = r

DamageDatabase ==
    /\ damage < MaxDamage /\ damage' = damage + 1
    /\ backup' = [backup EXCEPT !.database = FALSE]
    /\ UNCHANGED <<linked, pass, pc, staged, dest, clock>>

\* Bytes of a blob rot, in the backup and wherever its file is linked.
DamageBlobs ==
    /\ damage < MaxDamage /\ damage' = damage + 1
    /\ backup' = [backup EXCEPT !.blobs = FALSE]
    /\ staged' = [r \in Run |->
                    IF linked /\ staged[r] # None /\ staged[r].blobs = "intact"
                    THEN [staged[r] EXCEPT !.blobs =
                            IF Scanned(r) THEN "rotted" ELSE "damaged"]
                    ELSE staged[r]]
    /\ UNCHANGED <<linked, pass, pc, dest, clock>>

\* Another program creates the destination, or puts something into it.
OthersUseDestination ==
    /\ \/ dest.is = "absent" /\ dest' = [dest EXCEPT !.is = "empty"]
       \/ dest.is = "empty" /\ dest' = [dest EXCEPT !.is = "foreign"]
    /\ UNCHANGED <<backup, linked, pass, pc, staged, clock, damage>>

Tick ==
    /\ clock < MaxClock
    /\ clock' = clock + 1
    /\ UNCHANGED <<backup, linked, pass, pc, staged, dest, damage>>

Next ==
    \/ \E r \in Run :
          \/ Validate(r) \/ CopyBackup(r) \/ ScanStaged(r) \/ CheckDestination(r)
          \/ ClearDestination(r) \/ CheckAbsent(r) \/ RenameStaging(r) \/ Abort(r)
    \/ DamageDatabase \/ DamageBlobs \/ OthersUseDestination \/ Tick

Spec == Init /\ [][Next]_vars

-----------------------------------------------------------------------------
(* Properties *)

\* backup.rs, restore: "so a concurrent writer cannot turn this into a
\* destructive overwrite".  Neither another program's directory nor an archive
\* installed by another run is replaced.
RestoreNeverOverwrites ==
    [][dest.is \in {"foreign", "restored"} => dest' = dest]_vars

\* A run that reports success has its own archive at the destination, for good.
SuccessIsInstalled == \A r \in Run : pc[r] = "done" => dest.by = r

\* What is installed has intact blobs, whatever happened to the backup between
\* and during the passes, unless the damage came after the last scan through a
\* hard link.
InstalledAsScanned == dest.by # None => staged[dest.by].blobs # "damaged"
=============================================================================
