--------------------------- MODULE RestoreProofs ---------------------------
(***************************************************************************)
(* Proofs about Restore, for any number of runs of the command with one    *)
(* destination, any damage to the backup and any use of the destination by *)
(* other programs.                                                         *)
(***************************************************************************)
EXTENDS Restore, TLAPS

\* Between the second scan and the rename a run has a copy that was scanned as
\* healthy: what has become of it since is "rotted", not "damaged".
ScannedSound(r) ==
    /\ pc[r] = "scan" => staged[r] \in Copy
    /\ pc[r] \in {"clear", "exists", "rename"} =>
          staged[r] \in Copy /\ staged[r].blobs # "damaged"

\* The destination names a run exactly when an archive is installed, and that
\* run is over, with its copy as it was scanned.
InstalledSound(r) ==
    /\ pc[r] = "done" => dest.by = r
    /\ dest.by = r => /\ pc[r] \in {"done", "failed"}
                      /\ staged[r] \in Copy
                      /\ staged[r].blobs # "damaged"

RestoreInv ==
    /\ dest.is = "restored" <=> dest.by # None
    /\ \A r \in Run : ScannedSound(r) /\ InstalledSound(r)

\* The progress of the runs, their copies and the destination are well typed.
THEOREM RestoreTypes == Spec => []TypeOK
<1>1. Init => TypeOK
  <2> SUFFICES ASSUME Init PROVE TypeOK
    OBVIOUS
  <2>1. backup \in [database : BOOLEAN, blobs : BOOLEAN,
                    due : 0..MaxClock \cup {None}]
    BY DEF Init
  <2>2. linked \in BOOLEAN
    BY DEF Init
  <2>3. 0 \in 0..MaxClock /\ 0 \in 0..MaxDamage
    BY RestoreAssumption
  <2>4. dest \in Dest
    BY DEF Init, Dest
  <2> QED BY <2>1, <2>2, <2>3, <2>4 DEF Init, TypeOK
<1>2. TypeOK /\ [Next]_vars => TypeOK'
  <2> SUFFICES ASSUME TypeOK, [Next]_vars PROVE TypeOK'
    OBVIOUS
  <2> USE DEF TypeOK
  <2>1. ASSUME NEW r \in Run, Validate(r) PROVE TypeOK'
    BY <2>1 DEF Validate, Goto, Fail
  <2>2. ASSUME NEW r \in Run, CopyBackup(r) PROVE TypeOK'
    BY <2>2 DEF CopyBackup, Goto, Fail, Copy
  <2>3. ASSUME NEW r \in Run, ScanStaged(r) PROVE TypeOK'
    BY <2>3 DEF ScanStaged, EndFirstPass, EndSecondPass, Goto, Fail
  <2>4. ASSUME NEW r \in Run, CheckDestination(r) PROVE TypeOK'
    BY <2>4 DEF CheckDestination, Goto
  <2>5. ASSUME NEW r \in Run, ClearDestination(r) PROVE TypeOK'
    BY <2>5 DEF ClearDestination, Goto, Fail, Dest
  <2>6. ASSUME NEW r \in Run, CheckAbsent(r) PROVE TypeOK'
    BY <2>6 DEF CheckAbsent, Goto, Fail
  <2>7. ASSUME NEW r \in Run, RenameStaging(r) PROVE TypeOK'
    BY <2>7 DEF RenameStaging, Goto, Fail, Dest
  <2>8. ASSUME NEW r \in Run, Abort(r) PROVE TypeOK'
    BY <2>8 DEF Abort, Goto, Fail
  <2>9. CASE DamageDatabase
    <3>1. backup' \in [database : BOOLEAN, blobs : BOOLEAN,
                       due : 0..MaxClock \cup {None}]
      BY <2>9 DEF DamageDatabase
    <3>2. damage' \in 0..MaxDamage
      BY <2>9, RestoreAssumption DEF DamageDatabase
    <3> QED BY <2>9, <3>1, <3>2 DEF DamageDatabase
  <2>10. CASE DamageBlobs
    <3>1. backup' \in [database : BOOLEAN, blobs : BOOLEAN,
                       due : 0..MaxClock \cup {None}]
      BY <2>10 DEF DamageBlobs
    <3>2. damage' \in 0..MaxDamage
      BY <2>10, RestoreAssumption DEF DamageBlobs
    <3>3. ASSUME NEW r \in Run, staged[r] \in Copy,
                 NEW b \in {"rotted", "damaged"}
          PROVE  [staged[r] EXCEPT !.blobs = b] \in Copy
      BY <3>3 DEF Copy
    <3>4. staged' \in [Run -> Copy \cup {None}]
      BY <2>10, <3>3 DEF DamageBlobs
    <3> QED BY <2>10, <3>1, <3>2, <3>4 DEF DamageBlobs
  <2>11. CASE OthersUseDestination
    BY <2>11 DEF OthersUseDestination, Dest
  <2>12. CASE Tick
    BY <2>12, RestoreAssumption DEF Tick
  <2>13. CASE UNCHANGED vars
    BY <2>13 DEF vars
  <2> QED
    BY <2>1, <2>2, <2>3, <2>4, <2>5, <2>6, <2>7, <2>8, <2>9, <2>10, <2>11,
       <2>12, <2>13 DEF Next
<1> QED BY <1>1, <1>2, PTL DEF Spec

\* A step that leaves the destination and a run's own state alone.
LEMMA RunKept ==
    ASSUME NEW r \in Run, ScannedSound(r), InstalledSound(r),
           UNCHANGED <<pc[r], staged[r], dest.by>>
    PROVE  ScannedSound(r)' /\ InstalledSound(r)'
BY DEF ScannedSound, InstalledSound

\* A run that fails before it installed anything.
LEMMA RunFails ==
    ASSUME TypeOK, RestoreInv, NEW r \in Run, Fail(r), UNCHANGED dest,
           pc[r] \notin {"done", "failed"}
    PROVE  RestoreInv'
<1>1. dest.by # r
  BY DEF RestoreInv, InstalledSound
<1>2. pc'[r] = "failed"
  BY DEF TypeOK, Fail, Goto
<1>3. ScannedSound(r)' /\ InstalledSound(r)'
  BY <1>1, <1>2 DEF ScannedSound, InstalledSound
<1>4. ASSUME NEW q \in Run \ {r} PROVE ScannedSound(q)' /\ InstalledSound(q)'
  <2>1. UNCHANGED <<pc[q], staged[q], dest.by>>
    BY DEF TypeOK, Fail, Goto
  <2> QED BY <2>1, RunKept DEF RestoreInv
<1> QED BY <1>3, <1>4 DEF RestoreInv

\* A run that moves on before the rename.
LEMMA RunMoves ==
    ASSUME TypeOK, RestoreInv, NEW r \in Run, NEW l,
           Goto(r, l), l # "done", dest'.by = dest.by,
           dest'.is = "restored" <=> dest.is = "restored",
           \A q \in Run \ {r} : staged'[q] = staged[q],
           pc[r] \notin {"done", "failed"}, ScannedSound(r)'
    PROVE  RestoreInv'
<1>1. dest.by # r
  BY DEF RestoreInv, InstalledSound
<1>2. pc'[r] = l
  BY DEF TypeOK, Goto
<1>3. InstalledSound(r)'
  BY <1>1, <1>2 DEF InstalledSound
<1>4. ASSUME NEW q \in Run \ {r} PROVE ScannedSound(q)' /\ InstalledSound(q)'
  <2>1. UNCHANGED <<pc[q], staged[q], dest.by>>
    BY DEF TypeOK, Goto
  <2> QED BY <2>1, RunKept DEF RestoreInv
<1> QED BY <1>3, <1>4 DEF RestoreInv

\* The invariant of the two passes and of the destination is inductive.
THEOREM RestoreInvariant == Spec => []RestoreInv
<1>1. Init => RestoreInv
  BY RestoreAssumption DEF Init, RestoreInv, ScannedSound, InstalledSound
<1>2. TypeOK /\ RestoreInv /\ [Next]_vars => RestoreInv'
  <2> SUFFICES ASSUME TypeOK, RestoreInv, [Next]_vars PROVE RestoreInv'
    OBVIOUS
  <2>1. ASSUME NEW r \in Run, Validate(r) PROVE RestoreInv'
    <3>1. CASE Goto(r, "copy") /\ UNCHANGED staged
      <4>1. ScannedSound(r)'
        BY <3>1 DEF TypeOK, Goto, ScannedSound
      <4> QED BY <2>1, <3>1, <4>1, RunMoves DEF Validate
    <3> QED BY <2>1, <3>1, RunFails DEF Validate
  <2>2. ASSUME NEW r \in Run, CopyBackup(r) PROVE RestoreInv'
    <3>1. CASE backup.blobs
      <4>1. [database |-> backup.database, blobs |-> "intact"] \in Copy
        BY DEF Copy, TypeOK
      <4>2. ScannedSound(r)' /\ \A q \in Run \ {r} : staged'[q] = staged[q]
        BY <2>2, <3>1, <4>1 DEF CopyBackup, TypeOK, Goto, ScannedSound
      <4> QED BY <2>2, <3>1, <4>2, RunMoves DEF CopyBackup
    <3> QED BY <2>2, <3>1, RunFails DEF CopyBackup
  <2>3. ASSUME NEW r \in Run, ScanStaged(r) PROVE RestoreInv'
    <3>1. CASE EndFirstPass(r)
      <4>1. ScannedSound(r)' /\ \A q \in Run \ {r} : staged'[q] = staged[q]
        BY <3>1 DEF EndFirstPass, TypeOK, Goto, ScannedSound
      <4> QED BY <2>3, <3>1, <4>1, RunMoves DEF ScanStaged, EndFirstPass
    <3>2. CASE Healthy(r) /\ EndSecondPass(r)
      <4>1. staged[r] \in Copy
        BY <2>3 DEF ScanStaged, RestoreInv, ScannedSound
      <4>2. ScannedSound(r)'
        BY <3>2, <4>1 DEF EndSecondPass, Healthy, TypeOK, Goto, ScannedSound
      <4> QED BY <2>3, <3>2, <4>2, RunMoves DEF ScanStaged, EndSecondPass
    <3>3. CASE Fail(r)
      BY <2>3, <3>3, RunFails DEF ScanStaged
    <3> QED BY <2>3, <3>1, <3>2, <3>3 DEF ScanStaged
  <2>4. ASSUME NEW r \in Run, CheckDestination(r) PROVE RestoreInv'
    <3>1. PICK l \in {"validate", "failed"} : Goto(r, l)
      BY <2>4 DEF CheckDestination
    <3>2. ScannedSound(r)'
      BY <3>1 DEF TypeOK, Goto, ScannedSound
    <3> QED BY <2>4, <3>1, <3>2, RunMoves DEF CheckDestination
  <2>5. ASSUME NEW r \in Run, ClearDestination(r) PROVE RestoreInv'
    <3>1. CASE dest.is \in {"absent", "empty"}
      <4>1. /\ Goto(r, "exists") /\ UNCHANGED staged
            /\ dest' = [dest EXCEPT !.is = "absent"] /\ pc[r] = "clear"
        BY <2>5, <3>1 DEF ClearDestination
      <4>2. ScannedSound(r)'
        BY <4>1 DEF TypeOK, Goto, ScannedSound, RestoreInv
      <4>3. dest'.by = dest.by /\ dest'.is = "absent"
        BY <4>1 DEF TypeOK, Dest
      <4> QED BY <3>1, <4>1, <4>2, <4>3, RunMoves
    <3> QED BY <2>5, <3>1, RunFails DEF ClearDestination
  <2>6. ASSUME NEW r \in Run, CheckAbsent(r) PROVE RestoreInv'
    <3>1. CASE Goto(r, "rename") /\ UNCHANGED staged
      <4>1. ScannedSound(r)'
        BY <2>6, <3>1 DEF CheckAbsent, TypeOK, Goto, ScannedSound, RestoreInv
      <4> QED BY <2>6, <3>1, <4>1, RunMoves DEF CheckAbsent
    <3> QED BY <2>6, <3>1, RunFails DEF CheckAbsent
  <2>7. ASSUME NEW r \in Run, RenameStaging(r) PROVE RestoreInv'
    <3>1. CASE dest.is \in {"absent", "empty"}
      <4>1. /\ pc' \in {[pc EXCEPT ![r] = l] : l \in {"done", "failed"}}
            /\ dest' = [is |-> "restored", by |-> r] /\ UNCHANGED staged
            /\ pc[r] = "rename"
        BY <2>7, <3>1 DEF RenameStaging
      <4>2. pc'[r] \in {"done", "failed"} /\ \A q \in Run \ {r} : pc'[q] = pc[q]
        BY <4>1 DEF TypeOK
      <4>3. dest'.by = r /\ r # None /\ dest.by = None
        BY <3>1, <4>1, RestoreAssumption DEF RestoreInv
      <4>4. staged[r] \in Copy /\ staged[r].blobs # "damaged"
        BY <4>1 DEF RestoreInv, ScannedSound
      <4>5. ScannedSound(r)' /\ InstalledSound(r)'
        BY <4>1, <4>2, <4>3, <4>4 DEF ScannedSound, InstalledSound
      <4>6. ASSUME NEW q \in Run \ {r}
            PROVE  ScannedSound(q)' /\ InstalledSound(q)'
        <5>1. q # None
          BY RestoreAssumption
        <5> QED
          BY <4>1, <4>2, <4>3, <5>1 DEF RestoreInv, ScannedSound, InstalledSound
      <4> QED BY <4>1, <4>3, <4>5, <4>6 DEF RestoreInv
    <3> QED BY <2>7, <3>1, RunFails DEF RenameStaging
  <2>8. ASSUME NEW r \in Run, Abort(r) PROVE RestoreInv'
    BY <2>8, RunFails DEF Abort
  <2>9. CASE DamageBlobs
    <3>1. ASSUME NEW r \in Run PROVE ScannedSound(r)' /\ InstalledSound(r)'
      <4>1. ScannedSound(r) /\ InstalledSound(r) /\ UNCHANGED <<pc, dest>>
        BY <2>9 DEF RestoreInv, DamageBlobs
      <4>2. CASE staged'[r] = staged[r]
        BY <4>1, <4>2, RunKept
      <4>3. CASE staged'[r] # staged[r]
        <5>1. /\ staged[r] \in Copy
              /\ staged'[r] = [staged[r] EXCEPT !.blobs =
                                 IF Scanned(r) THEN "rotted" ELSE "damaged"]
          BY <2>9, <4>3 DEF DamageBlobs, TypeOK
        <5>2. PICK b \in {"rotted", "damaged"} :
                /\ staged'[r] = [staged[r] EXCEPT !.blobs = b]
                /\ Scanned(r) => b = "rotted"
          BY <5>1
        <5>3. staged'[r] \in Copy /\ staged'[r].blobs = b
          BY <5>1, <5>2 DEF Copy
        <5> QED
          BY <4>1, <5>2, <5>3 DEF ScannedSound, InstalledSound, Scanned
      <4> QED BY <4>2, <4>3
    <3> QED BY <2>9, <3>1 DEF RestoreInv, DamageBlobs
  <2>10. CASE OthersUseDestination
    <3>1. /\ UNCHANGED <<pc, staged>> /\ dest'.by = dest.by
          /\ dest.is # "restored" /\ dest'.is # "restored"
      BY <2>10 DEF OthersUseDestination, TypeOK, Dest
    <3> QED BY <3>1, RunKept DEF RestoreInv
  <2>11. CASE DamageDatabase \/ Tick \/ UNCHANGED vars
    <3>1. UNCHANGED <<pc, staged, dest>>
      BY <2>11 DEF DamageDatabase, Tick, vars
    <3> QED BY <3>1, RunKept DEF RestoreInv
  <2> QED
    BY <2>1, <2>2, <2>3, <2>4, <2>5, <2>6, <2>7, <2>8, <2>9, <2>10, <2>11
       DEF Next
<1> QED BY <1>1, <1>2, RestoreTypes, PTL DEF Spec

\* A run that reports success has its own archive at the destination, however
\* many others race it and fail.
THEOREM SuccessInstalled == Spec => []SuccessIsInstalled
<1>1. RestoreInv => SuccessIsInstalled
  BY DEF RestoreInv, InstalledSound, SuccessIsInstalled
<1> QED BY <1>1, RestoreInvariant, PTL

\* What is installed was scanned intact in the second pass: damage between the
\* passes, or between the copy and the scan, never reaches the destination.
THEOREM InstalledScanned == Spec => []InstalledAsScanned
<1>1. TypeOK /\ RestoreInv => InstalledAsScanned
  BY DEF TypeOK, Dest, RestoreInv, InstalledSound, InstalledAsScanned
<1> QED BY <1>1, RestoreTypes, RestoreInvariant, PTL

\* Neither another program's directory nor another run's archive is replaced.
THEOREM NeverOverwritten == Spec => RestoreNeverOverwrites
<1>1. [Next]_vars => [dest.is \in {"foreign", "restored"} => dest' = dest]_vars
  BY DEF Next, Validate, CopyBackup, ScanStaged, CheckDestination,
     ClearDestination, CheckAbsent, RenameStaging, Abort, DamageDatabase,
     DamageBlobs, OthersUseDestination, Tick, vars
<1> QED BY <1>1, PTL DEF Spec, RestoreNeverOverwrites

=============================================================================
