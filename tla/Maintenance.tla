---------------------------- MODULE Maintenance ----------------------------
(***************************************************************************)
(* The maintenance gate that keeps requests and backups apart.  It has two *)
(* parts: an advisory lock on a file, which requests and the server's      *)
(* bootstrap take shared and a backup takes exclusively, and which the     *)
(* operating system drops when its process dies; and a lease, one row of   *)
(* the database, which a pending backup claims so that requests fail fast, *)
(* and which outlives a process that dies.                                 *)
(*                                                                         *)
(* A backup is one run of the command, so that its identity is also its    *)
(* lease token (a fresh UUID per acquisition).  Attempts that find the     *)
(* lock taken and return "busy" change nothing and are not actions.        *)
(***************************************************************************)
EXTENDS Naturals

CONSTANTS
    Request,       \* operations under a SharedPermit: API requests, sweeps, scans
    Bootstrap,     \* the server's start, under a SharedFilePermit
    Backup,        \* runs of backup create
    LeaseDuration, \* LEASE_DURATION
    WaitLimit,     \* EXCLUSIVE_WAIT_LIMIT
    MaxClock,      \* bound on the clock
    None

Sharer == Request \cup {Bootstrap}

ASSUME GateAssumption ==
    /\ LeaseDuration \in Nat \ {0}
    /\ WaitLimit \in Nat
    /\ MaxClock \in Nat
    /\ Bootstrap \notin Request
    /\ None \notin Backup \cup Sharer

VARIABLES
    sharers,  \* SUBSET Sharer     holders of the shared file lock
    owner,    \* Backup or None    holder of the exclusive file lock
    lease,    \* [token, until]    the row of maintenance_gate
    entry,    \* [Sharer -> Entry] progress of the shared acquisitions
    hold,     \* [Backup -> ...]   progress of the exclusive acquisitions
    since,    \* [Backup -> Nat]   when the lease was claimed
    clock

gateVars == <<sharers, owner, lease, entry, hold, since, clock>>

Entry == [pc : {"out", "check", "expire", "in"},
          tries : 0..1,                 \* completed rounds of maintenance_is_active
          seen : Backup \cup {None}]    \* the expired token it has read

Hold == {"idle", "waiting", "working", "unlocking", "done", "dead"}

NoLease == [token |-> None, until |-> 0]
Out == [pc |-> "out", tries |-> 0, seen |-> None]
Checking(tries) == [pc |-> "check", tries |-> tries, seen |-> None]

GateTypeOK ==
    /\ sharers \in SUBSET Sharer
    /\ owner \in Backup \cup {None}
    /\ lease \in [token : Backup \cup {None}, until : Nat]
    /\ entry \in [Sharer -> Entry]
    /\ hold \in [Backup -> Hold]
    /\ since \in [Backup -> Nat]
    /\ clock \in Nat

GateInit ==
    /\ sharers = {}
    /\ owner = None
    /\ lease = NoLease
    /\ entry = [p \in Sharer |-> Out]
    /\ hold = [b \in Backup |-> "idle"]
    /\ since = [b \in Backup |-> 0]
    /\ clock = 0

LeaseActive == lease.token # None /\ lease.until > clock

-----------------------------------------------------------------------------
(* The shared side: SharedPermit::acquire and SharedFilePermit::acquire *)

\* The file lock comes first; a bootstrap migrates the schema under it.
TakeShared(p) ==
    /\ entry[p].pc = "out"
    /\ owner = None
    /\ sharers' = sharers \cup {p}
    /\ entry' = [entry EXCEPT ![p] = Checking(0)]
    /\ UNCHANGED <<owner, lease, hold, since, clock>>

\* The permit is dropped: the request ends, fails or is refused.
Leave(p) ==
    /\ sharers' = sharers \ {p}
    /\ entry' = [entry EXCEPT ![p] = Out]

\* maintenance_is_active: one read of the row.
CheckLease(p) ==
    /\ entry[p].pc = "check"
    /\ \/ /\ lease.token = None
          /\ entry' = [entry EXCEPT ![p].pc = "in"]
          /\ UNCHANGED sharers
       \/ LeaseActive /\ Leave(p)
       \/ /\ lease.token # None /\ ~LeaseActive
          /\ entry' = [entry EXCEPT ![p].pc = "expire", ![p].seen = lease.token]
          /\ UNCHANGED sharers
    /\ UNCHANGED <<owner, lease, hold, since, clock>>

\* Mutant: the expired lease is cleared without comparing the token.
ExpireAnyToken(p) ==
    /\ entry[p].pc = "expire"
    /\ lease' = NoLease
    /\ \/ entry[p].tries = 1 /\ Leave(p)
       \/ /\ entry[p].tries = 0
          /\ entry' = [entry EXCEPT ![p] = Checking(1)]
          /\ UNCHANGED sharers
    /\ UNCHANGED <<owner, hold, since, clock>>

\* Mutant: the rounds are not counted.
ExpireUncounted(p) ==
    /\ entry[p].pc = "expire"
    /\ lease' = IF lease.token = entry[p].seen THEN NoLease ELSE lease
    /\ entry' = [entry EXCEPT ![p] = Checking(entry[p].tries + 1)]
    /\ UNCHANGED <<sharers, owner, hold, since, clock>>

\* The conditional update that clears the expired lease it has read, and only
\* that one; after the second round the gate counts as active.
ExpireLease(p) ==
    /\ entry[p].pc = "expire"
    /\ lease' = IF lease.token = entry[p].seen THEN NoLease ELSE lease
    /\ \/ entry[p].tries = 1 /\ Leave(p)
       \/ /\ entry[p].tries = 0
          /\ entry' = [entry EXCEPT ![p] = Checking(1)]
          /\ UNCHANGED sharers
    /\ UNCHANGED <<owner, hold, since, clock>>

\* A request or a bootstrap ends, or is dropped before it was let in.
LeaveShared(p) ==
    /\ entry[p].pc # "out"
    /\ Leave(p)
    /\ UNCHANGED <<owner, lease, hold, since, clock>>

\* The server dies: the operating system drops its locks.
DropSharers ==
    /\ sharers' = {}
    /\ entry' = [p \in Sharer |-> Out]
    /\ UNCHANGED <<owner, lease, hold, since, clock>>

-----------------------------------------------------------------------------
(* The exclusive side: ExclusivePermit *)

\* claim_lease.  Bound: only leases that expire within MaxClock are claimed.
ClaimLease(b) ==
    /\ hold[b] = "idle"
    /\ clock + LeaseDuration <= MaxClock
    /\ IF LeaseActive
         THEN /\ hold' = [hold EXCEPT ![b] = "done"]
              /\ UNCHANGED <<lease, since>>
         ELSE /\ lease' = [token |-> b, until |-> clock + LeaseDuration]
              /\ since' = [since EXCEPT ![b] = clock]
              /\ hold' = [hold EXCEPT ![b] = "waiting"]
    /\ UNCHANGED <<sharers, owner, entry, clock>>

\* Mutant: clear_lease without the token in its WHERE clause.
ClearAnyLease(b) == lease' = NoLease

\* clear_lease: only the lease this backup claimed.
ClearLease(b) == lease' = IF lease.token = b THEN NoLease ELSE lease

\* Mutant: only another backup stands in the way.
NoOwner == owner = None

LockFree == owner = None /\ sharers = {}

TakeExclusive(b) ==
    /\ hold[b] = "waiting"
    /\ LockFree
    /\ owner' = b
    /\ hold' = [hold EXCEPT ![b] = "working"]
    /\ UNCHANGED <<sharers, lease, entry, since, clock>>

\* Mutant: the wait has no limit.
NeverGiveUp(b) == FALSE /\ UNCHANGED gateVars

\* A poll finds the lock taken after the limit.  A failing clear is ignored.
GiveUp(b) ==
    /\ hold[b] = "waiting"
    /\ ~LockFree
    /\ clock >= since[b] + WaitLimit
    /\ ClearLease(b) \/ UNCHANGED lease
    /\ hold' = [hold EXCEPT ![b] = "done"]
    /\ UNCHANGED <<sharers, owner, entry, since, clock>>

\* The lock file cannot be opened or locked.
AcquireFails(b) ==
    /\ hold[b] = "waiting"
    /\ ClearLease(b) \/ UNCHANGED lease
    /\ hold' = [hold EXCEPT ![b] = "done"]
    /\ UNCHANGED <<sharers, owner, entry, since, clock>>

\* release.  If the lease cannot be cleared the permit, and with it the file
\* lock, is dropped and the lease stays until it expires.
ReleaseLease(b) ==
    /\ hold[b] = "working"
    /\ \/ /\ ClearLease(b)
          /\ hold' = [hold EXCEPT ![b] = "unlocking"]
          /\ UNCHANGED owner
       \/ /\ UNCHANGED lease
          /\ hold' = [hold EXCEPT ![b] = "done"]
          /\ owner' = None
    /\ UNCHANGED <<sharers, entry, since, clock>>

Unlock(b) ==
    /\ hold[b] = "unlocking"
    /\ owner' = None
    /\ hold' = [hold EXCEPT ![b] = "done"]
    /\ UNCHANGED <<sharers, lease, entry, since, clock>>

\* The process dies: the file lock is dropped, the lease stays.
Die(b) ==
    /\ hold[b] \in {"waiting", "working", "unlocking"}
    /\ hold' = [hold EXCEPT ![b] = "dead"]
    /\ owner' = IF owner = b THEN None ELSE owner
    /\ UNCHANGED <<sharers, lease, entry, since, clock>>

Tick ==
    /\ clock < MaxClock
    /\ clock' = clock + 1
    /\ UNCHANGED <<sharers, owner, lease, entry, hold, since>>

GateNext ==
    \/ \E p \in Sharer :
          TakeShared(p) \/ CheckLease(p) \/ ExpireLease(p) \/ LeaveShared(p)
    \/ DropSharers
    \/ \E b \in Backup :
          \/ ClaimLease(b) \/ TakeExclusive(b) \/ GiveUp(b) \/ AcquireFails(b)
          \/ ReleaseLease(b) \/ Unlock(b) \/ Die(b)
    \/ Tick

\* The gate by itself, which every composition with its users implements.
GateSpec == GateInit /\ [][GateNext]_gateVars

-----------------------------------------------------------------------------
(* Properties *)

Pending(b) == hold[b] \in {"waiting", "working"}

\* The two sides exclude each other: while a backup is between taking and
\* dropping the file lock no request or bootstrap is inside, and there is one
\* such backup at most, also when a lease expired under its owner.
Excluded ==
    /\ \A p \in Sharer : entry[p].pc # "out" => p \in sharers /\ owner = None
    /\ \A b \in Backup : hold[b] \in {"working", "unlocking"} <=> owner = b

\* The lease of a pending backup stands until its own time is over: neither a
\* request that read an older, expired lease, nor a slow backup that releases
\* after its lease was taken over, clears it.
PendingLeaseStands ==
    \A b \in Backup : Pending(b) /\ clock < since[b] + LeaseDuration =>
        lease = [token |-> b, until |-> since[b] + LeaseDuration]

\* maintenance.rs: the lease "prevents fresh requests from entering while a
\* backup is pending".
NoEntryWhilePending ==
    [][\A p \in Sharer : entry[p].pc # "in" /\ entry'[p].pc = "in" =>
          \A b \in Backup : Pending(b) => clock >= since[b] + LeaseDuration]_gateVars

\* Every maintenance window closes: the lease ends, also one whose backup died
\* or could not clear it, and every backup that claimed it ends, however many
\* requests keep coming and take the shared lock only to be refused.
Maintaining ==
    LeaseActive \/ \E b \in Backup : hold[b] \in {"waiting", "working", "unlocking"}

WindowCloses == Maintaining ~> ~Maintaining
=============================================================================
