-------------------------------- MODULE SyncLock --------------------------------
(***************************************************************************)
(* RepositorySyncLock of auto_sync.py: the lock file in the Git directory  *)
(* that keeps two processes from syncing one checkout.  Unlike the vault   *)
(* writer lock it is reclaimed: a process that finds it older than thirty  *)
(* minutes, with an owner that no longer runs, removes it and tries once   *)
(* more.  Looking at the file, reading it, asking for its owner, and       *)
(* removing it are steps of their own, and the file may be another one at  *)
(* each of them.                                                           *)
(*                                                                         *)
(* Creating the file and writing the owner into it are one step here.      *)
(***************************************************************************)
EXTENDS Naturals, FiniteSets

CONSTANTS
    Process,    \* processes, each with a pid of its own
    Nobody,     \* no lock file, or an owner that cannot be read
    MaxDeaths   \* bound: processes that die

ASSUME SyncLockAssumption ==
    /\ Nobody \notin Process
    /\ MaxDeaths \in Nat

VARIABLES
    owner,   \* the pid in the lock file; Nobody: there is no lock file
    old,     \* the lock file is older than thirty minutes
    pc,      \* where each process is in acquire, or that it holds the lock
    seen,    \* the owner each process has read
    dead     \* the processes that are gone

vars == <<owner, old, pc, seen, dead>>

Phase == {"idle", "create", "stat", "read", "probe", "unlink", "create again", "held", "dead"}

Go(p, phase) == pc' = [pc EXCEPT ![p] = phase]

\* open(O_CREAT | O_EXCL): the second failure is final.
Create(p) ==
    /\ pc[p] \in {"create", "create again"}
    /\ IF owner = Nobody
         THEN owner' = p /\ old' = FALSE /\ Go(p, "held")
         ELSE Go(p, IF pc[p] = "create" THEN "stat" ELSE "idle") /\ UNCHANGED <<owner, old>>
    /\ UNCHANGED <<seen, dead>>

Try(p) ==
    /\ pc[p] = "idle"
    /\ Go(p, "create")
    /\ UNCHANGED <<owner, old, seen, dead>>

\* A file that is gone counts as removed.
Stat(p) ==
    /\ pc[p] = "stat"
    /\ Go(p, IF owner = Nobody THEN "create again" ELSE IF old THEN "read" ELSE "idle")
    /\ UNCHANGED <<owner, old, seen, dead>>

\* A file that cannot be read, because it is gone too, has no owner.
ReadOwner(p) ==
    /\ pc[p] = "read"
    /\ seen' = [seen EXCEPT ![p] = owner]
    /\ Go(p, "probe")
    /\ UNCHANGED <<owner, old, dead>>

\* Mutant: every owner counts as running.
ProbeNobody(p) ==
    /\ pc[p] = "probe"
    /\ Go(p, "idle")
    /\ UNCHANGED <<owner, old, seen, dead>>

ProbeOwner(p) ==
    /\ pc[p] = "probe"
    /\ Go(p, IF seen[p] \in Process \ dead THEN "idle" ELSE "unlink")
    /\ UNCHANGED <<owner, old, seen, dead>>

\* unlink removes whatever lock file is there by now.
Unlink(p) ==
    /\ pc[p] = "unlink"
    /\ owner' = Nobody
    /\ old' = FALSE
    /\ Go(p, "create again")
    /\ UNCHANGED <<seen, dead>>

\* release() does not look into the file either.
Release(p) ==
    /\ pc[p] = "held"
    /\ owner' = Nobody
    /\ old' = FALSE
    /\ Go(p, "idle")
    /\ UNCHANGED <<seen, dead>>

Die(p) ==
    /\ p \notin dead
    /\ Cardinality(dead) < MaxDeaths
    /\ dead' = dead \union {p}
    /\ Go(p, "dead")
    /\ UNCHANGED <<owner, old, seen>>

LockFileAges ==
    /\ owner # Nobody
    /\ ~old
    /\ old' = TRUE
    /\ UNCHANGED <<owner, pc, seen, dead>>

Init ==
    /\ owner = Nobody
    /\ old = FALSE
    /\ pc = [p \in Process |-> "idle"]
    /\ seen = [p \in Process |-> Nobody]
    /\ dead = {}

AcquireStep(p) == Create(p) \/ Stat(p) \/ ReadOwner(p) \/ ProbeOwner(p) \/ Unlink(p)

Next ==
    \/ \E p \in Process : Try(p) \/ AcquireStep(p) \/ Release(p) \/ Die(p)
    \/ LockFileAges

Spec == Init /\ [][Next]_vars

\* A process that syncs tries again after every refusal, and passes end.
Fairness ==
    /\ \A p \in Process : WF_vars(Try(p) \/ AcquireStep(p) \/ Release(p))
    /\ WF_vars(LockFileAges)

LiveSpec == Spec /\ Fairness

---------------------------------------------------------------------------------
(* Properties. *)

TypeOK ==
    /\ owner \in Process \union {Nobody}
    /\ old \in BOOLEAN
    /\ pc \in [Process -> Phase]
    /\ seen \in [Process -> Process \union {Nobody}]
    /\ dead \subseteq Process

\* A lock file that a dead process left does not stop the others for ever: it is
\* found, seen to be old and ownerless, and removed, as long as anybody is alive.
AbandonedLockIsReclaimed ==
    (owner \in dead) ~> (owner \notin dead \/ dead = Process)

\* docs/OPERATIONS.md:87: the lock file is reclaimed only when its owner does not
\* run any more.  Between the look at the file and its removal it may have become
\* the lock of another pass.
ReclaimsOnlyDeadOwners ==
    [][\A p \in Process : Unlink(p) => owner \notin Process \ dead]_vars
=================================================================================
