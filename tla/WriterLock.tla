------------------------------- MODULE WriterLock -------------------------------
(***************************************************************************)
(* The vault writer lock: the file `.print-drive-vault.lock' beside the    *)
(* encrypted output directory (writer_lock.mjs).  Every program that       *)
(* changes the output directory (encryption, migration, update apply,      *)
(* password rotation) opens the file with O_EXCL, works, and removes it.   *)
(* A second writer does not wait: its open fails and its run ends.  A      *)
(* writer that is killed leaves the file behind; nothing reclaims it, and  *)
(* docs/OPERATIONS.md lets a person delete it once every writer process    *)
(* has stopped.                                                            *)
(***************************************************************************)
CONSTANTS
    Writer,     \* the processes that may run a vault writer
    Free,       \* the lock file does not exist
    Abandoned   \* the lock file exists and the process that made it is gone

ASSUME WriterLockAssumption ==
    /\ Free \notin Writer
    /\ Abandoned \notin Writer
    /\ Free # Abandoned

VARIABLE lock   \* the lock file: Free, Abandoned, or the writer whose token it holds

LockStates == Writer \union {Free, Abandoned}

InitLock == lock = Free

\* Mutant: the lock file is opened without O_EXCL.
AcquireLockShared(w) == lock' = w

\* open(lockPath, 'wx') succeeds only when the file does not exist.
AcquireLock(w) ==
    /\ lock = Free
    /\ lock' = w

\* release(): the file goes only when it still holds this run's token.
ReleaseLock(w) ==
    lock' = IF lock = w THEN Free ELSE lock

\* The process dies between acquire and release.
AbandonLock(w) ==
    lock' = IF lock = w THEN Abandoned ELSE lock

\* The documented manual step: with no writer process left, delete the file.
RemoveAbandonedLock ==
    /\ lock = Abandoned
    /\ lock' = Free
=================================================================================
