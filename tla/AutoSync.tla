-------------------------------- MODULE AutoSync --------------------------------
(***************************************************************************)
(* auto_sync.py: the watcher that encrypts source changes, commits the     *)
(* encrypted output and pushes it.                                         *)
(*                                                                         *)
(* One watcher process runs at a time.  In it, the observer thread reports *)
(* source events, and every scheduled pass is a threading.Timer of its     *)
(* own: a timer that fired is a thread in run_scheduled_sync, and several  *)
(* of them can be there at once.  A pass takes the thread lock without     *)
(* waiting, then the lock file in the Git directory.  The branch, its      *)
(* remote-tracking branch and the remote are sequences of commits.         *)
(*                                                                         *)
(* Time is abstract: a pending timer may fire at any moment, whatever its  *)
(* delay.  Encryption and the vault are the business of VaultPublish; here *)
(* the encrypted output is the version of the source it was made from.     *)
(***************************************************************************)
EXTENDS Naturals, Sequences, SequencesExt

CONSTANTS
    Thread,      \* timers and the threads they become (bound: how many at once)
    None,        \* no timer, no lock holder
    Leaked,      \* the thread lock is held by a thread that died
    Faults,      \* the kinds of faults that may happen, see Fault
    MaxChanges,  \* bound: changes of the source
    MaxOthers,   \* bound: commits that others push
    MaxFaults    \* bound: faults in one behaviour

FaultKinds == {"network", "git", "refuse", "encrypt", "probe", "kill", "dirty"}

ASSUME SyncAssumption ==
    /\ None \notin Thread
    /\ Leaked \notin Thread
    /\ None # Leaked
    /\ Faults \subseteq FaultKinds
    /\ MaxChanges \in Nat
    /\ MaxOthers \in Nat
    /\ MaxFaults \in Nat

VARIABLES
    source,      \* the version of the plaintext source
    events,      \* source events the observer has not delivered yet
    alive,       \* the watcher process runs
    handler,     \* the observer thread: between its two steps, or not
    needsEncrypt, generation, timer, syncLock,  \* as in SyncHandler
    pc, pass,    \* each timer thread: where it is, and its local state
    lockFile,    \* .git/print-drive-sync.lock: "free", "ours", "left" by a killed process, "old"
    output,      \* the source version the encrypted output was made from
    otherDirty,  \* the worktree has changes outside the encrypted output
    passphrase,  \* a passphrase is configured
    skipped,     \* the last pass that should encrypt found no passphrase
    head, tracked, remote,  \* the branch, refs/remotes/origin/..., the remote branch
    faults       \* faults so far

handlerVars == <<needsEncrypt, generation>>
gitVars == <<head, tracked, remote>>
treeVars == <<output, otherDirty, passphrase, skipped>>
vars == <<source, events, alive, handler, needsEncrypt, generation, timer, syncLock, pc,
          pass, lockFile, output, otherDirty, passphrase, skipped, head, tracked, remote,
          faults>>

---------------------------------------------------------------------------------
(* Data. *)

\* A commit: who made it, and the encrypted output it holds.
Commit == [by : {"sync", "other"}, out : Nat]

Ending == {"ok", "diverged", "pending", "failed"}

\* encrypt  should_encrypt      seen  the source version encryption read
\* gen      the generation      ends  how the pass ended
Pass == [encrypt : BOOLEAN, gen : Nat, seen : Nat, ends : Ending]

NoPass == [encrypt |-> FALSE, gen |-> 0, seen |-> 0, ends |-> "ok"]

ThreadPhase == {"free", "waiting", "fired", "lock", "repository", "read", "prepare",
                "encrypt", "write", "clear", "commit", "fetch", "push", "handle",
                "unlock", "after"}

\* git rev-list --left-right --count HEAD...@{upstream}
Ahead == ~IsPrefix(head, tracked)
Behind == ~IsPrefix(tracked, head)

\* git status --porcelain, of the whole worktree and of the output only.
OutputDirty == output # Last(head).out
Dirty == OutputDirty \/ otherDirty

Fault(kind) ==
    /\ kind \in Faults
    /\ faults < MaxFaults
    /\ faults' = faults + 1

Go(t, phase) == pc' = [pc EXCEPT ![t] = phase]

\* The pass ends with an exception, or returns.
EndPass(t, ends) ==
    /\ pc' = [pc EXCEPT ![t] = "handle"]
    /\ pass' = [pass EXCEPT ![t].ends = ends]

\* schedule_sync: the timer it knows is cancelled, unless it has fired, and a new
\* one takes its place.  `from' is the thread map before, without the caller.
Schedule(from, new) ==
    LET cancelled == IF timer # None /\ from[timer] = "waiting"
                       THEN [from EXCEPT ![timer] = "free"] ELSE from
    IN  /\ cancelled[new] = "free"
        /\ pc' = [cancelled EXCEPT ![new] = "waiting"]
        /\ timer' = new

\* A thread that schedules and returns makes its own place free first.
ScheduleAndReturn(t) ==
    \E new \in Thread : Schedule([pc EXCEPT ![t] = "free"], new)

---------------------------------------------------------------------------------
(* Outside the watcher. *)

EditSource ==
    /\ source < MaxChanges
    /\ source' = source + 1
    /\ events' = IF alive THEN events + 1 ELSE events
    /\ UNCHANGED <<alive, handler, handlerVars, timer, syncLock, pc, pass, lockFile,
                   treeVars, gitVars, faults>>

\* Somebody else pushes a commit, of the app or of the encrypted output.
OtherPush ==
    /\ Len(SelectSeq(remote, LAMBDA c : c.by = "other")) <= MaxOthers
    /\ \E out \in {0, Last(remote).out} :
          remote' = Append(remote, [by |-> "other", out |-> out])
    /\ UNCHANGED <<source, events, alive, handler, handlerVars, timer, syncLock, pc, pass,
                   lockFile, treeVars, head, tracked, faults>>

\* A person edits other files of the checkout, and commits or stashes them.
DirtyTree ==
    /\ ~otherDirty
    /\ Fault("dirty")
    /\ otherDirty' = TRUE
    /\ UNCHANGED <<source, events, alive, handler, handlerVars, timer, syncLock, pc, pass,
                   lockFile, output, passphrase, skipped, gitVars>>

CleanTree ==
    /\ otherDirty
    /\ otherDirty' = FALSE
    /\ UNCHANGED <<source, events, alive, handler, handlerVars, timer, syncLock, pc, pass,
                   lockFile, output, passphrase, skipped, gitVars, faults>>

ProvidePassphrase ==
    /\ ~passphrase
    /\ passphrase' = TRUE
    /\ UNCHANGED <<source, events, alive, handler, handlerVars, timer, syncLock, pc, pass,
                   lockFile, output, otherDirty, skipped, gitVars, faults>>

\* The process ends at any point, by Ctrl-C or otherwise: its threads are daemons
\* and die with it, and encrypt_files.mjs may get to its commit or not.
KillWatcher ==
    /\ alive
    /\ Fault("kill")
    /\ alive' = FALSE
    /\ events' = 0
    /\ handler' = "idle"
    /\ needsEncrypt' = FALSE
    /\ generation' = 0
    /\ timer' = None
    /\ syncLock' = None
    /\ pc' = [t \in Thread |-> "free"]
    /\ pass' = [t \in Thread |-> NoPass]
    /\ lockFile' = IF lockFile = "ours" THEN "left" ELSE lockFile
    /\ output' \in {output} \union {pass[t].seen : t \in {u \in Thread : pc[u] = "write"}}
    /\ UNCHANGED <<source, otherDirty, passphrase, skipped, gitVars>>

\* main: the observer is started and the first reconcile is requested.
StartWatcher ==
    /\ ~alive
    /\ alive' = TRUE
    /\ needsEncrypt' = TRUE
    /\ generation' = generation + 1
    /\ handler' = "schedule"
    /\ UNCHANGED <<source, events, timer, syncLock, pc, pass, lockFile, treeVars, gitVars,
                   faults>>

\* Thirty minutes pass.
LockFileAges ==
    /\ lockFile = "left"
    /\ lockFile' = "old"
    /\ UNCHANGED <<source, events, alive, handler, handlerVars, timer, syncLock, pc, pass,
                   treeVars, gitVars, faults>>

---------------------------------------------------------------------------------
(* The observer thread. *)

\* on_any_event marks the change under state_lock, and then schedules.
MarkEvent ==
    /\ handler = "idle"
    /\ events > 0
    /\ events' = events - 1
    /\ needsEncrypt' = TRUE
    /\ generation' = generation + 1
    /\ handler' = "schedule"
    /\ UNCHANGED <<source, alive, timer, syncLock, pc, pass, lockFile, treeVars, gitVars, faults>>

ScheduleEvent ==
    /\ handler = "schedule"
    /\ \E new \in Thread : Schedule(pc, new)
    /\ handler' = "idle"
    /\ UNCHANGED <<source, events, alive, handlerVars, syncLock, pass, lockFile, treeVars,
                   gitVars, faults>>

---------------------------------------------------------------------------------
(* A timer thread: run_scheduled_sync. *)

unchangedOutside == UNCHANGED <<source, events, alive, handler>>

\* The timer's wait is over; from here on cancel() has no effect.
Fire(t) ==
    /\ pc[t] = "waiting"
    /\ Go(t, "fired")
    /\ unchangedOutside
    /\ UNCHANGED <<handlerVars, timer, syncLock, pass, lockFile, treeVars, gitVars, faults>>

\* self.timer = None, even when it is a newer timer by now.
ForgetTimer(t) ==
    /\ pc[t] = "fired"
    /\ timer' = None
    /\ Go(t, "lock")
    /\ unchangedOutside
    /\ UNCHANGED <<handlerVars, syncLock, pass, lockFile, treeVars, gitVars, faults>>

\* Mutant: the finally clause covers a lock that was not acquired.
TryThreadLockReleasing(t) ==
    /\ pc[t] = "lock"
    /\ \/ syncLock = None /\ syncLock' = t /\ Go(t, "repository") /\ UNCHANGED timer
       \/ syncLock # None /\ ScheduleAndReturn(t) /\ syncLock' = None
    /\ unchangedOutside
    /\ UNCHANGED <<handlerVars, pass, lockFile, treeVars, gitVars, faults>>

TryThreadLock(t) ==
    /\ pc[t] = "lock"
    /\ \/ syncLock = None /\ syncLock' = t /\ Go(t, "repository") /\ UNCHANGED timer
       \/ syncLock # None /\ ScheduleAndReturn(t) /\ UNCHANGED syncLock
    /\ unchangedOutside
    /\ UNCHANGED <<handlerVars, pass, lockFile, treeVars, gitVars, faults>>

\* RepositorySyncLock(...) runs git before the try block: when git cannot be
\* started the thread dies and nobody releases the thread lock.
ProbeFails(t) ==
    /\ pc[t] = "repository"
    /\ Fault("probe")
    /\ syncLock' = Leaked
    /\ Go(t, "free")
    /\ unchangedOutside
    /\ UNCHANGED <<handlerVars, timer, pass, lockFile, treeVars, gitVars>>

\* A lock file of another process makes the pass try again later; an old one
\* whose owner is gone is removed first.
TryLockFile(t) ==
    /\ pc[t] = "repository"
    /\ \/ /\ lockFile \in {"free", "old"}
          /\ lockFile' = "ours"
          /\ Go(t, "read")
          /\ UNCHANGED <<timer, syncLock>>
       \/ /\ lockFile = "left"
          /\ ScheduleAndReturn(t)
          /\ syncLock' = None
          /\ UNCHANGED lockFile
    /\ unchangedOutside
    /\ UNCHANGED <<handlerVars, pass, treeVars, gitVars, faults>>

\* should_encrypt and the generation are read together, under state_lock.
ReadNeed(t) ==
    /\ pc[t] = "read"
    /\ pass' = [pass EXCEPT ![t] = [NoPass EXCEPT !.encrypt = needsEncrypt, !.gen = generation]]
    /\ Go(t, IF needsEncrypt THEN "prepare" ELSE "commit")
    /\ unchangedOutside
    /\ UNCHANGED <<handlerVars, timer, syncLock, lockFile, treeVars, gitVars, faults>>

\* Mutant: a checkout that is behind is not fast-forwarded.
PrepareWithoutMerge(t) ==
    /\ pc[t] = "prepare"
    /\ tracked' = remote
    /\ IF Dirty \/ (~IsPrefix(head, remote) /\ ~IsPrefix(remote, head))
         THEN EndPass(t, "failed")
         ELSE Go(t, "encrypt") /\ UNCHANGED pass
    /\ unchangedOutside
    /\ UNCHANGED <<handlerVars, timer, syncLock, lockFile, treeVars, head, remote, faults>>

\* prepare_remote_base: fetch; refuse a dirty or diverged checkout; follow a
\* remote that is ahead; go on when only the local branch is.
Prepare(t) ==
    /\ pc[t] = "prepare"
    /\ \/ /\ \/ Fault("network") /\ EndPass(t, "pending")
             \/ Fault("git") /\ EndPass(t, "failed")
          /\ UNCHANGED <<head, tracked, output>>
       \/ /\ tracked' = remote
          /\ UNCHANGED faults
          /\ IF Dirty
               THEN EndPass(t, "failed") /\ UNCHANGED <<head, output>>
               ELSE \/ /\ ~IsPrefix(head, remote)
                       /\ ~IsPrefix(remote, head)
                       /\ EndPass(t, "diverged")
                       /\ UNCHANGED <<head, output>>
                    \/ /\ IsPrefix(remote, head)
                       /\ Go(t, "encrypt")
                       /\ UNCHANGED <<head, output, pass>>
                    \/ /\ IsStrictPrefix(head, remote)
                       /\ head' = remote
                       /\ output' = Last(remote).out
                       /\ Go(t, "encrypt")
                       /\ UNCHANGED pass
    /\ unchangedOutside
    /\ UNCHANGED <<handlerVars, timer, syncLock, lockFile, otherDirty, passphrase, skipped,
                   remote>>

\* wait_for_source_stability and the start of encrypt_files.mjs.
ReadSource(t) ==
    /\ pc[t] = "encrypt"
    /\ \/ /\ Fault("encrypt")
          /\ EndPass(t, "failed")
          /\ UNCHANGED skipped
       \/ /\ ~passphrase
          /\ skipped' = TRUE
          /\ Go(t, "clear")
          /\ UNCHANGED <<pass, faults>>
       \/ /\ passphrase
          /\ pass' = [pass EXCEPT ![t].seen = source]
          /\ Go(t, "write")
          /\ UNCHANGED <<skipped, faults>>
    /\ unchangedOutside
    /\ UNCHANGED <<handlerVars, timer, syncLock, lockFile, output, otherDirty, passphrase,
                   gitVars>>

\* encrypt_files.mjs ends; when it fails it may have committed its manifest or not.
WriteOutput(t) ==
    /\ pc[t] = "write"
    /\ \/ /\ output' = pass[t].seen
          /\ skipped' = FALSE
          /\ Go(t, "clear")
          /\ UNCHANGED <<pass, faults>>
       \/ /\ Fault("encrypt")
          /\ output' \in {output, pass[t].seen}
          /\ EndPass(t, "failed")
          /\ UNCHANGED skipped
    /\ unchangedOutside
    /\ UNCHANGED <<handlerVars, timer, syncLock, lockFile, otherDirty, passphrase, gitVars>>

\* Mutant: the generation is not compared.
ClearNeedBlindly(t) ==
    /\ pc[t] = "clear"
    /\ needsEncrypt' = FALSE
    /\ Go(t, "commit")
    /\ unchangedOutside
    /\ UNCHANGED <<generation, timer, syncLock, pass, lockFile, treeVars, gitVars, faults>>

\* The need is met unless an event came in since it was read.
ClearNeed(t) ==
    /\ pc[t] = "clear"
    /\ needsEncrypt' = (needsEncrypt /\ generation # pass[t].gen)
    /\ Go(t, "commit")
    /\ unchangedOutside
    /\ UNCHANGED <<generation, timer, syncLock, pass, lockFile, treeVars, gitVars, faults>>

\* git add and git commit --only, of the output.
CommitOutput(t) ==
    /\ pc[t] = "commit"
    /\ \/ /\ Fault("git")
          /\ EndPass(t, "failed")
          /\ UNCHANGED head
       \/ /\ head' = IF OutputDirty THEN Append(head, [by |-> "sync", out |-> output])
                                    ELSE head
          /\ Go(t, "fetch")
          /\ UNCHANGED <<pass, faults>>
    /\ unchangedOutside
    /\ UNCHANGED <<handlerVars, timer, syncLock, lockFile, treeVars, tracked, remote>>

\* The second fetch, and how far the two branches are apart.
FetchRemote(t) ==
    /\ pc[t] = "fetch"
    /\ \/ Fault("network") /\ EndPass(t, "pending") /\ UNCHANGED tracked
       \/ Fault("git") /\ EndPass(t, "failed") /\ UNCHANGED tracked
       \/ /\ tracked' = remote
          /\ UNCHANGED faults
          /\ \/ ~IsPrefix(remote, head) /\ EndPass(t, "diverged")
             \/ remote = head /\ EndPass(t, "ok")
             \/ IsStrictPrefix(remote, head) /\ Go(t, "push") /\ UNCHANGED pass
    /\ unchangedOutside
    /\ UNCHANGED <<handlerVars, timer, syncLock, lockFile, treeVars, head, remote>>

\* Mutant: push --force.
PushForce(t) ==
    /\ pc[t] = "push"
    /\ remote' = head
    /\ tracked' = head
    /\ EndPass(t, "ok")
    /\ unchangedOutside
    /\ UNCHANGED <<handlerVars, timer, syncLock, lockFile, treeVars, head, faults>>

\* push_with_retry: a push whose output says "rejected" is taken for one that met a
\* remote that has moved, also when a hook or a protected branch refused it.
Push(t) ==
    /\ pc[t] = "push"
    /\ \/ /\ Fault("network")
          /\ EndPass(t, "pending")
          /\ UNCHANGED <<tracked, remote>>
       \/ /\ IsPrefix(remote, head)
          /\ remote' = head
          /\ tracked' = head
          /\ EndPass(t, "ok")
          /\ UNCHANGED faults
       \/ /\ ~IsPrefix(remote, head)
          /\ EndPass(t, "diverged")
          /\ UNCHANGED <<tracked, remote, faults>>
       \/ /\ Fault("refuse")
          /\ EndPass(t, "diverged")
          /\ UNCHANGED <<tracked, remote>>
    /\ unchangedOutside
    /\ UNCHANGED <<handlerVars, timer, syncLock, lockFile, treeVars, head>>

\* Mutant: a failed push is not tried again.
HandleEndingOnce(t) ==
    /\ pc[t] = "handle"
    /\ Go(t, "unlock")
    /\ unchangedOutside
    /\ UNCHANGED <<handlerVars, timer, syncLock, pass, lockFile, treeVars, gitVars, faults>>

\* The except clauses: a pending push is tried again; any other failure only while
\* there is something to encrypt; a branch that diverged, or whose push the remote
\* refused, waits for a person.
HandleEnding(t) ==
    /\ pc[t] = "handle"
    /\ \/ /\ pass[t].ends = "pending" \/ (pass[t].ends = "failed" /\ needsEncrypt)
          /\ \E new \in Thread : Schedule([pc EXCEPT ![t] = "unlock"], new)
       \/ /\ pass[t].ends \in {"ok", "diverged"} \/ (pass[t].ends = "failed" /\ ~needsEncrypt)
          /\ Go(t, "unlock")
          /\ UNCHANGED timer
    /\ unchangedOutside
    /\ UNCHANGED <<handlerVars, syncLock, pass, lockFile, treeVars, gitVars, faults>>

\* The finally clause.
Unlock(t) ==
    /\ pc[t] = "unlock"
    /\ lockFile' = "free"
    /\ syncLock' = None
    /\ pass' = [pass EXCEPT ![t] = NoPass]
    /\ Go(t, "after")
    /\ unchangedOutside
    /\ UNCHANGED <<handlerVars, timer, treeVars, gitVars, faults>>

\* Mutant: needs_encrypt is not looked at again after the pass.
CheckNothing(t) ==
    /\ pc[t] = "after"
    /\ Go(t, "free")
    /\ unchangedOutside
    /\ UNCHANGED <<handlerVars, timer, syncLock, pass, lockFile, treeVars, gitVars, faults>>

\* Whatever changed meanwhile gets one more pass.
CheckPending(t) ==
    /\ pc[t] = "after"
    /\ \/ needsEncrypt /\ ScheduleAndReturn(t)
       \/ ~needsEncrypt /\ Go(t, "free") /\ UNCHANGED timer
    /\ unchangedOutside
    /\ UNCHANGED <<handlerVars, syncLock, pass, lockFile, treeVars, gitVars, faults>>

---------------------------------------------------------------------------------
(* The specification. *)

\* The watcher is about to start in a checkout that is in step with its remote.
Init ==
    /\ source = 0
    /\ events = 0
    /\ alive = FALSE
    /\ handler = "idle"
    /\ needsEncrypt = FALSE
    /\ generation = 0
    /\ timer = None
    /\ syncLock = None
    /\ pc = [t \in Thread |-> "free"]
    /\ pass = [t \in Thread |-> NoPass]
    /\ lockFile = "free"
    /\ output = 0
    /\ otherDirty = FALSE
    /\ passphrase \in BOOLEAN
    /\ skipped = FALSE
    /\ head = <<[by |-> "other", out |-> 0]>>
    /\ tracked = head
    /\ remote = head
    /\ faults = 0

PassStep(t) == ReadNeed(t) \/ Prepare(t) \/ ReadSource(t) \/ WriteOutput(t) \/ ClearNeed(t)
               \/ CommitOutput(t) \/ FetchRemote(t) \/ Push(t)

ThreadStep(t) == Fire(t) \/ ForgetTimer(t) \/ TryThreadLock(t) \/ TryLockFile(t)
                 \/ PassStep(t) \/ HandleEnding(t) \/ Unlock(t) \/ CheckPending(t)

Next ==
    \/ \E t \in Thread : ThreadStep(t) \/ ProbeFails(t)
    \/ MarkEvent \/ ScheduleEvent
    \/ EditSource \/ OtherPush \/ DirtyTree \/ CleanTree \/ ProvidePassphrase
    \/ KillWatcher \/ StartWatcher \/ LockFileAges

Spec == Init /\ [][Next]_vars

\* Threads run, timers fire, events are delivered, and time passes.  A thread can
\* always make a timer; the bound on Thread may keep one waiting in the model, so
\* the steps that schedule need strong fairness.
Fairness ==
    /\ \A t \in Thread : /\ WF_vars(ThreadStep(t))
                         /\ SF_vars(HandleEnding(t))
    /\ WF_vars(MarkEvent)
    /\ SF_vars(ScheduleEvent)
    /\ WF_vars(LockFileAges)

LiveSpec == Spec /\ Fairness

---------------------------------------------------------------------------------
(* Properties. *)

TypeOK ==
    /\ source \in Nat
    /\ events \in Nat
    /\ alive \in BOOLEAN
    /\ handler \in {"idle", "schedule"}
    /\ needsEncrypt \in BOOLEAN
    /\ generation \in Nat
    /\ timer \in Thread \union {None}
    /\ syncLock \in Thread \union {None, Leaked}
    /\ pc \in [Thread -> ThreadPhase]
    /\ pass \in [Thread -> Pass]
    /\ lockFile \in {"free", "ours", "left", "old"}
    /\ output \in Nat
    /\ otherDirty \in BOOLEAN
    /\ passphrase \in BOOLEAN
    /\ skipped \in BOOLEAN
    /\ head \in Seq(Commit) /\ tracked \in Seq(Commit) /\ remote \in Seq(Commit)
    /\ faults \in Nat

\* A source change the running watcher has not encrypted is never forgotten: it
\* is marked, or its event is still to come.  The generation makes the flag
\* survive a change that arrives while encryption runs (run_sync_pass).
NoChangeForgotten ==
    alive => needsEncrypt \/ events > 0 \/ output = source \/ skipped

\* While there is something to encrypt somebody is going to look: a timer is
\* waiting, a pass is under way, or the observer is about to schedule one, for
\* every race of timers that fire, are cancelled, or are forgotten.
WorkIsScheduled ==
    alive /\ needsEncrypt /\ syncLock # Leaked =>
        handler = "schedule" \/ \E t \in Thread : pc[t] # "free"

\* No pass encrypts, and none pushes, while another one is between its two locks.
OnePassAtATime ==
    \A t \in Thread :
        pc[t] \in {"prepare", "encrypt", "write", "clear", "commit", "fetch", "push"} =>
            syncLock = t /\ lockFile = "ours"

\* Encryption never runs on top of a checkout that misses a commit of the remote
\* this process has fetched (prepare_remote_base).
EncryptsOnFetchedBase ==
    [][\A t \in Thread : WriteOutput(t) => ~Behind]_vars

\* Commits are never rewritten nor dropped: not the local ones, by whatever way a
\* pass ends, and not those of others, by a push.
CommitsArePreserved == [][IsPrefix(head, head') /\ IsPrefix(remote, remote')]_vars

\* What the process leaves to a person: it says so in its log.
NeedsPerson ==
    \/ ~alive \/ skipped \/ Dirty \/ syncLock = Leaked
    \/ ~IsPrefix(head, remote) /\ ~IsPrefix(remote, head)

Published == output = source /\ Last(head).out = output /\ IsPrefix(head, remote)

\* A pass gives up and leaves no timer, though its branch is only ahead of the remote: a
\* git error with nothing left to encrypt (line 332), or a push that the remote refused
\* and that was taken for a remote that has moved (lines 600 and 321).
GivesUp ==
    \E t \in Thread :
        /\ pc[t] = "handle"
        /\ \/ pass[t].ends = "failed" /\ ~needsEncrypt
           \/ pass[t].ends = "diverged" /\ IsPrefix(remote, head)

\* From here on no thread waits or works: those that are there are leaving.
NobodyReturns == \A t \in Thread : pc[t] \in {"free", "handle", "unlock", "after"}

\* Once sources rest and faults end, the last version is encrypted, committed and
\* pushed, or the checkout is in a state that only a person may change.  README.md:149
\* promises as much of a failed push; the exception is a pass that gives up with nobody
\* to come after it.
ChangesReachRemote == <>(GivesUp /\ []NobodyReturns) \/ <>[](Published \/ NeedsPerson)

---------------------------------------------------------------------------------
(* The inductive invariant. *)

\* Between acquiring and releasing the thread lock.
InLock == {"repository", "read", "prepare", "encrypt", "write", "clear", "commit", "fetch",
           "push", "handle", "unlock"}

LocksHeld ==
    \A t \in Thread :
        /\ pc[t] \in InLock => syncLock = t
        /\ pc[t] \in InLock \ {"repository"} => lockFile = "ours"

\* A watcher that is gone has no thread and gets no event.
DeadIsStill == ~alive => handler = "idle" /\ events = 0 /\ \A t \in Thread : pc[t] = "free"

\* While a pass encrypts, the need stays marked and the generation tells whether the
\* source changed since it looked.
PassFits(t) ==
    /\ pc[t] \in {"prepare", "encrypt", "write", "clear"} =>
           needsEncrypt /\ pass[t].gen <= generation
    /\ pc[t] \in {"encrypt", "write"} => ~Behind
    /\ pc[t] = "write" /\ pass[t].gen = generation => events > 0 \/ pass[t].seen = source
    /\ pc[t] = "clear" /\ pass[t].gen = generation => events > 0 \/ output = source \/ skipped

IInv ==
    /\ TypeOK
    /\ head # <<>> /\ tracked # <<>> /\ remote # <<>>
    /\ LocksHeld
    /\ DeadIsStill
    /\ \A t \in Thread : PassFits(t)
    /\ NoChangeForgotten
    /\ WorkIsScheduled
================================================================================
