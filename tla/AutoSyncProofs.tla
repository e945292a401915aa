----------------------------- MODULE AutoSyncProofs -----------------------------
(***************************************************************************)
(* The watcher forgets no change, lets one pass at a time encrypt and      *)
(* push, encrypts on top of what it fetched and rewrites no commit: for    *)
(* any number of timers, source changes, commits of others and faults.     *)
(***************************************************************************)
EXTENDS AutoSync, SequenceTheorems, TLAPS

---------------------------------------------------------------------------------
(* Prefixes of the three branches. *)

LEMMA PrefixIsReflexive ==
  ASSUME NEW S, NEW s \in Seq(S)
  PROVE  IsPrefix(s, s)
  BY DEF IsPrefix

LEMMA AppendKeepsPrefix ==
  ASSUME NEW S, NEW s \in Seq(S), NEW x \in S
  PROVE  /\ IsPrefix(s, Append(s, x))
         /\ Append(s, x) \in Seq(S) /\ Append(s, x) # <<>>
<1>. DEFINE t == Append(s, x)
<1>1. /\ t \in Seq(S) /\ t # <<>> /\ Len(t) = Len(s) + 1
      /\ \A i \in 1 .. Len(s) : t[i] = s[i] /\ s[i] \in S
  BY AppendProperties, ElementOfSeq
<1>. HIDE DEF t
<1>2. Len(s) \in Nat
  OBVIOUS
<1>3. /\ SubSeq(s, 1, Len(s)) \in Seq(S) /\ SubSeq(t, 1, Len(s)) \in Seq(S)
      /\ Len(SubSeq(s, 1, Len(s))) = Len(s) /\ Len(SubSeq(t, 1, Len(s))) = Len(s)
      /\ \A i \in 1 .. Len(s) : /\ SubSeq(s, 1, Len(s))[i] = s[i]
                               /\ SubSeq(t, 1, Len(s))[i] = t[i]
  BY <1>1, <1>2, SubSeqProperties
<1>4. SubSeq(s, 1, Len(s)) = SubSeq(t, 1, Len(s))
  BY <1>1, <1>3, SeqEqual
<1>. QED
  BY <1>1, <1>2, <1>4 DEF IsPrefix, t

LEMMA LastIsCommit ==
  ASSUME NEW s \in Seq(Commit), s # <<>>
  PROVE  Last(s) \in Commit /\ Last(s).out \in Nat
<1>1. Len(s) \in 1 .. Len(s)
  OBVIOUS
<1>2. Last(s) \in Commit
  BY <1>1, ElementOfSeq DEF Last
<1>. QED
  BY <1>2 DEF Commit

---------------------------------------------------------------------------------
(* Initial states, and steps outside the timer threads. *)

LEMMA NoPassIsPass == NoPass \in Pass
  BY DEF NoPass, Pass, Ending

LEMMA InitInv == Init => IInv
<1>. SUFFICES ASSUME Init PROVE IInv
  OBVIOUS
<1>1. head \in Seq(Commit) /\ head # <<>>
  BY DEF Init, Commit
<1>2. TypeOK
  BY <1>1, NoPassIsPass DEF Init, TypeOK, ThreadPhase
<1>. QED
  BY <1>1, <1>2 DEF Init, IInv, LocksHeld, InLock, DeadIsStill, PassFits, NoChangeForgotten,
     WorkIsScheduled

\* Scheduling puts one thread to wait and may send another one that waits home.
LEMMA ScheduleWaits ==
  ASSUME NEW from \in [Thread -> ThreadPhase], NEW new \in Thread,
         timer \in Thread \union {None}, Schedule(from, new)
  PROVE  /\ pc' \in [Thread -> ThreadPhase] /\ timer' \in Thread
         /\ pc'[new] = "waiting"
         /\ \A u \in Thread : \/ pc'[u] = from[u]
                              \/ /\ from[u] \in {"free", "waiting"}
                                 /\ pc'[u] \in {"free", "waiting"}
<1>. DEFINE cancelled == IF timer # None /\ from[timer] = "waiting"
                           THEN [from EXCEPT ![timer] = "free"] ELSE from
<1>1. /\ cancelled[new] = "free"
      /\ pc' = [cancelled EXCEPT ![new] = "waiting"]
      /\ timer' = new
  BY DEF Schedule
<1>2. /\ cancelled \in [Thread -> ThreadPhase]
      /\ \A u \in Thread : \/ cancelled[u] = from[u]
                           \/ from[u] = "waiting" /\ cancelled[u] = "free"
  BY SyncAssumption DEF ThreadPhase
<1>. HIDE DEF cancelled
<1>. QED
  BY <1>1, <1>2 DEF ThreadPhase

\* What a step may not disturb when no thread moves but those that wait.
LEMMA OutsideStep ==
  ASSUME IInv, TypeOK', UNCHANGED <<alive, syncLock, pass, output, skipped, head, tracked>>,
         remote' # <<>>, lockFile' = lockFile \/ lockFile # "ours",
         \A t \in Thread : \/ pc'[t] = pc[t]
                           \/ pc[t] \in {"free", "waiting"} /\ pc'[t] \in {"free", "waiting"},
         handler' = handler \/ alive,
         alive \/ UNCHANGED pc,
         \/ UNCHANGED <<events, needsEncrypt, generation, source>>
         \/ alive /\ events' > 0 /\ UNCHANGED <<needsEncrypt, generation>>
         \/ ~alive /\ UNCHANGED <<events, needsEncrypt, generation>>
         \/ alive /\ needsEncrypt' /\ generation' = generation + 1,
         WorkIsScheduled'
  PROVE  IInv'
<1>1. LocksHeld' /\ DeadIsStill'
  BY DEF IInv, LocksHeld, DeadIsStill, InLock
<1>2. NoChangeForgotten'
  BY DEF IInv, NoChangeForgotten, TypeOK
<1>3. ASSUME NEW t \in Thread PROVE PassFits(t)'
  <2>. PassFits(t) /\ pass[t].gen \in Nat /\ generation \in Nat
    BY DEF IInv, TypeOK, Pass
  <2>1. CASE pc'[t] = pc[t]
    <3>1. pc[t] # "free" => alive
      BY DEF IInv, DeadIsStill
    <3>. QED
      BY <2>1, <3>1 DEF PassFits, Behind
  <2>2. CASE pc'[t] \in {"free", "waiting"}
    BY <2>2 DEF PassFits
  <2>. QED
    BY <2>1, <2>2
<1>. QED
  BY <1>1, <1>2, <1>3 DEF IInv

LEMMA OutsideInv ==
  ASSUME IInv,
         EditSource \/ OtherPush \/ DirtyTree \/ CleanTree \/ ProvidePassphrase \/ LockFileAges
  PROVE  IInv'
<1>. TypeOK
  BY DEF IInv
<1>1. UNCHANGED <<alive, handler, pc, syncLock, pass, output, skipped, head, tracked, timer>>
  BY DEF EditSource, OtherPush, DirtyTree, CleanTree, ProvidePassphrase, LockFileAges,
         handlerVars, treeVars, gitVars
<1>2. UNCHANGED <<needsEncrypt, generation>>
  BY DEF EditSource, OtherPush, DirtyTree, CleanTree, ProvidePassphrase, LockFileAges,
         handlerVars
<1>3. remote' \in Seq(Commit) /\ remote' # <<>>
  <2>1. CASE OtherPush
    <3>1. PICK out \in {0, Last(remote).out} : remote' = Append(remote, [by |-> "other", out |-> out])
      BY <2>1 DEF OtherPush
    <3>2. [by |-> "other", out |-> out] \in Commit
      BY LastIsCommit DEF IInv, TypeOK, Commit
    <3>. QED
      BY <3>1, <3>2, AppendKeepsPrefix DEF TypeOK
  <2>2. CASE ~OtherPush
    BY <2>2 DEF EditSource, DirtyTree, CleanTree, ProvidePassphrase, LockFileAges, gitVars,
       IInv, TypeOK
  <2>. QED
    BY <2>1, <2>2
<1>4. /\ source' \in Nat /\ events' \in Nat /\ faults' \in Nat
      /\ lockFile' \in {"free", "ours", "left", "old"} /\ otherDirty' \in BOOLEAN
      /\ passphrase' \in BOOLEAN /\ (lockFile' = lockFile \/ lockFile # "ours")
  <2>1. CASE EditSource
    BY <2>1 DEF EditSource, TypeOK, treeVars
  <2>2. CASE OtherPush
    BY <2>2 DEF OtherPush, TypeOK, treeVars
  <2>3. CASE DirtyTree
    BY <2>3 DEF DirtyTree, Fault, TypeOK
  <2>4. CASE CleanTree \/ ProvidePassphrase \/ LockFileAges
    BY <2>4 DEF CleanTree, ProvidePassphrase, LockFileAges, TypeOK, treeVars
  <2>. QED
    BY <2>1, <2>2, <2>3, <2>4
<1>5. TypeOK'
  BY <1>1, <1>2, <1>3, <1>4 DEF TypeOK
<1>6. \/ UNCHANGED <<events, source>>
      \/ alive /\ events' > 0
      \/ ~alive /\ UNCHANGED events
  BY DEF EditSource, OtherPush, DirtyTree, CleanTree, ProvidePassphrase, LockFileAges, TypeOK
<1>7. WorkIsScheduled'
  BY <1>1, <1>2 DEF IInv, WorkIsScheduled
<1>. QED
  BY <1>1, <1>2, <1>3, <1>4, <1>5, <1>6, <1>7, OutsideStep

LEMMA ObserverInv ==
  ASSUME IInv, MarkEvent \/ ScheduleEvent
  PROVE  IInv'
<1>. TypeOK
  BY DEF IInv
<1>1. CASE MarkEvent
  <2>1. /\ alive /\ TypeOK' /\ WorkIsScheduled'
        /\ needsEncrypt' /\ generation' = generation + 1
    BY <1>1 DEF MarkEvent, TypeOK, IInv, DeadIsStill, WorkIsScheduled, treeVars, gitVars
  <2>. QED
    BY <1>1, <2>1, OutsideStep DEF MarkEvent, IInv, treeVars, gitVars
<1>2. CASE ScheduleEvent
  <2>1. alive
    BY <1>2 DEF ScheduleEvent, IInv, DeadIsStill
  <2>2. PICK new \in Thread : Schedule(pc, new)
    BY <1>2 DEF ScheduleEvent
  <2>3. /\ pc' \in [Thread -> ThreadPhase] /\ timer' \in Thread /\ pc'[new] = "waiting"
        /\ \A u \in Thread : \/ pc'[u] = pc[u]
                             \/ pc[u] \in {"free", "waiting"} /\ pc'[u] \in {"free", "waiting"}
    BY <2>2, ScheduleWaits DEF TypeOK
  <2>4. TypeOK'
    BY <1>2, <2>3 DEF ScheduleEvent, TypeOK, handlerVars, treeVars, gitVars
  <2>5. WorkIsScheduled'
    BY <2>3 DEF WorkIsScheduled
  <2>. QED
    BY <1>2, <2>1, <2>3, <2>4, <2>5, OutsideStep DEF ScheduleEvent, IInv, handlerVars, treeVars, gitVars
<1>. QED
  BY <1>1, <1>2

LEMMA ProcessInv ==
  ASSUME IInv, KillWatcher \/ StartWatcher
  PROVE  IInv'
<1>. TypeOK
  BY DEF IInv
<1>1. CASE KillWatcher
  <2>1. output' \in Nat
    <3>1. \A t \in Thread : pass[t].seen \in Nat
      BY DEF TypeOK, Pass
    <3>2. output' = output \/ \E t \in Thread : output' = pass[t].seen
      BY <1>1 DEF KillWatcher
    <3>. QED
      BY <3>1, <3>2 DEF TypeOK
  <2>2. TypeOK'
    <3>1. /\ alive' = FALSE /\ events' = 0 /\ handler' = "idle" /\ needsEncrypt' = FALSE
          /\ generation' = 0 /\ timer' = None /\ syncLock' = None
          /\ pc' = [t \in Thread |-> "free"] /\ pass' = [t \in Thread |-> NoPass]
          /\ UNCHANGED <<source, otherDirty, passphrase, skipped, head, tracked, remote>>
          /\ faults' = faults + 1
      BY <1>1 DEF KillWatcher, Fault, gitVars
    <3>2. lockFile' \in {"free", "ours", "left", "old"}
      BY <1>1 DEF KillWatcher, TypeOK
    <3>3. pc' \in [Thread -> ThreadPhase] /\ pass' \in [Thread -> Pass]
      BY <3>1, NoPassIsPass DEF ThreadPhase
    <3>4. head' \in Seq(Commit) /\ tracked' \in Seq(Commit) /\ remote' \in Seq(Commit)
      BY <3>1 DEF TypeOK
    <3>5. /\ alive' \in BOOLEAN /\ needsEncrypt' \in BOOLEAN /\ otherDirty' \in BOOLEAN
          /\ passphrase' \in BOOLEAN /\ skipped' \in BOOLEAN
      BY <3>1 DEF TypeOK
    <3>6. /\ source' \in Nat /\ events' \in Nat /\ generation' \in Nat /\ faults' \in Nat
          /\ timer' \in Thread \union {None} /\ syncLock' \in Thread \union {None, Leaked}
          /\ handler' \in {"idle", "schedule"}
      BY <3>1 DEF TypeOK
    <3>. QED
      BY <2>1, <3>2, <3>3, <3>4, <3>5, <3>6 DEF TypeOK
  <2>3. ~alive' /\ handler' = "idle" /\ events' = 0 /\ \A t \in Thread : pc'[t] = "free"
    BY <1>1 DEF KillWatcher
  <2>4. UNCHANGED <<head, tracked, remote>>
    BY <1>1 DEF KillWatcher, gitVars
  <2>. QED
    BY <2>2, <2>3, <2>4 DEF IInv, LocksHeld, InLock, DeadIsStill, PassFits, NoChangeForgotten,
       WorkIsScheduled
<1>2. CASE StartWatcher
  <2>1. \A t \in Thread : pc'[t] = "free"
    BY <1>2 DEF StartWatcher, IInv, DeadIsStill
  <2>2. TypeOK' /\ alive' /\ needsEncrypt' /\ handler' = "schedule"
    BY <1>2 DEF StartWatcher, TypeOK, treeVars, gitVars
  <2>3. UNCHANGED <<head, tracked, remote>>
    BY <1>2 DEF StartWatcher, gitVars
  <2>. QED
    BY <2>1, <2>2, <2>3 DEF IInv, LocksHeld, InLock, DeadIsStill, PassFits, NoChangeForgotten,
       WorkIsScheduled
<1>. QED
  BY <1>1, <1>2

---------------------------------------------------------------------------------
(* Steps of one timer thread. *)

\* What a step of thread t may not disturb: only the pass that holds the thread lock
\* changes what another pass relies on.
LEMMA StepOfOneThread ==
  ASSUME IInv, NEW t \in Thread, TypeOK', remote' # <<>>, head' # <<>>, tracked' # <<>>,
         pc[t] # "free", UNCHANGED <<alive, handler>>,
         \A u \in Thread \ {t} : \/ pc'[u] = pc[u] /\ pass'[u] = pass[u]
                                 \/ pc'[u] \in {"free", "waiting"},
         \/ syncLock = t
         \/ UNCHANGED <<needsEncrypt, generation, tracked, head, events, source, output,
                        skipped, lockFile>>,
         syncLock' = syncLock \/ syncLock \in {t, None},
         pc'[t] \in InLock => syncLock' = t,
         pc'[t] \in InLock \ {"repository"} => lockFile' = "ours",
         PassFits(t)',
         UNCHANGED <<needsEncrypt, events, output, source, skipped>> \/ NoChangeForgotten',
         ~needsEncrypt' \/ syncLock' = Leaked \/ \E u \in Thread : pc'[u] # "free"
  PROVE  IInv'
<1>1. alive
  BY DEF IInv, DeadIsStill
<1>2. ASSUME NEW u \in Thread \ {t}, pc'[u] \in InLock
      PROVE  /\ pc'[u] = pc[u] /\ pass'[u] = pass[u] /\ syncLock = u /\ syncLock' = u
             /\ UNCHANGED <<needsEncrypt, generation, tracked, head, events, source, output,
                            skipped, lockFile>>
  BY <1>2, SyncAssumption DEF IInv, LocksHeld, InLock
<1>3. LocksHeld'
  <2>. SUFFICES ASSUME NEW u \in Thread
                PROVE  /\ pc'[u] \in InLock => syncLock' = u
                       /\ pc'[u] \in InLock \ {"repository"} => lockFile' = "ours"
    BY DEF LocksHeld
  <2>. QED
    BY <1>2 DEF IInv, LocksHeld
<1>4. ASSUME NEW u \in Thread PROVE PassFits(u)'
  <2>1. CASE u # t /\ pc'[u] \in InLock
    <3>1. PassFits(u)
      BY DEF IInv
    <3>. QED
      BY <1>2, <2>1, <3>1 DEF PassFits, Behind
  <2>2. CASE pc'[u] \notin InLock
    BY <2>2 DEF PassFits, InLock
  <2>. QED
    BY <2>1, <2>2
<1>5. NoChangeForgotten' /\ WorkIsScheduled'
  BY DEF IInv, NoChangeForgotten, WorkIsScheduled
<1>. QED
  BY <1>1, <1>3, <1>4, <1>5 DEF IInv, DeadIsStill

\* The two ways a thread moves on by itself.
LEMMA Moves ==
  ASSUME TypeOK, NEW t \in Thread, NEW phase \in ThreadPhase, Go(t, phase)
  PROVE  /\ pc' \in [Thread -> ThreadPhase] /\ pc'[t] = phase
         /\ \A u \in Thread \ {t} : pc'[u] = pc[u]
  BY DEF Go, TypeOK

LEMMA Ends ==
  ASSUME TypeOK, NEW t \in Thread, NEW ends \in Ending, EndPass(t, ends)
  PROVE  /\ pc' \in [Thread -> ThreadPhase] /\ pc'[t] = "handle"
         /\ pass' \in [Thread -> Pass]
         /\ \A u \in Thread \ {t} : pc'[u] = pc[u] /\ pass'[u] = pass[u]
  BY DEF EndPass, TypeOK, ThreadPhase, Pass

\* A thread that schedules goes to one of the phases where it needs nothing.
LEMMA SchedulesAndMoves ==
  ASSUME TypeOK, NEW t \in Thread, NEW new \in Thread, NEW phase \in {"free", "unlock"},
         pc[t] # "free", Schedule([pc EXCEPT ![t] = phase], new)
  PROVE  /\ pc' \in [Thread -> ThreadPhase] /\ timer' \in Thread
         /\ \E u \in Thread : pc'[u] # "free"
         /\ pc'[t] = phase \/ (phase = "free" /\ pc'[t] = "waiting")
         /\ \A u \in Thread \ {t} : pc'[u] = pc[u] \/ pc'[u] \in {"free", "waiting"}
<1>. DEFINE from == [pc EXCEPT ![t] = phase]
<1>1. from \in [Thread -> ThreadPhase] /\ from[t] = phase
      /\ \A u \in Thread \ {t} : from[u] = pc[u]
  BY DEF TypeOK, ThreadPhase
<1>. HIDE DEF from
<1>2. Schedule(from, new)
  BY DEF from
<1>. QED
  BY <1>1, <1>2, ScheduleWaits DEF TypeOK

LEMMA TimerInv ==
  ASSUME IInv, NEW t \in Thread, Fire(t) \/ ForgetTimer(t)
  PROVE  IInv'
<1>. TypeOK
  BY DEF IInv
<1>1. /\ UNCHANGED <<source, events, alive, handler, needsEncrypt, generation, syncLock, pass,
                     lockFile, output, otherDirty, passphrase, skipped, head, tracked, remote,
                     faults>>
      /\ timer' \in Thread \union {None} /\ pc[t] # "free"
  BY DEF Fire, ForgetTimer, unchangedOutside, handlerVars, treeVars, gitVars, TypeOK
<1>2. PICK phase \in {"fired", "lock"} : Go(t, phase)
  BY DEF Fire, ForgetTimer
<1>3. /\ pc' \in [Thread -> ThreadPhase] /\ pc'[t] = phase
      /\ \A u \in Thread \ {t} : pc'[u] = pc[u]
  BY <1>2, Moves DEF ThreadPhase
<1>4. TypeOK'
  BY <1>1, <1>3 DEF TypeOK
<1>5. PassFits(t)' /\ pc'[t] \notin InLock
  BY <1>3 DEF PassFits, InLock
<1>. QED
  BY <1>1, <1>3, <1>4, <1>5, StepOfOneThread DEF IInv

LEMMA TryThreadLockInv ==
  ASSUME IInv, NEW t \in Thread, TryThreadLock(t)
  PROVE  IInv'
<1>. TypeOK
  BY DEF IInv
<1>1. /\ UNCHANGED <<source, events, alive, handler, needsEncrypt, generation, pass, lockFile,
                     output, otherDirty, passphrase, skipped, head, tracked, remote, faults>>
      /\ pc[t] = "lock"
  BY DEF TryThreadLock, unchangedOutside, handlerVars, treeVars, gitVars
<1>2. CASE syncLock = None /\ syncLock' = t /\ Go(t, "repository") /\ UNCHANGED timer
  <2>1. /\ pc' \in [Thread -> ThreadPhase] /\ pc'[t] = "repository"
        /\ \A u \in Thread \ {t} : pc'[u] = pc[u]
    BY <1>2, Moves DEF ThreadPhase
  <2>2. TypeOK' /\ PassFits(t)'
    BY <1>1, <1>2, <2>1 DEF TypeOK, PassFits
  <2>. QED
    BY <1>1, <1>2, <2>1, <2>2, StepOfOneThread DEF IInv
<1>3. CASE syncLock # None /\ ScheduleAndReturn(t) /\ UNCHANGED syncLock
  <2>1. PICK new \in Thread : Schedule([pc EXCEPT ![t] = "free"], new)
    BY <1>3 DEF ScheduleAndReturn
  <2>2. /\ pc' \in [Thread -> ThreadPhase] /\ timer' \in Thread
        /\ \E u \in Thread : pc'[u] # "free"
        /\ pc'[t] \in {"free", "waiting"}
        /\ \A u \in Thread \ {t} : pc'[u] = pc[u] \/ pc'[u] \in {"free", "waiting"}
    BY <1>1, <2>1, SchedulesAndMoves
  <2>3. TypeOK' /\ PassFits(t)' /\ pc'[t] \notin InLock
    BY <1>1, <1>3, <2>2 DEF TypeOK, PassFits, InLock
  <2>. QED
    BY <1>1, <1>3, <2>2, <2>3, StepOfOneThread DEF IInv
<1>. QED
  BY <1>2, <1>3 DEF TryThreadLock

\* A thread that dies takes the thread lock with it; no pass of another is under way.
LEMMA ProbeFailsInv ==
  ASSUME IInv, NEW t \in Thread, ProbeFails(t)
  PROVE  IInv'
<1>. TypeOK
  BY DEF IInv
<1>1. /\ UNCHANGED <<source, events, alive, handler, needsEncrypt, generation, timer, pass,
                     lockFile, output, otherDirty, passphrase, skipped, head, tracked, remote>>
      /\ pc[t] = "repository" /\ syncLock' = Leaked /\ faults' = faults + 1
      /\ Go(t, "free")
  BY DEF ProbeFails, Fault, unchangedOutside, handlerVars, treeVars, gitVars
<1>2. /\ pc' \in [Thread -> ThreadPhase] /\ pc'[t] = "free"
      /\ \A u \in Thread \ {t} : pc'[u] = pc[u]
  BY <1>1, Moves DEF ThreadPhase
<1>3. TypeOK'
  BY <1>1, <1>2 DEF TypeOK
<1>4. syncLock = t
  BY <1>1 DEF IInv, LocksHeld, InLock
<1>5. ASSUME NEW u \in Thread PROVE pc'[u] \notin InLock
  BY <1>1, <1>2, <1>4 DEF IInv, LocksHeld, InLock
<1>6. \A u \in Thread : PassFits(u)'
  BY <1>5 DEF PassFits, InLock
<1>. QED
  BY <1>1, <1>3, <1>5, <1>6, <1>2 DEF IInv, LocksHeld, DeadIsStill, NoChangeForgotten, WorkIsScheduled

LEMMA TryLockFileInv ==
  ASSUME IInv, NEW t \in Thread, TryLockFile(t)
  PROVE  IInv'
<1>. TypeOK
  BY DEF IInv
<1>1. /\ UNCHANGED <<source, events, alive, handler, needsEncrypt, generation, pass,
                     output, otherDirty, passphrase, skipped, head, tracked, remote, faults>>
      /\ pc[t] = "repository"
  BY DEF TryLockFile, unchangedOutside, handlerVars, treeVars, gitVars
<1>0. syncLock = t
  BY <1>1 DEF IInv, LocksHeld, InLock
<1>2. CASE lockFile' = "ours" /\ Go(t, "read") /\ UNCHANGED <<timer, syncLock>>
  <2>1. /\ pc' \in [Thread -> ThreadPhase] /\ pc'[t] = "read"
        /\ \A u \in Thread \ {t} : pc'[u] = pc[u]
    BY <1>2, Moves DEF ThreadPhase
  <2>2. TypeOK' /\ PassFits(t)'
    BY <1>1, <1>2, <2>1 DEF TypeOK, PassFits
  <2>. QED
    BY <1>0, <1>1, <1>2, <2>1, <2>2, StepOfOneThread DEF IInv
<1>3. CASE ScheduleAndReturn(t) /\ syncLock' = None /\ UNCHANGED lockFile
  <2>1. PICK new \in Thread : Schedule([pc EXCEPT ![t] = "free"], new)
    BY <1>3 DEF ScheduleAndReturn
  <2>2. /\ pc' \in [Thread -> ThreadPhase] /\ timer' \in Thread
        /\ \E u \in Thread : pc'[u] # "free"
        /\ pc'[t] \in {"free", "waiting"}
        /\ \A u \in Thread \ {t} : pc'[u] = pc[u] \/ pc'[u] \in {"free", "waiting"}
    BY <1>1, <2>1, SchedulesAndMoves
  <2>3. TypeOK' /\ PassFits(t)' /\ pc'[t] \notin InLock
    BY <1>1, <1>3, <2>2 DEF TypeOK, PassFits, InLock
  <2>. QED
    BY <1>0, <1>1, <1>3, <2>2, <2>3, StepOfOneThread DEF IInv
<1>. QED
  BY <1>2, <1>3 DEF TryLockFile

---------------------------------------------------------------------------------
(* Steps of the pass that holds both locks. *)

\* What each of them leaves alone.
LEMMA StepOfPass ==
  ASSUME IInv, NEW t \in Thread, pc[t] \in InLock \ {"repository"},
         UNCHANGED <<source, events, alive, handler, generation, syncLock, lockFile, timer,
                     otherDirty, passphrase>>,
         pc' \in [Thread -> ThreadPhase], pc'[t] \in InLock \ {"repository"},
         pass' \in [Thread -> Pass],
         \A u \in Thread \ {t} : pc'[u] = pc[u] /\ pass'[u] = pass[u],
         needsEncrypt' \in BOOLEAN, output' \in Nat, skipped' \in BOOLEAN, faults' \in Nat,
         head' \in Seq(Commit), tracked' \in Seq(Commit), remote' \in Seq(Commit),
         head' # <<>>, tracked' # <<>>, remote' # <<>>,
         PassFits(t)',
         UNCHANGED <<needsEncrypt, output, skipped>> \/ NoChangeForgotten'
  PROVE  IInv'
<1>1. syncLock = t /\ lockFile = "ours" /\ pc[t] # "free" /\ pc'[t] # "free"
  BY DEF IInv, LocksHeld, InLock
<1>2. TypeOK'
  BY DEF IInv, TypeOK
<1>. QED
  BY <1>1, <1>2, StepOfOneThread

LEMMA ReadNeedInv ==
  ASSUME IInv, NEW t \in Thread, ReadNeed(t)
  PROVE  IInv'
<1>. TypeOK
  BY DEF IInv
<1>1. /\ UNCHANGED <<source, events, alive, handler, needsEncrypt, generation, timer, syncLock,
                     lockFile, output, otherDirty, passphrase, skipped, head, tracked, remote,
                     faults>>
      /\ pc[t] = "read"
  BY DEF ReadNeed, unchangedOutside, handlerVars, treeVars, gitVars
<1>2. PICK n \in Pass : n = [NoPass EXCEPT !.encrypt = needsEncrypt, !.gen = generation]
  BY NoPassIsPass DEF TypeOK, Pass
<1>3. n.gen = generation
  BY <1>2, NoPassIsPass DEF Pass
<1>4. pass' = [pass EXCEPT ![t] = n]
  BY <1>2 DEF ReadNeed
<1>5. PICK phase \in {"prepare", "commit"} : Go(t, phase) /\ (phase = "prepare" => needsEncrypt)
  BY DEF ReadNeed
<1>6. /\ pc' \in [Thread -> ThreadPhase] /\ pc'[t] = phase
      /\ \A u \in Thread \ {t} : pc'[u] = pc[u]
  BY <1>5, Moves DEF ThreadPhase
<1>7. /\ pass' \in [Thread -> Pass] /\ pass'[t] = n
      /\ \A u \in Thread \ {t} : pass'[u] = pass[u]
  BY <1>4 DEF TypeOK
<1>8. PassFits(t)'
  BY <1>1, <1>3, <1>5, <1>6, <1>7 DEF PassFits, TypeOK
<1>. QED
  BY <1>1, <1>6, <1>7, <1>8, StepOfPass DEF IInv, TypeOK, InLock

\* A pass that ends early changes none of what the others or the observer rely on.
LEMMA EndsEarly ==
  ASSUME IInv, NEW t \in Thread, pc[t] \in {"prepare", "encrypt", "write", "commit", "fetch", "push"},
         UNCHANGED <<source, events, alive, handler, needsEncrypt, generation, syncLock,
                     lockFile, timer, otherDirty, passphrase, skipped, head>>,
         NEW ends \in Ending, EndPass(t, ends),
         output' \in Nat, output' = output \/ needsEncrypt, faults' \in Nat,
         tracked' \in Seq(Commit), tracked' # <<>>, remote' \in Seq(Commit), remote' # <<>>
  PROVE  IInv'
<1>. TypeOK
  BY DEF IInv
<1>1. /\ pc' \in [Thread -> ThreadPhase] /\ pc'[t] = "handle"
      /\ pass' \in [Thread -> Pass]
      /\ \A u \in Thread \ {t} : pc'[u] = pc[u] /\ pass'[u] = pass[u]
  BY Ends
<1>2. PassFits(t)'
  BY <1>1 DEF PassFits
<1>3. UNCHANGED <<needsEncrypt, output, skipped>> \/ NoChangeForgotten'
  BY DEF NoChangeForgotten
<1>. QED
  BY <1>1, <1>2, <1>3, StepOfPass DEF IInv, TypeOK, InLock

\* A pass that goes on with its state as it was.
LEMMA GoesOn ==
  ASSUME IInv, NEW t \in Thread, pc[t] \in InLock \ {"repository"},
         UNCHANGED <<source, events, alive, handler, generation, syncLock, lockFile, timer,
                     otherDirty, passphrase, pass>>,
         NEW phase \in InLock \ {"repository"}, Go(t, phase),
         needsEncrypt' \in BOOLEAN, output' \in Nat, skipped' \in BOOLEAN, faults' \in Nat,
         head' \in Seq(Commit), tracked' \in Seq(Commit), remote' \in Seq(Commit),
         head' # <<>>, tracked' # <<>>, remote' # <<>>,
         pc'[t] = phase => PassFits(t)',
         UNCHANGED <<needsEncrypt, output, skipped>> \/ NoChangeForgotten'
  PROVE  IInv'
<1>1. /\ pc' \in [Thread -> ThreadPhase] /\ pc'[t] = phase
      /\ \A u \in Thread \ {t} : pc'[u] = pc[u]
  BY Moves DEF IInv, InLock, ThreadPhase
<1>. QED
  BY <1>1, StepOfPass DEF IInv, TypeOK

LEMMA PrepareInv ==
  ASSUME IInv, NEW t \in Thread, Prepare(t)
  PROVE  IInv'
<1>. TypeOK /\ PassFits(t)
  BY DEF IInv
<1>1. /\ UNCHANGED <<source, events, alive, handler, needsEncrypt, generation, timer, syncLock,
                     lockFile, otherDirty, passphrase, skipped, remote>>
      /\ pc[t] = "prepare" /\ needsEncrypt
  BY DEF Prepare, unchangedOutside, handlerVars, PassFits
<1>2. /\ head \in Seq(Commit) /\ tracked \in Seq(Commit) /\ remote \in Seq(Commit)
      /\ head # <<>> /\ tracked # <<>> /\ remote # <<>>
      /\ output \in Nat /\ Last(remote).out \in Nat
  BY LastIsCommit DEF IInv, TypeOK
<1>3. faults' \in Nat
  BY DEF Prepare, Fault, TypeOK
<1>4. ASSUME NEW ends \in Ending, EndPass(t, ends), UNCHANGED <<head, output>>,
             tracked' \in {tracked, remote}
      PROVE  IInv'
  BY <1>1, <1>2, <1>3, <1>4, EndsEarly
<1>5. ASSUME Go(t, "encrypt"), UNCHANGED pass, tracked' = remote, head' \in {head, remote},
             IsPrefix(remote, head'), output' \in {output, Last(remote).out}
      PROVE  IInv'
  <2>1. pc'[t] = "encrypt" => PassFits(t)'
    BY <1>1, <1>5 DEF PassFits, Behind
  <2>2. NoChangeForgotten'
    BY <1>1 DEF NoChangeForgotten
  <2>. QED
    BY <1>1, <1>2, <1>3, <1>5, <2>1, <2>2, GoesOn DEF InLock, TypeOK
<1>6. IsPrefix(remote, remote)
  BY <1>2, PrefixIsReflexive
<1>. QED
  BY <1>4, <1>5, <1>6 DEF Prepare, Ending, IsStrictPrefix

LEMMA ReadSourceInv ==
  ASSUME IInv, NEW t \in Thread, ReadSource(t)
  PROVE  IInv'
<1>. TypeOK /\ PassFits(t)
  BY DEF IInv
<1>1. /\ UNCHANGED <<source, events, alive, handler, needsEncrypt, generation, timer, syncLock,
                     lockFile, output, otherDirty, passphrase, head, tracked, remote>>
      /\ pc[t] = "encrypt" /\ needsEncrypt
  BY DEF ReadSource, unchangedOutside, handlerVars, gitVars, PassFits
<1>2. /\ head \in Seq(Commit) /\ tracked \in Seq(Commit) /\ remote \in Seq(Commit)
      /\ head # <<>> /\ tracked # <<>> /\ remote # <<>>
  BY DEF IInv, TypeOK
<1>3. NoChangeForgotten'
  BY <1>1 DEF NoChangeForgotten
<1>4. CASE Fault("encrypt") /\ EndPass(t, "failed") /\ UNCHANGED skipped
  BY <1>1, <1>2, <1>4, EndsEarly DEF Fault, TypeOK, Ending
<1>5. CASE skipped' = TRUE /\ Go(t, "clear") /\ UNCHANGED <<pass, faults>>
  <2>1. pc'[t] = "clear" => PassFits(t)'
    BY <1>1, <1>5 DEF PassFits
  <2>. QED
    BY <1>1, <1>2, <1>3, <1>5, <2>1, GoesOn DEF InLock, TypeOK
<1>6. CASE pass' = [pass EXCEPT ![t].seen = source] /\ Go(t, "write") /\ UNCHANGED <<skipped, faults>>
  <2>1. /\ pass' \in [Thread -> Pass] /\ pass'[t].seen = source /\ pass'[t].gen = pass[t].gen
        /\ \A u \in Thread \ {t} : pass'[u] = pass[u]
    BY <1>6 DEF TypeOK, Pass
  <2>2. /\ pc' \in [Thread -> ThreadPhase] /\ pc'[t] = "write"
        /\ \A u \in Thread \ {t} : pc'[u] = pc[u]
    BY <1>6, Moves DEF ThreadPhase
  <2>3. PassFits(t)'
    BY <1>1, <2>1, <2>2 DEF PassFits, Behind
  <2>. QED
    BY <1>1, <1>2, <1>3, <1>6, <2>1, <2>2, <2>3, StepOfPass DEF InLock, TypeOK
<1>. QED
  BY <1>4, <1>5, <1>6 DEF ReadSource

LEMMA WriteOutputInv ==
  ASSUME IInv, NEW t \in Thread, WriteOutput(t)
  PROVE  IInv'
<1>. TypeOK /\ PassFits(t) /\ pass[t].seen \in Nat
  BY DEF IInv, TypeOK, Pass
<1>1. /\ UNCHANGED <<source, events, alive, handler, needsEncrypt, generation, timer, syncLock,
                     lockFile, otherDirty, passphrase, head, tracked, remote>>
      /\ pc[t] = "write" /\ needsEncrypt
  BY DEF WriteOutput, unchangedOutside, handlerVars, gitVars, PassFits
<1>2. /\ head \in Seq(Commit) /\ tracked \in Seq(Commit) /\ remote \in Seq(Commit)
      /\ head # <<>> /\ tracked # <<>> /\ remote # <<>>
  BY DEF IInv, TypeOK
<1>3. NoChangeForgotten'
  BY <1>1 DEF NoChangeForgotten
<1>4. CASE /\ output' = pass[t].seen /\ skipped' = FALSE
           /\ Go(t, "clear") /\ UNCHANGED <<pass, faults>>
  <2>1. pc'[t] = "clear" => PassFits(t)'
    BY <1>1, <1>4 DEF PassFits
  <2>. QED
    BY <1>1, <1>2, <1>3, <1>4, <2>1, GoesOn DEF InLock, TypeOK
<1>5. CASE /\ Fault("encrypt") /\ output' \in {output, pass[t].seen}
           /\ EndPass(t, "failed") /\ UNCHANGED skipped
  BY <1>1, <1>2, <1>5, EndsEarly DEF Fault, TypeOK, Ending
<1>. QED
  BY <1>4, <1>5 DEF WriteOutput

\* The need is dropped only when no event was marked since the pass looked: what it
\* encrypted is the source, or an event is still to be delivered.
LEMMA ClearNeedInv ==
  ASSUME IInv, NEW t \in Thread, ClearNeed(t)
  PROVE  IInv'
<1>. TypeOK /\ PassFits(t)
  BY DEF IInv
<1>1. /\ UNCHANGED <<source, events, alive, handler, generation, timer, syncLock, pass, lockFile,
                     output, otherDirty, passphrase, skipped, head, tracked, remote, faults>>
      /\ pc[t] = "clear" /\ needsEncrypt /\ Go(t, "commit")
      /\ needsEncrypt' = (generation # pass[t].gen)
  BY DEF ClearNeed, unchangedOutside, treeVars, gitVars, PassFits
<1>2. NoChangeForgotten'
  BY <1>1 DEF NoChangeForgotten, PassFits
<1>3. pc'[t] = "commit" => PassFits(t)'
  BY DEF PassFits
<1>4. needsEncrypt' \in BOOLEAN
  BY <1>1
<1>. QED
  BY <1>1, <1>2, <1>3, <1>4, GoesOn DEF IInv, InLock, TypeOK

LEMMA CommitOutputInv ==
  ASSUME IInv, NEW t \in Thread, CommitOutput(t)
  PROVE  IInv'
<1>. TypeOK
  BY DEF IInv
<1>1. /\ UNCHANGED <<source, events, alive, handler, needsEncrypt, generation, timer, syncLock,
                     lockFile, output, otherDirty, passphrase, skipped, tracked, remote>>
      /\ pc[t] = "commit"
  BY DEF CommitOutput, unchangedOutside, handlerVars, treeVars
<1>2. /\ head \in Seq(Commit) /\ tracked \in Seq(Commit) /\ remote \in Seq(Commit)
      /\ head # <<>> /\ tracked # <<>> /\ remote # <<>>
  BY DEF IInv, TypeOK
<1>3. CASE Fault("git") /\ EndPass(t, "failed") /\ UNCHANGED head
  BY <1>1, <1>2, <1>3, EndsEarly DEF Fault, TypeOK, Ending
<1>4. CASE /\ head' = IF OutputDirty THEN Append(head, [by |-> "sync", out |-> output]) ELSE head
           /\ Go(t, "fetch") /\ UNCHANGED <<pass, faults>>
  <2>1. [by |-> "sync", out |-> output] \in Commit
    BY DEF Commit, TypeOK
  <2>2. head' \in Seq(Commit) /\ head' # <<>>
    BY <1>2, <1>4, <2>1, AppendKeepsPrefix
  <2>3. pc'[t] = "fetch" => PassFits(t)'
    BY DEF PassFits
  <2>. QED
    BY <1>1, <1>2, <1>4, <2>2, <2>3, GoesOn DEF InLock, TypeOK
<1>. QED
  BY <1>3, <1>4 DEF CommitOutput

LEMMA PublishInv ==
  ASSUME IInv, NEW t \in Thread, FetchRemote(t) \/ Push(t)
  PROVE  IInv'
<1>. TypeOK
  BY DEF IInv
<1>1. /\ UNCHANGED <<source, events, alive, handler, needsEncrypt, generation, timer, syncLock,
                     lockFile, output, otherDirty, passphrase, skipped, head>>
      /\ pc[t] \in {"fetch", "push"}
  BY DEF FetchRemote, Push, unchangedOutside, handlerVars, treeVars
<1>2. /\ head \in Seq(Commit) /\ head # <<>>
      /\ tracked' \in Seq(Commit) /\ remote' \in Seq(Commit)
      /\ tracked' # <<>> /\ remote' # <<>>
  BY DEF FetchRemote, Push, IInv, TypeOK
<1>3. faults' \in Nat
  BY DEF FetchRemote, Push, Fault, TypeOK
<1>4. ASSUME NEW ends \in Ending, EndPass(t, ends)
      PROVE  IInv'
  BY <1>1, <1>2, <1>3, <1>4, EndsEarly DEF TypeOK
<1>5. CASE Go(t, "push") /\ UNCHANGED pass
  <2>1. pc'[t] = "push" => PassFits(t)'
    BY DEF PassFits
  <2>. QED
    BY <1>1, <1>2, <1>3, <1>5, <2>1, GoesOn DEF InLock, TypeOK
<1>. QED
  BY <1>4, <1>5 DEF FetchRemote, Push, Ending

LEMMA HandleEndingInv ==
  ASSUME IInv, NEW t \in Thread, HandleEnding(t)
  PROVE  IInv'
<1>. TypeOK
  BY DEF IInv
<1>1. /\ UNCHANGED <<source, events, alive, handler, needsEncrypt, generation, syncLock, pass,
                     lockFile, output, otherDirty, passphrase, skipped, head, tracked, remote,
                     faults>>
      /\ pc[t] = "handle"
  BY DEF HandleEnding, unchangedOutside, handlerVars, treeVars, gitVars
<1>2. syncLock = t /\ lockFile = "ours"
  BY <1>1 DEF IInv, LocksHeld, InLock
<1>3. ASSUME pc' \in [Thread -> ThreadPhase], timer' \in Thread \union {None}, pc'[t] = "unlock",
             \A u \in Thread \ {t} : pc'[u] = pc[u] \/ pc'[u] \in {"free", "waiting"}
      PROVE  IInv'
  <2>1. TypeOK' /\ PassFits(t)'
    BY <1>1, <1>3 DEF TypeOK, PassFits
  <2>. QED
    BY <1>1, <1>2, <1>3, <2>1, StepOfOneThread DEF IInv
<1>4. ASSUME NEW new \in Thread, Schedule([pc EXCEPT ![t] = "unlock"], new)
      PROVE  IInv'
  BY <1>1, <1>3, <1>4, SchedulesAndMoves
<1>5. CASE Go(t, "unlock") /\ UNCHANGED timer
  BY <1>3, <1>5, Moves DEF ThreadPhase, TypeOK
<1>. QED
  BY <1>4, <1>5 DEF HandleEnding

LEMMA UnlockInv ==
  ASSUME IInv, NEW t \in Thread, Unlock(t)
  PROVE  IInv'
<1>. TypeOK
  BY DEF IInv
<1>1. /\ UNCHANGED <<source, events, alive, handler, needsEncrypt, generation, timer,
                     output, otherDirty, passphrase, skipped, head, tracked, remote, faults>>
      /\ pc[t] = "unlock" /\ Go(t, "after") /\ syncLock' = None /\ lockFile' = "free"
      /\ pass' = [pass EXCEPT ![t] = NoPass]
  BY DEF Unlock, unchangedOutside, handlerVars, treeVars, gitVars
<1>2. syncLock = t
  BY <1>1 DEF IInv, LocksHeld, InLock
<1>3. /\ pc' \in [Thread -> ThreadPhase] /\ pc'[t] = "after"
      /\ \A u \in Thread \ {t} : pc'[u] = pc[u]
  BY <1>1, Moves DEF ThreadPhase
<1>4. pass' \in [Thread -> Pass] /\ \A u \in Thread \ {t} : pass'[u] = pass[u]
  BY <1>1, NoPassIsPass DEF TypeOK
<1>5. TypeOK' /\ PassFits(t)' /\ pc'[t] \notin InLock
  BY <1>1, <1>3, <1>4 DEF TypeOK, PassFits, InLock
<1>. QED
  BY <1>1, <1>2, <1>3, <1>4, <1>5, StepOfOneThread DEF IInv

LEMMA CheckPendingInv ==
  ASSUME IInv, NEW t \in Thread, CheckPending(t)
  PROVE  IInv'
<1>. TypeOK
  BY DEF IInv
<1>1. /\ UNCHANGED <<source, events, alive, handler, needsEncrypt, generation, syncLock, pass,
                     lockFile, output, otherDirty, passphrase, skipped, head, tracked, remote,
                     faults>>
      /\ pc[t] = "after"
  BY DEF CheckPending, unchangedOutside, handlerVars, treeVars, gitVars
<1>2. CASE needsEncrypt /\ ScheduleAndReturn(t)
  <2>1. PICK new \in Thread : Schedule([pc EXCEPT ![t] = "free"], new)
    BY <1>2 DEF ScheduleAndReturn
  <2>2. /\ pc' \in [Thread -> ThreadPhase] /\ timer' \in Thread
        /\ \E u \in Thread : pc'[u] # "free"
        /\ pc'[t] \in {"free", "waiting"}
        /\ \A u \in Thread \ {t} : pc'[u] = pc[u] \/ pc'[u] \in {"free", "waiting"}
    BY <1>1, <2>1, SchedulesAndMoves
  <2>3. TypeOK' /\ PassFits(t)' /\ pc'[t] \notin InLock
    BY <1>1, <2>2 DEF TypeOK, PassFits, InLock
  <2>. QED
    BY <1>1, <2>2, <2>3, StepOfOneThread DEF IInv
<1>3. CASE ~needsEncrypt /\ Go(t, "free") /\ UNCHANGED timer
  <2>1. /\ pc' \in [Thread -> ThreadPhase] /\ pc'[t] = "free"
        /\ \A u \in Thread \ {t} : pc'[u] = pc[u]
    BY <1>3, Moves DEF ThreadPhase
  <2>2. TypeOK' /\ PassFits(t)' /\ pc'[t] \notin InLock
    BY <1>1, <1>3, <2>1 DEF TypeOK, PassFits, InLock
  <2>. QED
    BY <1>1, <1>3, <2>1, <2>2, StepOfOneThread DEF IInv
<1>. QED
  BY <1>2, <1>3 DEF CheckPending

---------------------------------------------------------------------------------
(* Every step. *)

LEMMA NextInv == IInv /\ [Next]_vars => IInv'
<1>. SUFFICES ASSUME IInv, [Next]_vars PROVE IInv'
  OBVIOUS
<1>1. ASSUME NEW t \in Thread, ThreadStep(t) \/ ProbeFails(t)
      PROVE  IInv'
  BY <1>1, TimerInv, TryThreadLockInv, ProbeFailsInv, TryLockFileInv, ReadNeedInv, PrepareInv,
     ReadSourceInv, WriteOutputInv, ClearNeedInv, CommitOutputInv, PublishInv,
     HandleEndingInv, UnlockInv, CheckPendingInv DEF ThreadStep, PassStep
<1>2. CASE UNCHANGED vars
  <2>1. /\ UNCHANGED <<source, events, alive, handler, needsEncrypt, generation, timer, syncLock,
                       pc, pass, lockFile, output, otherDirty, passphrase, skipped, head,
                       tracked, remote, faults>>
    BY <1>2 DEF vars
  <2>. QED
    BY <2>1 DEF IInv, TypeOK, LocksHeld, DeadIsStill, PassFits, Behind, NoChangeForgotten,
       WorkIsScheduled
<1>. QED
  BY <1>1, <1>2, OutsideInv, ObserverInv, ProcessInv DEF Next

\* Branches grow: locally by a commit or a fast-forward, remotely by a push that the
\* remote accepts as a fast-forward.
LEMMA BranchesGrow ==
  ASSUME IInv, Next
  PROVE  IsPrefix(head, head') /\ IsPrefix(remote, remote')
<1>0. /\ head \in Seq(Commit) /\ remote \in Seq(Commit)
      /\ IsPrefix(head, head) /\ IsPrefix(remote, remote)
  BY PrefixIsReflexive DEF IInv, TypeOK
<1>1. ASSUME NEW t \in Thread, CommitOutput(t)
      PROVE  IsPrefix(head, head') /\ remote' = remote
  <2>1. [by |-> "sync", out |-> output] \in Commit
    BY DEF Commit, IInv, TypeOK
  <2>2. IsPrefix(head, Append(head, [by |-> "sync", out |-> output]))
    BY <1>0, <2>1, AppendKeepsPrefix
  <2>. QED
    BY <1>0, <1>1, <2>2 DEF CommitOutput
<1>2. ASSUME NEW t \in Thread, Prepare(t)
      PROVE  IsPrefix(head, head') /\ remote' = remote
  BY <1>0, <1>2 DEF Prepare, IsStrictPrefix
<1>3. ASSUME NEW t \in Thread, Push(t)
      PROVE  head' = head /\ IsPrefix(remote, remote')
  BY <1>0, <1>3 DEF Push
<1>4. CASE OtherPush
  <2>1. PICK out \in {0, Last(remote).out} : remote' = Append(remote, [by |-> "other", out |-> out])
    BY <1>4 DEF OtherPush
  <2>2. [by |-> "other", out |-> out] \in Commit
    BY LastIsCommit DEF IInv, TypeOK, Commit
  <2>3. head' = head
    BY <1>4 DEF OtherPush
  <2>. QED
    BY <1>0, <2>1, <2>2, <2>3, AppendKeepsPrefix
<1>5. ASSUME NEW t \in Thread,
             Fire(t) \/ ForgetTimer(t) \/ TryThreadLock(t) \/ TryLockFile(t) \/ ReadNeed(t)
             \/ ReadSource(t) \/ WriteOutput(t) \/ ClearNeed(t) \/ FetchRemote(t)
             \/ HandleEnding(t) \/ Unlock(t) \/ CheckPending(t) \/ ProbeFails(t)
      PROVE  head' = head /\ remote' = remote
  BY <1>5 DEF Fire, ForgetTimer, TryThreadLock, TryLockFile, ReadNeed, ReadSource, WriteOutput,
     ClearNeed, FetchRemote, HandleEnding, Unlock, CheckPending, ProbeFails, gitVars
<1>6. CASE MarkEvent \/ ScheduleEvent \/ EditSource \/ DirtyTree \/ CleanTree
           \/ ProvidePassphrase \/ KillWatcher \/ StartWatcher \/ LockFileAges
  <2>1. head' = head /\ remote' = remote
    BY <1>6 DEF MarkEvent, ScheduleEvent, EditSource, DirtyTree, CleanTree, ProvidePassphrase,
       KillWatcher, StartWatcher, LockFileAges, gitVars
  <2>. QED
    BY <1>0, <2>1
<1>. QED
  BY <1>0, <1>1, <1>2, <1>3, <1>4, <1>5, <1>6 DEF Next, ThreadStep, PassStep

---------------------------------------------------------------------------------
(* Theorems. *)

\* Every behaviour satisfies the inductive invariant: the two locks are held by the
\* pass that is between them, and while a pass encrypts, the need stays marked and
\* the generation tells whether the source moved.
THEOREM InductiveInvariant == Spec => []IInv
  BY InitInv, NextInv, PTL DEF Spec

\* A source change that the running watcher has not encrypted is marked, or its event
\* is still to come, or the watcher said that it has no passphrase: the generation of
\* run_sync_pass makes the mark survive a change that arrives during encryption.
THEOREM ChangesAreRemembered == Spec => []NoChangeForgotten
  BY InductiveInvariant, PTL DEF IInv

\* While something is to be encrypted, a timer waits, a pass is under way or the
\* observer is about to schedule one, for any race of timers that fire, are cancelled
\* and are forgotten by run_scheduled_sync; only a leaked thread lock stops that.
THEOREM SomebodyIsGoingToLook == Spec => []WorkIsScheduled
  BY InductiveInvariant, PTL DEF IInv

\* A thread between prepare_remote_base and the end of the push holds the thread lock
\* and the lock file in the Git directory; no other thread is there.
THEOREM PassesExclude == Spec => []OnePassAtATime
<1>1. IInv => OnePassAtATime
  BY DEF IInv, LocksHeld, InLock, OnePassAtATime
<1>. QED
  BY <1>1, InductiveInvariant, PTL

\* Encryption ends on a checkout that has every commit of the remote-tracking branch:
\* prepare_remote_base fetched and followed it, and no other thread fetches meanwhile.
THEOREM OutputIsBasedOnFetched == Spec => EncryptsOnFetchedBase
<1>1. IInv => [\A t \in Thread : WriteOutput(t) => ~Behind]_vars
  <2>1. IInv => \A t \in Thread : WriteOutput(t) => ~Behind
    BY DEF IInv, PassFits, WriteOutput
  <2>. QED
    BY <2>1
<1>. QED
  BY <1>1, InductiveInvariant, PTL DEF Spec, EncryptsOnFetchedBase

\* The branch and its remote only grow, whatever way a pass ends and whoever pushes
\* in between: no commit of anybody is rewritten or dropped.
THEOREM NoCommitIsLost == Spec => CommitsArePreserved
<1>1. IInv /\ [Next]_vars => [IsPrefix(head, head') /\ IsPrefix(remote, remote')]_vars
  BY BranchesGrow
<1>. QED
  BY <1>1, InductiveInvariant, PTL DEF Spec, CommitsArePreserved
=================================================================================
