------------------------------- MODULE PagesProofs -------------------------------
(***************************************************************************)
(* The site never goes back, and code is deployed with the push that       *)
(* brought it only after the full path has passed it: for any number of    *)
(* commits, pushes, dispatches and failures.  No push is forgotten by the  *)
(* group of runs, and a page takes only so many steps before it rests:     *)
(* what there is to prove of the two liveness properties without fairness. *)
(***************************************************************************)
EXTENDS Publication, TLAPS

---------------------------------------------------------------------------------
(* Commits are only ever added. *)

LEMMA CommitsType ==
  ASSUME NEW last \in Version, NEW c \in Commits(last)
  PROVE  c \in Version
<1>1. PICK ok \in BOOLEAN :
         c \in {[last EXCEPT !.whole = ok],
               [code |-> last.code + 1, sound |-> ok, whole |-> last.whole]}
  BY DEF Commits
<1>2. [last EXCEPT !.whole = ok] \in Version
  BY DEF Version
<1>3. [code |-> last.code + 1, sound |-> ok, whole |-> last.whole] \in Version
  BY DEF Version
<1>. QED
  BY <1>1, <1>2, <1>3

\* A push adds one commit or two to those there are.
LEMMA PushExtends ==
  ASSUME TypeOK, Push
  PROVE  /\ main' \in Seq(Version)
         /\ Len(main') > Tip
         /\ \A i \in 1..Tip : main'[i] = main[i]
<1>1. main \in Seq(Version) /\ Tip \in 1..Tip /\ main[Tip] \in Version
  BY DEF TypeOK, Tip
<1>2. PICK c \in Commits(main[Tip]) :
         \/ main' = Append(main, c)
         \/ \E d \in Commits(c) : main' = main \o <<c, d>>
  BY DEF Push
<1>3. c \in Version
  BY <1>1, <1>2, CommitsType
<1>4. CASE main' = Append(main, c)
  BY <1>1, <1>3, <1>4 DEF Tip
<1>5. CASE \E d \in Commits(c) : main' = main \o <<c, d>>
  <2>1. PICK d \in Commits(c) : main' = main \o <<c, d>>
    BY <1>5
  <2>2. d \in Version
    BY <1>3, <2>1, CommitsType
  <2>3. <<c, d>> \in Seq(Version) /\ Len(<<c, d>>) = 2
    BY <1>3, <2>2
  <2>. QED
    BY <1>1, <2>1, <2>3 DEF Tip
<1>. QED
  BY <1>2, <1>4, <1>5

\* What a run knows of the commits stays true when more of them are pushed.
LEMMA PushKeepsRuns ==
  ASSUME TypeOK, Push, NEW run \in WorkflowRun, RunIsCurrent(run), RunHasBuilt(run)
  PROVE  RunIsCurrent(run)' /\ RunHasBuilt(run)'
<1>1. \A i \in heads : main'[i] = main[i]
  BY PushExtends DEF TypeOK
<1>2. heads \subseteq heads' /\ site' = site /\ verified' = verified
  BY DEF Push
<1>3. RunIsCurrent(run)'
  BY <1>2 DEF RunIsCurrent
<1>4. run.event = "push" => main'[run.before] = main[run.before]
  BY <1>1 DEF RunIsCurrent
<1>5. main'[run.after] = main[run.after]
  BY <1>1 DEF RunIsCurrent
<1>. QED
  BY <1>2, <1>3, <1>4, <1>5 DEF RunHasBuilt, ContentOnly

---------------------------------------------------------------------------------
(* The inductive invariant. *)

LEMMA InitInv == Init => IInv
<1>. SUFFICES ASSUME Init PROVE IInv
  OBVIOUS
<1>1. main \in Seq(Version) /\ Tip = 1 /\ main[1].whole
  BY DEF Init, Version, Tip
<1>. QED
  BY <1>1 DEF Init, IInv, TypeOK, CodeIsVerifiedWhenBrought

\* A request replaces the run that waits, and cancels the one that goes on.
LEMMA RequestInv ==
  ASSUME IInv, NEW event \in {"push", "workflow_dispatch"}, NEW before \in Nat,
         Request(event, before), Len(main') \in Nat, Tip <= Len(main'),
         Len(main') \in heads', site' = site, verified' = verified,
         event = "push" => before \in heads' /\ before < Len(main'),
         \A run \in WorkflowRun :
            RunIsCurrent(run) /\ RunHasBuilt(run) => RunIsCurrent(run)' /\ RunHasBuilt(run)'
  PROVE  /\ pending' \in WorkflowRun
         /\ running' \in WorkflowRun \union {None}
         /\ RunIsCurrent(pending)'
         /\ running' # None => RunIsCurrent(running)' /\ RunHasBuilt(running)'
         /\ running' # None => running'.after <= pending'.after
<1>1. pending' \in WorkflowRun /\ pending'.after = Len(main') /\ pending'.before = before
      /\ pending'.event = event
  BY DEF Request, WorkflowRun
<1>2. RunIsCurrent(pending)'
  BY <1>1 DEF RunIsCurrent, IInv, TypeOK
<1>3. CASE running = None
  BY <1>1, <1>2, <1>3 DEF Request
<1>4. CASE running # None
  <2>1. PICK old \in WorkflowRun : old = running
    BY <1>4 DEF IInv, TypeOK
  <2>2. running' = [old EXCEPT !.cancelled = TRUE]
    BY <1>4, <2>1 DEF Request
  <2>3. RunIsCurrent(old)' /\ RunHasBuilt(old)'
    BY <1>4, <2>1 DEF IInv
  <2>4. /\ running' \in WorkflowRun
        /\ running'.event = old.event /\ running'.before = old.before
        /\ running'.after = old.after /\ running'.job = old.job
    BY <2>2 DEF WorkflowRun
  <2>5. RunIsCurrent(running)' /\ RunHasBuilt(running)'
    BY <2>3, <2>4 DEF RunIsCurrent, RunHasBuilt, ContentOnly
  <2>6. running'.after <= pending'.after
    <3>1. old.after \in heads /\ heads \subseteq 1..Tip /\ Tip \in Nat
      BY <1>4, <2>1 DEF IInv, TypeOK, RunIsCurrent, Tip
    <3>2. \A i \in 1..Tip : i <= Len(main')
      BY <3>1
    <3>. QED
      BY <1>1, <2>4, <3>1, <3>2
  <2>. QED
    BY <1>1, <1>2, <2>4, <2>5, <2>6
<1>. QED
  BY <1>3, <1>4

LEMMA PushInv ==
  ASSUME IInv, Push
  PROVE  IInv'
<1>1. /\ main' \in Seq(Version) /\ Len(main') \in Nat /\ Tip \in Nat /\ Len(main') > Tip
      /\ \A i \in 1..Tip : main'[i] = main[i]
  BY PushExtends DEF IInv, Tip
<1>2. /\ heads' = heads \union {Len(main')}
      /\ site' = site /\ verified' = verified /\ failures' = failures
      /\ dispatches' = dispatches /\ lastResult' = lastResult
      /\ Request("push", Tip)
  BY DEF Push
<1>3. /\ pending' \in WorkflowRun
      /\ running' \in WorkflowRun \union {None}
      /\ RunIsCurrent(pending)'
      /\ running' # None => RunIsCurrent(running)' /\ RunHasBuilt(running)'
      /\ running' # None => running'.after <= pending'.after
  <2>1. \A run \in WorkflowRun :
           RunIsCurrent(run) /\ RunHasBuilt(run) => RunIsCurrent(run)' /\ RunHasBuilt(run)'
    BY PushKeepsRuns DEF IInv
  <2>2. Tip \in heads' /\ Tip < Len(main') /\ Len(main') \in heads' /\ Tip <= Len(main')
    BY <1>1, <1>2 DEF IInv
  <2>. QED
    BY <1>1, <1>2, <2>1, <2>2, RequestInv
<1>4. TypeOK'
  <2>1. Tip' > 0 /\ 1..Tip \subseteq 1..Tip' /\ Tip' \in 1..Tip'
    BY <1>1 DEF Tip
  <2>2. site' \in 1..Tip' /\ heads' \subseteq 1..Tip'
    BY <1>2, <2>1 DEF IInv, TypeOK, Tip
  <2>. QED
    BY <1>1, <1>2, <1>3, <2>1, <2>2 DEF IInv, TypeOK
<1>5. CodeIsVerifiedWhenBrought'
  <2>1. main'[site] = main[site] /\ site \in 1..Tip
    BY <1>1 DEF IInv, TypeOK
  <2>2. BroughtItsCode(site)' => BroughtItsCode(site)
    <3>1. SUFFICES ASSUME BroughtItsCode(site)', NEW h \in heads, NEW i \in 1..h,
                          main[i].code = main[site].code
                   PROVE  site <= h
      BY DEF BroughtItsCode
    <3>2. i \in 1..Tip /\ h \in heads'
      BY <1>1, <1>2 DEF IInv, TypeOK
    <3>. QED
      BY <1>1, <1>2, <2>1, <3>1, <3>2 DEF BroughtItsCode
  <2>. QED
    BY <1>2, <2>1, <2>2 DEF IInv, CodeIsVerifiedWhenBrought
<1>. QED
  BY <1>2, <1>3, <1>4, <1>5 DEF IInv, Tip

LEMMA DispatchInv ==
  ASSUME IInv, Dispatch
  PROVE  IInv'
<1>1. /\ main' = main /\ heads' = heads /\ site' = site /\ verified' = verified
      /\ failures' = failures /\ dispatches' = dispatches + 1 /\ lastResult' = lastResult
      /\ Request("workflow_dispatch", 0)
  BY DEF Dispatch
<1>2. Tip \in Nat /\ Tip' = Tip
  BY <1>1 DEF IInv, TypeOK, Tip
<1>3. /\ pending' \in WorkflowRun
      /\ running' \in WorkflowRun \union {None}
      /\ RunIsCurrent(pending)'
      /\ running' # None => RunIsCurrent(running)' /\ RunHasBuilt(running)'
      /\ running' # None => running'.after <= pending'.after
  <2>1. \A run \in WorkflowRun :
           RunIsCurrent(run) /\ RunHasBuilt(run) => RunIsCurrent(run)' /\ RunHasBuilt(run)'
    BY <1>1 DEF RunIsCurrent, RunHasBuilt, ContentOnly
  <2>. QED
    BY <1>1, <1>2, <2>1, RequestInv DEF IInv, Tip
<1>. QED
  BY <1>1, <1>2, <1>3 DEF IInv, TypeOK, CodeIsVerifiedWhenBrought, BroughtItsCode

\* The run that waits goes on.
LEMMA StartInv ==
  ASSUME IInv, Start
  PROVE  IInv'
<1>1. PICK run \in WorkflowRun : run = pending
  BY DEF IInv, TypeOK, Start
<1>2. running' = [run EXCEPT !.job = "classify"] /\ pending' = None
  BY <1>1 DEF Start
<1>3. /\ running' \in WorkflowRun /\ running'.job = "classify"
      /\ running'.event = run.event /\ running'.before = run.before
      /\ running'.after = run.after
  BY <1>2 DEF WorkflowRun
<1>4. RunIsCurrent(running)' /\ RunHasBuilt(running)'
  BY <1>1, <1>3 DEF Start, IInv, RunIsCurrent, RunHasBuilt
<1>. QED
  BY <1>2, <1>3, <1>4 DEF Start, IInv, TypeOK, Tip, CodeIsVerifiedWhenBrought, BroughtItsCode

\* A run ends without a deployment: it fails, or it is cancelled.
LEMMA EndInv ==
  ASSUME IInv, NEW result \in {"failure", "cancelled"}, End(result),
         UNCHANGED <<main, pending, site, dispatches, heads, verified>>,
         failures' \in Nat
  PROVE  IInv'
  BY DEF End, IInv, TypeOK, Tip, RunIsCurrent, CodeIsVerifiedWhenBrought, BroughtItsCode

\* A run goes on to its next job.
LEMMA NextJobInv ==
  ASSUME IInv, NEW run \in WorkflowRun, run = running, running # None,
         NEW job \in {"content", "full", "deploy"},
         running' = [run EXCEPT !.job = job],
         UNCHANGED <<main, pending, site, dispatches, failures, heads, lastResult>>,
         verified \subseteq verified', verified' \subseteq Nat,
         job = "content" => ContentOnly(run),
         job = "deploy" =>
            main[run.after].whole /\ (run.after \in verified' \/ ContentOnly(run))
  PROVE  IInv'
<1>1. /\ running' \in WorkflowRun /\ running'.job = job
      /\ running'.event = run.event /\ running'.before = run.before
      /\ running'.after = run.after
  BY DEF WorkflowRun
<1>2. RunIsCurrent(running)' /\ RunHasBuilt(running)'
  BY <1>1 DEF IInv, RunIsCurrent, RunHasBuilt, ContentOnly
<1>3. pending' # None => RunIsCurrent(pending)'
  BY DEF IInv, RunIsCurrent
<1>4. TypeOK'
  BY <1>1 DEF IInv, TypeOK, Tip
<1>5. CodeIsVerifiedWhenBrought'
  BY DEF IInv, CodeIsVerifiedWhenBrought, BroughtItsCode
<1>. QED
  BY <1>1, <1>2, <1>3, <1>4, <1>5 DEF IInv, Tip

\* The site becomes what the run has built; every other run is for a later commit.
LEMMA DeployInv ==
  ASSUME IInv, Deploy
  PROVE  IInv'
<1>1. PICK run \in WorkflowRun : run = running
  BY DEF IInv, TypeOK, Deploy
<1>2. RunIsCurrent(run) /\ RunHasBuilt(run) /\ run.job = "deploy"
  BY <1>1 DEF IInv, Deploy
<1>3. /\ site' = run.after /\ running' = None /\ lastResult' = "success"
      /\ UNCHANGED <<main, pending, dispatches, failures, heads, verified>>
  BY <1>1 DEF Deploy, End
<1>4. TypeOK' /\ Tip' \in heads' /\ site' \in heads'
  BY <1>2, <1>3 DEF IInv, TypeOK, Tip, RunIsCurrent
<1>5. pending' # None => RunIsCurrent(pending)'
  BY <1>1, <1>3 DEF IInv, RunIsCurrent, Deploy
<1>6. CodeIsVerifiedWhenBrought'
  <2>1. main[run.after].whole /\ (run.after \in verified \/ ContentOnly(run))
    BY <1>2 DEF RunHasBuilt
  <2>2. ContentOnly(run) => ~BroughtItsCode(run.after)
    <3>1. SUFFICES ASSUME ContentOnly(run) PROVE ~BroughtItsCode(run.after)
      OBVIOUS
    <3>2. /\ run.before \in heads /\ run.before < run.after
          /\ main[run.before].code = main[run.after].code
      BY <1>2, <3>1 DEF ContentOnly, RunIsCurrent
    <3>3. run.before \in 1..run.before /\ ~(run.after <= run.before)
      BY <3>2 DEF IInv, TypeOK, WorkflowRun
    <3>. QED
      BY <3>2, <3>3 DEF BroughtItsCode
  <2>3. BroughtItsCode(site)' => BroughtItsCode(run.after)
    BY <1>3 DEF BroughtItsCode
  <2>. QED
    BY <1>3, <2>1, <2>2, <2>3 DEF CodeIsVerifiedWhenBrought
<1>. QED
  BY <1>3, <1>4, <1>5, <1>6 DEF IInv

LEMMA NextInv == IInv /\ [Next]_vars => IInv'
<1>. SUFFICES ASSUME IInv, [Next]_vars PROVE IInv'
  OBVIOUS
<1>1. CASE UNCHANGED vars
  BY <1>1 DEF vars, IInv, TypeOK, Tip, RunIsCurrent, RunHasBuilt, ContentOnly,
              CodeIsVerifiedWhenBrought, BroughtItsCode
<1>2. CASE Push
  BY <1>2, PushInv
<1>3. CASE Dispatch
  BY <1>3, DispatchInv
<1>4. CASE Start
  BY <1>4, StartInv
<1>5. CASE Classify
  <2>1. PICK run \in WorkflowRun : run = running
    BY <1>5 DEF IInv, TypeOK, Classify
  <2>2. CASE ContentOnly(run)
    BY <1>5, <2>1, <2>2, NextJobInv DEF Classify, IInv, TypeOK
  <2>3. CASE ~ContentOnly(run)
    BY <1>5, <2>1, <2>3, NextJobInv DEF Classify, IInv, TypeOK
  <2>. QED
    BY <2>2, <2>3
<1>6. CASE BuildContent
  <2>1. PICK run \in WorkflowRun : run = running
    BY <1>6 DEF IInv, TypeOK, BuildContent
  <2>2. CASE main[run.after].whole
    <3>1. ContentOnly(run)
      BY <1>6, <2>1 DEF BuildContent, IInv, RunHasBuilt
    <3>. QED
      BY <1>6, <2>1, <2>2, <3>1, NextJobInv DEF BuildContent, IInv, TypeOK
  <2>3. CASE ~main[run.after].whole
    BY <1>6, <2>1, <2>3, EndInv DEF BuildContent, IInv, TypeOK
  <2>. QED
    BY <2>2, <2>3
<1>7. CASE BuildFull
  <2>1. PICK run \in WorkflowRun : run = running
    BY <1>7 DEF IInv, TypeOK, BuildFull
  <2>2. CASE main[run.after].sound /\ main[run.after].whole
    <3>1. run.after \in Nat /\ verified' = verified \union {run.after}
      BY <1>7, <2>1, <2>2 DEF BuildFull, WorkflowRun
    <3>. QED
      BY <1>7, <2>1, <2>2, <3>1, NextJobInv DEF BuildFull, IInv, TypeOK
  <2>3. CASE ~(main[run.after].sound /\ main[run.after].whole)
    BY <1>7, <2>1, <2>3, EndInv DEF BuildFull, IInv, TypeOK
  <2>. QED
    BY <2>2, <2>3
<1>8. CASE Deploy
  BY <1>8, DeployInv
<1>9. CASE Cancel
  BY <1>9, EndInv DEF Cancel, IInv, TypeOK
<1>10. CASE JobFails
  BY <1>10, EndInv DEF JobFails, IInv, TypeOK
<1>. QED
  BY <1>1, <1>2, <1>3, <1>4, <1>5, <1>6, <1>7, <1>8, <1>9, <1>10 DEF Next, Run

---------------------------------------------------------------------------------
(* Theorems. *)

\* deploy.yml: every run is for a commit that is not older than the site, and what it
\* has built is what its job says.
THEOREM PagesInvariant == Spec => []IInv
  BY InitInv, NextInv, PTL DEF Spec

\* deploy.yml: the variables of the workflow keep their types.
THEOREM PagesTypeCorrect == Spec => []TypeOK
<1>1. IInv => TypeOK
  BY DEF IInv
<1>. QED
  BY <1>1, PagesInvariant, PTL

\* deploy.yml:137-139: the deployed commit can be built, and if its push brought the
\* code the full path has passed it.
THEOREM CodeIsAlwaysVerified == Spec => []CodeIsVerifiedWhenBrought
<1>1. IInv => CodeIsVerifiedWhenBrought
  BY DEF IInv
<1>. QED
  BY <1>1, PagesInvariant, PTL

\* A run deploys a commit that is not older than the site.
LEMMA SiteSteps ==
  ASSUME IInv, [Next]_vars
  PROVE  site \in Nat /\ site' >= site
<1>1. site \in Nat
  BY DEF IInv, TypeOK
<1>2. CASE Deploy
  BY <1>1, <1>2 DEF Deploy, IInv, TypeOK, WorkflowRun, RunIsCurrent
<1>3. CASE ~Deploy
  <2>1. site' = site
    BY <1>3 DEF vars, Next, Run, Push, Dispatch, Start, Classify, BuildContent, BuildFull,
                Cancel, JobFails
  <2>. QED
    BY <1>1, <2>1
<1>. QED
  BY <1>1, <1>2, <1>3

\* deploy.yml:11-12: a deployment only replaces the site by a newer commit.
THEOREM SiteOnlyGoesForward == Spec => SiteNeverGoesBack
<1>1. IInv /\ [Next]_vars => [site' >= site]_vars
  BY SiteSteps
<1>. QED
  BY <1>1, PagesInvariant, PTL DEF Spec, SiteNeverGoesBack

---------------------------------------------------------------------------------
(* No push is forgotten. *)

\* When nothing runs or waits, the newest commit is on the site, or the last run failed.
NoPushForgotten ==
    pending = None /\ running = None => site = Tip \/ lastResult = "failure"

\* The newest run there is, the one that waits or else the one that goes on, is for the
\* newest commit, and only a run that another one waits for is cancelled.
QueueInv ==
    /\ pending # None => pending.after = Tip /\ ~pending.cancelled
    /\ pending = None /\ running # None => running.after = Tip /\ ~running.cancelled
    /\ NoPushForgotten

\* A request is for the newest commit, and another run waits for the one it cancels.
LEMMA RequestQueue ==
  ASSUME NEW event \in {"push", "workflow_dispatch"}, NEW before \in Nat,
         Request(event, before), Len(main') \in Nat
  PROVE  QueueInv'
<1>1. /\ pending' = [event |-> event, before |-> before, after |-> Len(main'),
                     job |-> "waiting", cancelled |-> FALSE]
      /\ pending'.after = Len(main') /\ ~pending'.cancelled
  BY DEF Request
<1>2. pending' \in WorkflowRun
  BY <1>1 DEF WorkflowRun
<1>3. pending' # None
  BY <1>2, NoneIsNoRun
<1>. QED
  BY <1>1, <1>3 DEF QueueInv, NoPushForgotten, Tip

\* A run ends only for another that waits, or because it has failed.
LEMMA EndQueue ==
  ASSUME QueueInv, NEW result, End(result), UNCHANGED <<main, pending, site>>,
         pending # None \/ result = "failure"
  PROVE  QueueInv'
BY DEF End, QueueInv, NoPushForgotten, Tip

\* A run that goes on to its next job stays the newest.
LEMMA NextJobQueue ==
  ASSUME QueueInv, NEW run \in WorkflowRun, run = running, running # None,
         NEW job \in {"classify", "content", "full", "deploy"},
         running' = [run EXCEPT !.job = job], UNCHANGED <<main, pending>>
  PROVE  QueueInv'
<1>1. /\ running' \in WorkflowRun
      /\ running'.after = run.after /\ running'.cancelled = run.cancelled
  BY DEF WorkflowRun
<1>2. running' # None
  BY <1>1, NoneIsNoRun
<1>. QED
  BY <1>1, <1>2 DEF QueueInv, NoPushForgotten, Tip

LEMMA NextQueue ==
  ASSUME IInv, QueueInv, [Next]_vars
  PROVE  QueueInv'
<1>1. CASE UNCHANGED vars
  BY <1>1 DEF vars, QueueInv, NoPushForgotten, Tip
<1>2. CASE Push
  <2>1. Request("push", Tip) /\ Tip \in Nat /\ Len(main') \in Nat
    BY <1>2, PushExtends DEF Push, IInv, TypeOK, Tip
  <2>. QED
    BY <2>1, RequestQueue
<1>3. CASE Dispatch
  <2>1. Request("workflow_dispatch", 0) /\ Len(main') \in Nat
    BY <1>3 DEF Dispatch, IInv, TypeOK
  <2>. QED
    BY <2>1, RequestQueue
<1>4. CASE Start
  <2>1. PICK run \in WorkflowRun : run = pending
    BY <1>4 DEF IInv, TypeOK, Start
  <2>2. /\ running' = [run EXCEPT !.job = "classify"] /\ pending' = None
        /\ main' = main /\ run.after = Tip /\ ~run.cancelled
    BY <1>4, <2>1 DEF Start, QueueInv
  <2>3. running' \in WorkflowRun /\ running'.after = Tip /\ ~running'.cancelled
    BY <2>2 DEF WorkflowRun
  <2>4. running' # None
    BY <2>3, NoneIsNoRun
  <2>. QED
    BY <2>2, <2>3, <2>4 DEF QueueInv, NoPushForgotten, Tip
<1>5. CASE Classify
  <2>1. PICK run \in WorkflowRun : run = running
    BY <1>5 DEF IInv, TypeOK, Classify
  <2>2. UNCHANGED <<main, pending>> /\ running # None
        /\ \E job \in {"content", "full"} : running' = [run EXCEPT !.job = job]
    BY <1>5, <2>1 DEF Classify
  <2>. QED
    BY <2>1, <2>2, NextJobQueue
<1>6. CASE BuildContent
  <2>1. PICK run \in WorkflowRun : run = running
    BY <1>6 DEF IInv, TypeOK, BuildContent
  <2>2. UNCHANGED <<main, pending, site>> /\ running # None
        /\ (running' = [run EXCEPT !.job = "deploy"] \/ End("failure"))
    BY <1>6, <2>1 DEF BuildContent
  <2>. QED
    BY <2>1, <2>2, NextJobQueue, EndQueue
<1>7. CASE BuildFull
  <2>1. PICK run \in WorkflowRun : run = running
    BY <1>7 DEF IInv, TypeOK, BuildFull
  <2>2. UNCHANGED <<main, pending, site>> /\ running # None
        /\ (running' = [run EXCEPT !.job = "deploy"] \/ End("failure"))
    BY <1>7, <2>1 DEF BuildFull
  <2>. QED
    BY <2>1, <2>2, NextJobQueue, EndQueue
<1>8. CASE Deploy
  BY <1>8 DEF Deploy, End, QueueInv, NoPushForgotten, Tip
<1>9. CASE Cancel
  <2>1. pending # None /\ End("cancelled") /\ UNCHANGED <<main, pending, site>>
    BY <1>9 DEF Cancel, QueueInv
  <2>. QED
    BY <2>1, EndQueue
<1>10. CASE JobFails
  <2>1. End("failure") /\ UNCHANGED <<main, pending, site>>
    BY <1>10 DEF JobFails
  <2>. QED
    BY <2>1, EndQueue
<1>. QED
  BY <1>1, <1>2, <1>3, <1>4, <1>5, <1>6, <1>7, <1>8, <1>9, <1>10 DEF Next, Run

\* deploy.yml:11-12: the group of runs forgets no push.  When no run goes on or waits,
\* whatever was cancelled, the newest commit is deployed, or the last run has failed:
\* the half of NewestCommitIsPublished that needs no fairness.
THEOREM NoPushIsForgotten == Spec => []NoPushForgotten
<1>1. Init => QueueInv
  BY DEF Init, QueueInv, NoPushForgotten, Tip
<1>2. IInv /\ QueueInv /\ [Next]_vars => QueueInv'
  BY NextQueue
<1>3. QueueInv => NoPushForgotten
  BY DEF QueueInv
<1>. QED
  BY <1>1, <1>2, <1>3, PagesInvariant, PTL DEF Spec

---------------------------------------------------------------------------------
(* The page beside the workflow. *)

\* The page leaves the workflow alone.
LEMMA PageStepsLeaveWorkflow ==
  ASSUME [PublicationNext]_allVars
  PROVE  [Next]_vars
<1>1. CASE UNCHANGED allVars
  BY <1>1 DEF allVars
<1>2. CASE Next
  BY <1>2
<1>3. CASE Browser!PageNext /\ UNCHANGED <<main, pending, running, dispatches, failures, heads,
                                           verified, lastResult>>
  <2>1. site' = site
    BY <1>3 DEF Browser!PageNext, Browser!Open, Browser!HashChange, Browser!Startup,
                Browser!FetchFails, Browser!AnswersMove, Browser!Load, Browser!FetchMeta,
                Browser!ReloadOnce, Browser!StartApp
  <2>. QED
    BY <1>3, <2>1 DEF vars
<1>. QED
  BY <1>1, <1>2, <1>3 DEF PublicationNext

\* deploy.yml and bootstrap.js: what is proved of the workflow stays true beside a page
\* that it serves.
THEOREM PublicationIsPages == PublicationSpec => Spec
<1>1. PublicationInit => Init
  BY DEF PublicationInit
<1>2. [PublicationNext]_allVars => [Next]_vars
  BY PageStepsLeaveWorkflow
<1>. QED
  BY <1>1, <1>2, PTL DEF PublicationSpec, Spec

\* deploy.yml:11-12, 137-139: the workflow's properties, for the specification with the
\* page, which is the one that is model-checked.
THEOREM PublicationIsSafe ==
  PublicationSpec => []CodeIsVerifiedWhenBrought /\ SiteNeverGoesBack /\ []NoPushForgotten
BY PublicationIsPages, CodeIsAlwaysVerified, SiteOnlyGoesForward, NoPushIsForgotten, PTL

PageRecord ==
    [phase : Browser!Resting \union {"load", "identity", "clear", "import"},
     shell : Nat \union {None}, meta : Nat \union {None}, share : BOOLEAN, link : BOOLEAN]

\* The app is imported and started only when the shell and the fetched identity are of
\* one build, which is a deployed one.
AppIsOneBuild ==
    page.phase \in {"import", "share", "password"} =>
        page.shell = page.meta /\ page.shell \in 1..site

PageInv ==
    /\ Browser!PageTypeOK
    /\ page \in PageRecord
    /\ page.phase \in {"identity", "clear"} => page.shell \in 1..site
    /\ AppIsOneBuild

\* The page in hand stays one of deployed builds when a later commit is deployed.
LEMMA DeploymentKeepsPage ==
  ASSUME IInv, PageInv, Next, UNCHANGED browserVars
  PROVE  PageInv'
<1>1. site \in Nat /\ site' \in Nat /\ site' >= site
  <2>1. IInv'
    BY NextInv
  <2>. QED
    BY <2>1, SiteSteps DEF IInv, TypeOK
<1>2. 1..site \subseteq 1..site'
  BY <1>1
<1>. QED
  BY <1>2 DEF browserVars, PageInv, AppIsOneBuild, Browser!PageTypeOK, Browser!Resting,
              PageRecord

LEMMA PageStepsKeepPage ==
  ASSUME IInv, PageInv, Browser!PageNext
  PROVE  PageInv'
<1>. USE DEF PageInv, AppIsOneBuild, Browser!PageTypeOK, Browser!Resting, PageRecord
<1>0. site \in Nat
  BY SiteSteps DEF IInv, TypeOK
<1>1. CASE Browser!Open
  <2>1. PICK link \in BOOLEAN :
          page' = [phase |-> "load", shell |-> None, meta |-> None, share |-> link,
                   link |-> link]
    BY <1>1 DEF Browser!Open, Browser!NoPage
  <2>2. page' \in PageRecord /\ page'.phase = "load"
        /\ page'.share \in BOOLEAN /\ page'.link \in BOOLEAN
    BY <2>1
  <2>. QED
    BY <1>1, <2>2 DEF Browser!Open
<1>2. CASE Browser!HashChange
  BY <1>2 DEF Browser!HashChange
<1>3. CASE Browser!Load
  <2>1. shellAnswer \in Nat
    BY <1>0
  <2>2. page' = [page EXCEPT !.phase = "identity", !.shell = shellAnswer]
    BY <1>3 DEF Browser!Load
  <2>3. page' \in PageRecord /\ page'.phase = "identity" /\ page'.shell = shellAnswer
        /\ page'.share \in BOOLEAN /\ page'.link \in BOOLEAN
    BY <2>1, <2>2
  <2>. QED
    BY <1>3, <2>3 DEF Browser!Load
<1>4. CASE Browser!FetchMeta
  <2>1. metaAnswer \in Nat
    BY <1>0
  <2>2. PICK phase \in {"import", "clear"} :
          /\ page' = [page EXCEPT !.meta = metaAnswer, !.phase = phase]
          /\ phase = "import" => metaAnswer = page.shell
    BY <1>4 DEF Browser!FetchMeta
  <2>3. page' \in PageRecord /\ page'.phase = phase /\ page'.meta = metaAnswer
        /\ page'.shell = page.shell /\ page'.share \in BOOLEAN /\ page'.link \in BOOLEAN
    BY <2>1, <2>2
  <2>. QED
    BY <1>4, <2>2, <2>3 DEF Browser!FetchMeta
<1>5. CASE Browser!ReloadOnce
  <2>1. PICK phase \in {"load", "shareError", "authError"} :
          page' = [page EXCEPT !.phase = phase, !.share = FALSE]
    BY <1>5 DEF Browser!ReloadOnce, Browser!ReportError
  <2>2. page' \in PageRecord /\ page'.phase = phase
        /\ page'.share \in BOOLEAN /\ page'.link \in BOOLEAN
    BY <2>1
  <2>. QED
    BY <1>5, <2>2 DEF Browser!ReloadOnce
<1>6. CASE Browser!StartApp
  BY <1>6 DEF Browser!StartApp
<1>7. CASE Browser!FetchFails
  <2>1. PICK phase \in {"shareError", "authError"} :
          page' = [page EXCEPT !.phase = phase, !.share = FALSE]
    BY <1>7 DEF Browser!FetchFails, Browser!ReportError
  <2>2. page' \in PageRecord /\ page'.phase = phase
        /\ page'.share \in BOOLEAN /\ page'.link \in BOOLEAN
    BY <2>1
  <2>. QED
    BY <1>7, <2>2 DEF Browser!FetchFails, Browser!Fault
<1>8. CASE Browser!AnswersMove
  BY <1>8 DEF Browser!AnswersMove
<1>. QED
  BY <1>1, <1>2, <1>3, <1>4, <1>5, <1>6, <1>7, <1>8 DEF Browser!PageNext, Browser!Startup

LEMMA PublicationInvariant == PublicationSpec => [](IInv /\ PageInv)
<1>1. PublicationInit => IInv /\ PageInv
  <2>. SUFFICES ASSUME PublicationInit PROVE IInv /\ PageInv
    OBVIOUS
  <2>1. IInv
    BY InitInv DEF PublicationInit
  <2>2. site = 1 /\ page = [phase |-> "closed", shell |-> None, meta |-> None, share |-> FALSE,
                            link |-> FALSE]
    BY DEF PublicationInit, Init, Browser!PageInit, Browser!NoPage
  <2>3. PageInv
    BY <2>2 DEF PublicationInit, Browser!PageInit, PageInv, AppIsOneBuild, Browser!PageTypeOK,
                Browser!Resting, PageRecord
  <2>. QED
    BY <2>1, <2>3
<1>2. IInv /\ PageInv /\ [PublicationNext]_allVars => (IInv /\ PageInv)'
  <2>. SUFFICES ASSUME IInv, PageInv, [PublicationNext]_allVars PROVE (IInv /\ PageInv)'
    OBVIOUS
  <2>1. IInv'
    BY PageStepsLeaveWorkflow, NextInv
  <2>2. CASE UNCHANGED allVars
    <3>1. UNCHANGED <<site, browserVars>>
      BY <2>2 DEF allVars, vars
    <3>2. PageInv'
      BY <3>1 DEF browserVars, PageInv, AppIsOneBuild, Browser!PageTypeOK, Browser!Resting,
                  PageRecord
    <3>. QED
      BY <2>1, <3>2
  <2>3. CASE Next /\ UNCHANGED browserVars
    BY <2>1, <2>3, DeploymentKeepsPage
  <2>4. CASE Browser!PageNext
    BY <2>1, <2>4, PageStepsKeepPage
  <2>. QED
    BY <2>1, <2>2, <2>3, <2>4 DEF PublicationNext
<1>. QED
  BY <1>1, <1>2, PTL DEF PublicationSpec

\* deploy.yml, bootstrap.js and build_identity.js: the variables of the workflow and of
\* the page keep their types.
THEOREM PublicationTypeCorrect == PublicationSpec => []PublicationTypeOK
<1>1. IInv /\ PageInv => PublicationTypeOK
  BY DEF IInv, PageInv, PublicationTypeOK
<1>. QED
  BY <1>1, PublicationInvariant, PTL

\* build_identity.js, ensureCurrentBuild: whatever edges and caches answer, the app that
\* starts is of one build that has been deployed.
THEOREM AppAlwaysOneBuild == PublicationSpec => []AppIsOneBuild
<1>1. PageInv => AppIsOneBuild
  BY DEF PageInv
<1>. QED
  BY <1>1, PublicationInvariant, PTL

---------------------------------------------------------------------------------
(* A page does not keep reloading itself. *)

\* The steps of a load that starts with this transition remembered, and of a page that
\* has cleared the caches for a transition, as long as the answers stay what they are.
LoadSteps(key) ==
    IF shellAnswer = metaAnswer \/ key = <<shellAnswer, metaAnswer>> THEN 3 ELSE 6

ClearSteps(transition) ==
    IF reloadKey = transition THEN 1 ELSE 1 + LoadSteps(transition)

IdentitySteps ==
    IF metaAnswer = page.shell THEN 2 ELSE 1 + ClearSteps(<<page.shell, metaAnswer>>)

PhaseSteps ==
    CASE page.phase = "load"     -> LoadSteps(reloadKey)
      [] page.phase = "identity" -> IdentitySteps
      [] page.phase = "clear"    -> ClearSteps(Browser!Transition)
      [] page.phase = "import"   -> 1
      [] OTHER                   -> 0

\* A share link may still be opened in the page once.
LinkSteps == IF page.link THEN 0 ELSE 1

StepsLeft == PhaseSteps + LinkSteps

\* As long as the person does not load the page again and the answers stay the same,
\* every step of the page brings it nearer to its rest.
EveryStepCounts ==
    [][opens' = opens /\ moves' = moves /\ page' # page => StepsLeft' < StepsLeft]_allVars

\* A sum decreases with one of its parts.
LEMMA LessPlus ==
  ASSUME NEW a \in Nat, NEW b \in Nat, NEW c \in Nat, a < b
  PROVE  a + c < b + c
OBVIOUS

LEMMA StepsBounded == PhaseSteps \in 0..8 /\ StepsLeft \in 0..9
<1>1. LoadSteps(reloadKey) \in 0..6 /\ ClearSteps(Browser!Transition) \in 0..7
      /\ ClearSteps(<<page.shell, metaAnswer>>) \in 0..7
  BY DEF LoadSteps, ClearSteps
<1>2. IdentitySteps \in 0..8
  BY <1>1 DEF IdentitySteps
<1>3. PhaseSteps \in 0..8
  BY <1>1, <1>2 DEF PhaseSteps
<1>4. LinkSteps \in 0..1
  BY DEF LinkSteps
<1>. QED
  BY <1>3, <1>4 DEF StepsLeft

LEMMA PageStepCounts ==
  ASSUME PageInv, Browser!PageNext, opens' = opens, moves' = moves
  PROVE  StepsLeft' < StepsLeft
<1>1. page \in PageRecord /\ opens \in Nat /\ moves \in Nat
  BY DEF PageInv, Browser!PageTypeOK
<1>2. PhaseSteps \in Nat
  BY StepsBounded
<1>3. CASE Browser!HashChange
  <2>1. /\ page'.phase = page.phase /\ page'.shell = page.shell /\ page'.meta = page.meta
        /\ page'.link /\ ~page.link
        /\ UNCHANGED <<shellAnswer, metaAnswer, reloadKey>>
    BY <1>1, <1>3 DEF Browser!HashChange, PageRecord
  <2>2. PhaseSteps' = PhaseSteps
    BY <2>1 DEF PhaseSteps, IdentitySteps, ClearSteps, LoadSteps, Browser!Transition
  <2>3. LinkSteps = 1 /\ LinkSteps' = 0
    BY <2>1 DEF LinkSteps
  <2>. QED
    BY <1>2, <2>2, <2>3 DEF StepsLeft
<1>4. ASSUME PhaseSteps \in Nat, PhaseSteps' \in Nat, PhaseSteps' < PhaseSteps,
             page'.link = page.link
      PROVE  StepsLeft' < StepsLeft
  <2>1. page.link => page'.link
    BY <1>4
  <2>2. ~page.link => ~page'.link
    BY <1>4
  <2>3. LinkSteps \in Nat /\ LinkSteps' \in Nat
    BY DEF LinkSteps
  <2>4. LinkSteps' = LinkSteps
    BY <2>1, <2>2 DEF LinkSteps
  <2>5. PhaseSteps' + LinkSteps' < PhaseSteps + LinkSteps'
    BY <1>4, <2>3, LessPlus
  <2>. QED
    BY <2>4, <2>5 DEF StepsLeft
<1>5. CASE Browser!Load
  <2>1. /\ page.phase = "load" /\ page'.phase = "identity" /\ page'.shell = shellAnswer
        /\ page'.link = page.link
        /\ UNCHANGED <<shellAnswer, metaAnswer, reloadKey>>
    BY <1>1, <1>5 DEF Browser!Load, PageRecord
  <2>2. PhaseSteps = LoadSteps(reloadKey) /\ PhaseSteps' = IdentitySteps'
    BY <2>1 DEF PhaseSteps
  <2>3. /\ LoadSteps(reloadKey) \in Nat /\ IdentitySteps' \in Nat
        /\ IdentitySteps' < LoadSteps(reloadKey)
    BY <2>1 DEF IdentitySteps, ClearSteps, LoadSteps
  <2>. QED
    BY <1>4, <2>1, <2>2, <2>3
<1>6. CASE Browser!FetchMeta
  <2>1. /\ page.phase = "identity" /\ page'.shell = page.shell /\ page'.meta = metaAnswer
        /\ page'.link = page.link
        /\ page'.phase = IF metaAnswer = page.shell THEN "import" ELSE "clear"
        /\ metaAnswer # page.shell => reloadKey' = reloadKey
        /\ UNCHANGED <<shellAnswer, metaAnswer>>
    BY <1>1, <1>6 DEF Browser!FetchMeta, PageRecord
  <2>2. PhaseSteps = IdentitySteps
    BY <2>1 DEF PhaseSteps
  <2>3. CASE metaAnswer = page.shell
    <3>1. PhaseSteps' = 1 /\ IdentitySteps = 2
      BY <2>1, <2>3 DEF PhaseSteps, IdentitySteps
    <3>. QED
      BY <1>4, <2>1, <2>2, <3>1
  <2>4. CASE metaAnswer # page.shell
    <3>1. PhaseSteps' = ClearSteps(<<page.shell, metaAnswer>>)
          /\ IdentitySteps = 1 + ClearSteps(<<page.shell, metaAnswer>>)
      BY <2>1, <2>4 DEF PhaseSteps, IdentitySteps, ClearSteps, LoadSteps, Browser!Transition
    <3>2. ClearSteps(<<page.shell, metaAnswer>>) \in Nat
      BY DEF ClearSteps, LoadSteps
    <3>. QED
      BY <1>4, <2>1, <2>2, <3>1, <3>2
  <2>. QED
    BY <2>3, <2>4
<1>7. CASE Browser!ReloadOnce
  <2>1. /\ page.phase = "clear" /\ page'.link = page.link
        /\ UNCHANGED <<shellAnswer, metaAnswer>>
    BY <1>1, <1>7 DEF Browser!ReloadOnce, Browser!ReportError, PageRecord
  <2>2. PhaseSteps = ClearSteps(Browser!Transition)
    BY <2>1 DEF PhaseSteps
  <2>3. CASE reloadKey = Browser!Transition
    <3>1. page'.phase \in {"shareError", "authError"}
      BY <1>1, <1>7, <2>3 DEF Browser!ReloadOnce, Browser!ReportError, PageRecord
    <3>2. PhaseSteps' = 0 /\ ClearSteps(Browser!Transition) = 1
      BY <2>3, <3>1 DEF PhaseSteps, ClearSteps
    <3>. QED
      BY <1>4, <2>1, <2>2, <3>2
  <2>4. CASE reloadKey # Browser!Transition
    <3>1. page'.phase = "load" /\ reloadKey' = Browser!Transition
      BY <1>1, <1>7, <2>4 DEF Browser!ReloadOnce, PageRecord
    <3>2. PhaseSteps' = LoadSteps(Browser!Transition)
      BY <2>1, <3>1 DEF PhaseSteps, LoadSteps
    <3>3. LoadSteps(Browser!Transition) \in Nat
          /\ ClearSteps(Browser!Transition) = 1 + LoadSteps(Browser!Transition)
      BY <2>4 DEF ClearSteps, LoadSteps
    <3>. QED
      BY <1>4, <2>1, <2>2, <3>2, <3>3
  <2>. QED
    BY <2>3, <2>4
<1>8. CASE Browser!StartApp
  <2>1. page.phase = "import" /\ page'.phase \in {"share", "password"} /\ page'.link = page.link
    BY <1>1, <1>8 DEF Browser!StartApp, PageRecord
  <2>2. PhaseSteps = 1 /\ PhaseSteps' = 0
    BY <2>1 DEF PhaseSteps
  <2>. QED
    BY <1>4, <2>1, <2>2
<1>9. CASE Browser!FetchFails
  <2>1. /\ page.phase \in {"identity", "import"} /\ page'.phase \in {"shareError", "authError"}
        /\ page'.link = page.link
    BY <1>1, <1>9 DEF Browser!FetchFails, Browser!ReportError, PageRecord
  <2>2. PhaseSteps' = 0
    BY <2>1 DEF PhaseSteps
  <2>3. IdentitySteps \in Nat /\ IdentitySteps > 0
    BY DEF IdentitySteps, ClearSteps, LoadSteps
  <2>4. PhaseSteps \in Nat /\ PhaseSteps > 0
    BY <2>1, <2>3 DEF PhaseSteps
  <2>. QED
    BY <1>4, <2>1, <2>2, <2>4
<1>10. Browser!Open => opens' = opens + 1
  BY DEF Browser!Open
<1>11. Browser!AnswersMove => moves' = moves + 1
  BY DEF Browser!AnswersMove
<1>12. ~Browser!Open /\ ~Browser!AnswersMove
  BY <1>1, <1>10, <1>11
<1>. QED
  BY <1>3, <1>5, <1>6, <1>7, <1>8, <1>9, <1>12 DEF Browser!PageNext, Browser!Startup

\* build_identity.js, ensureCurrentBuild: between two loads by the person and two changes
\* of the answers the page takes at most nine steps, its reloads among them: the half of
\* ReloadsStop that needs no fairness.
THEOREM PageComesToRest == PublicationSpec => [](StepsLeft \in 0..9) /\ EveryStepCounts
<1>1. PageInv /\ [PublicationNext]_allVars =>
        [opens' = opens /\ moves' = moves /\ page' # page => StepsLeft' < StepsLeft]_allVars
  <2>. SUFFICES ASSUME PageInv, PublicationNext, opens' = opens, moves' = moves, page' # page
                PROVE  StepsLeft' < StepsLeft
    OBVIOUS
  <2>1. Browser!PageNext
    BY DEF PublicationNext, browserVars
  <2>. QED
    BY <2>1, PageStepCounts
<1>2. PublicationSpec => EveryStepCounts
  BY <1>1, PublicationInvariant, PTL DEF PublicationSpec, EveryStepCounts
<1>. QED
  BY <1>2, StepsBounded, PTL
=================================================================================
