---------------------------------- MODULE Pages ----------------------------------
(***************************************************************************)
(* The publication of the main branch: .github/workflows/deploy.yml.       *)
(*                                                                         *)
(* A push, or a dispatch by hand, asks for a run.  One run of the group    *)
(* goes on at a time and one waits; a newer one takes the place of the one *)
(* that waits and cancels the one that goes on.  A run classifies what the *)
(* push changed, takes the content-only or the full path, and deploys what *)
(* that path has built.                                                    *)
(***************************************************************************)
EXTENDS Naturals, Sequences

CONSTANTS
    None,
    MaxPushed,      \* bound: commits pushed after the first one
    MaxDispatches,  \* bound: runs that are asked for by hand
    MaxFailures     \* bound: jobs that fail by themselves

ASSUME PagesAssumption == MaxPushed \in Nat /\ MaxDispatches \in Nat /\ MaxFailures \in Nat

VARIABLES
    main,        \* commits: the code version, whether its checks pass, and its vault builds
    pending,     \* the run that waits
    running,     \* the run that goes on
    site,        \* the commit that is deployed
    dispatches,
    failures,
    heads,       \* history: the last commit of each push
    verified,    \* history: commits that the full path has passed
    lastResult   \* history: how the last run ended

vars == <<main, pending, running, site, dispatches, failures, heads, verified, lastResult>>

Tip == Len(main)

---------------------------------------------------------------------------------
(* Events. *)

\* Mutant: a run that goes on is not cancelled, and a new one is not kept for later.
RequestUnlessBusy(event, before) ==
    LET run == [event |-> event, before |-> before, after |-> Len(main'), job |-> "waiting",
                cancelled |-> FALSE]
    IN  /\ pending' = IF running = None THEN run ELSE pending
        /\ UNCHANGED running

\* concurrency: cancel-in-progress.
Request(event, before) ==
    /\ pending' = [event |-> event, before |-> before, after |-> Len(main'),
                   job |-> "waiting", cancelled |-> FALSE]
    /\ running' = IF running = None THEN None ELSE [running EXCEPT !.cancelled = TRUE]

\* A commit changes files/ only, and its vault may be torn, or it changes the code.
Commits(last) ==
    UNION {{[last EXCEPT !.whole = ok],
            [code |-> last.code + 1, sound |-> ok, whole |-> last.whole]} : ok \in BOOLEAN}

\* The watcher, the updater and others push one commit or two.
Push ==
    /\ \E c \in Commits(main[Tip]) :
          \/ main' = Append(main, c)
          \/ \E d \in Commits(c) : main' = main \o <<c, d>>
    /\ Len(main') <= MaxPushed + 1
    /\ heads' = heads \union {Len(main')}
    /\ Request("push", Tip)
    /\ UNCHANGED <<site, dispatches, failures, verified, lastResult>>

Dispatch ==
    /\ dispatches < MaxDispatches
    /\ dispatches' = dispatches + 1
    /\ UNCHANGED main
    /\ Request("workflow_dispatch", 0)
    /\ UNCHANGED <<site, failures, heads, verified, lastResult>>

---------------------------------------------------------------------------------
(* Jobs. *)

Start ==
    /\ running = None
    /\ pending # None
    /\ running' = [pending EXCEPT !.job = "classify"]
    /\ pending' = None
    /\ UNCHANGED <<main, site, dispatches, failures, heads, verified, lastResult>>

End(result) == running' = None /\ lastResult' = result

\* Mutant: what the newest commit changed is looked at, for every event.
ContentOnlyByCommit(run) == run.after > 1 /\ main[run.after - 1].code = main[run.after].code

\* git diff between the two ends of the push; a dispatch has no range.
ContentOnly(run) == run.event = "push" /\ main[run.before].code = main[run.after].code

Classify ==
    /\ running # None /\ running.job = "classify"
    /\ running' = [running EXCEPT !.job = IF ContentOnly(running) THEN "content" ELSE "full"]
    /\ UNCHANGED <<main, pending, site, dispatches, failures, heads, verified, lastResult>>

\* build-content: build_dist.mjs and check_dist.mjs of the run's commit.
BuildContent ==
    /\ running # None /\ running.job = "content"
    /\ IF main[running.after].whole
         THEN running' = [running EXCEPT !.job = "deploy"] /\ UNCHANGED lastResult
         ELSE End("failure")
    /\ UNCHANGED <<main, pending, site, dispatches, failures, heads, verified>>

\* build-full: the checks and tests first.
BuildFull ==
    /\ running # None /\ running.job = "full"
    /\ IF main[running.after].sound /\ main[running.after].whole
         THEN /\ running' = [running EXCEPT !.job = "deploy"]
              /\ verified' = verified \union {running.after}
              /\ UNCHANGED lastResult
         ELSE End("failure") /\ UNCHANGED verified
    /\ UNCHANGED <<main, pending, site, dispatches, failures, heads>>

Deploy ==
    /\ running # None /\ running.job = "deploy"
    /\ site' = running.after
    /\ End("success")
    /\ UNCHANGED <<main, pending, dispatches, failures, heads, verified>>

\* Mutant: without the group, two runs take turns.
TakeTurns ==
    /\ running # None
    /\ pending # None
    /\ pending' = running
    /\ running' = [pending EXCEPT !.job = "classify"]
    /\ UNCHANGED <<main, site, dispatches, failures, heads, verified, lastResult>>

\* A cancelled run stops where it is, or goes on: always() keeps its deploy job.
Cancel ==
    /\ running # None /\ running.cancelled
    /\ End("cancelled")
    /\ UNCHANGED <<main, pending, site, dispatches, failures, heads, verified>>

JobFails ==
    /\ running # None
    /\ failures < MaxFailures
    /\ failures' = failures + 1
    /\ End("failure")
    /\ UNCHANGED <<main, pending, site, dispatches, heads, verified>>

---------------------------------------------------------------------------------
(* The specification. *)

Init ==
    /\ main = <<[code |-> 1, sound |-> TRUE, whole |-> TRUE]>>
    /\ pending = None
    /\ running = None
    /\ site = 1
    /\ dispatches = 0
    /\ failures = 0
    /\ heads = {1}
    /\ verified = {1}
    /\ lastResult = "success"

Run == Start \/ Classify \/ BuildContent \/ BuildFull \/ Deploy

Next == Push \/ Dispatch \/ Run \/ Cancel \/ JobFails

Spec == Init /\ [][Next]_vars

---------------------------------------------------------------------------------
(* Properties. *)

Version == [code : Nat, sound : BOOLEAN, whole : BOOLEAN]

WorkflowRun ==
    [event : {"push", "workflow_dispatch"}, before : Nat, after : Nat,
     job : {"waiting", "classify", "content", "full", "deploy"}, cancelled : BOOLEAN]

ASSUME NoneIsNoRun == None \notin WorkflowRun

TypeOK ==
    /\ main \in Seq(Version) /\ Tip > 0
    /\ pending \in WorkflowRun \union {None}
    /\ running \in WorkflowRun \union {None}
    /\ site \in 1..Tip
    /\ dispatches \in Nat /\ failures \in Nat
    /\ heads \subseteq 1..Tip
    /\ verified \subseteq Nat
    /\ lastResult \in {"success", "failure", "cancelled"}

\* deploy.yml:11-12: only a newer commit takes the place of the deployed one, also
\* when runs are cancelled, fail, or are asked for by hand.
SiteNeverGoesBack == [][site' >= site]_vars

\* The commit ends the push that brought its version of the code: no earlier push has it.
BroughtItsCode(commit) ==
    \A h \in heads : \A i \in 1..h : main[i].code = main[commit].code => commit <= h

\* deploy.yml:137-139: what cannot be built is not deployed, and the push that brought
\* the code of the site is deployed only after the full path has passed it.  A later
\* push may carry that code past a full path that failed or was cancelled.
CodeIsVerifiedWhenBrought ==
    /\ main[site].whole
    /\ BroughtItsCode(site) => site \in verified

\* Once pushes end, the newest commit is on the site, or its run has failed.
NewestCommitIsPublished ==
    <>[](pending = None /\ running = None /\ (site = Tip \/ lastResult = "failure"))

---------------------------------------------------------------------------------
(* The inductive invariant. *)

\* A run is for the last commit of a push, and one for a push also knows the last
\* commit of the push before it.  It is not older than the site.
RunIsCurrent(run) ==
    /\ run.after \in heads
    /\ site <= run.after
    /\ run.event = "push" => run.before \in heads /\ run.before < run.after

\* What the run that goes on has found out about its commit.
RunHasBuilt(run) ==
    /\ run.job = "content" => ContentOnly(run)
    /\ run.job = "deploy" =>
          main[run.after].whole /\ (run.after \in verified \/ ContentOnly(run))

\* The run that waits is the newer one.
IInv ==
    /\ TypeOK
    /\ Tip \in heads /\ site \in heads
    /\ pending # None => RunIsCurrent(pending)
    /\ running # None => RunIsCurrent(running) /\ RunHasBuilt(running)
    /\ running # None /\ pending # None => running.after <= pending.after
    /\ CodeIsVerifiedWhenBrought
=================================================================================
