----------------------------- MODULE PortableUpdater -----------------------------
(***************************************************************************)
(* The owner's portable updater: portable/main.mjs, remote_updater.mjs and *)
(* workspace_update.mjs.                                                   *)
(*                                                                         *)
(* A local HTTP server takes the requests of one page: preview, apply, the *)
(* fallback of a blocked apply, and the two steps of a device login.  Its  *)
(* handlers run until their next await and interleave there, with one      *)
(* pending update, one pending fallback commit, one token, one device flow *)
(* and one PRINT_DRIVE_PASSPHRASE for all of them.  GitHub is a branch     *)
(* that moves by fast-forward only; a request that changes something there *)
(* is taken and answered in two steps, and the answer may be lost.         *)
(*                                                                         *)
(* A vault is a function from paths to contents, and the password of its   *)
(* key slot.  Paths are numbered in the order they are sorted by.          *)
(***************************************************************************)
EXTENDS Naturals, Sequences, SequencesExt, FiniteSets

CONSTANTS
    Slot,          \* handlers under way at once (bound)
    Path,          \* logical paths, as numbers
    Password,
    None,
    FirstVault,    \* the vault that the branch has at first: [files, pw]
    OtherVaults,   \* the vaults that others push
    Workspaces,    \* what the Workspace directory may hold
    Bodies,        \* bodies of preview requests: [mode, remove, confirm, passphrase, token]
    MaxPreviews,   \* bound: previews that succeed
    MaxCommits,    \* bound: commits made by anybody
    MaxEdits,      \* bound: changes of the Workspace directory
    MaxFaults      \* bound: failed calls, lost answers, refusals, stops and kills

ASSUME UpdaterAssumption ==
    /\ Path \subseteq Nat /\ IsFiniteSet(Path)
    /\ None \notin Password
    /\ \A v \in OtherVaults \union {FirstVault} :
          /\ v.pw \in Password
          /\ DOMAIN v.files \subseteq Path /\ v.files = [p \in DOMAIN v.files |-> v.files[p]]
    /\ \A files \in Workspaces : DOMAIN files \subseteq Path
    /\ \A body \in Bodies : body.passphrase \in Password /\ body.remove \subseteq Path
                             /\ body.confirm \in BOOLEAN /\ body.token \in BOOLEAN
    /\ MaxPreviews \in Nat /\ MaxCommits \in Nat /\ MaxEdits \in Nat /\ MaxFaults \in Nat

VARIABLES
    branch,          \* the target branch: its commits, oldest first
    made,            \* commits made so far: the next one gets this number as its sha
    sideCommits,     \* the commits that update branches were made for
    pulls,           \* pull requests: the commit, and the base their text names
    workspace,       \* the Workspace directory
    edits,
    open,            \* the server takes requests
    token,           \* the updater knows a token
    deviceFlow,      \* a device login has been started
    env,             \* process.env.PRINT_DRIVE_PASSPHRASE
    pendingUpdate, pendingFallbackCommit,  \* as in startPortableUpdater
    previews,        \* previews that succeeded: the next update gets this number
    job,             \* each handler
    faults

remoteVars == <<branch, made, sideCommits, pulls>>
memoryVars == <<token, deviceFlow, pendingUpdate, pendingFallbackCommit>>
vars == <<remoteVars, workspace, edits, open, memoryVars, env, previews, job, faults>>

Reviewed == INSTANCE ReviewedBranch

---------------------------------------------------------------------------------
(* Data. *)

NoPlan == [additions |-> {}, replacements |-> {}, removals |-> {}, moves |-> {}]

\* A commit by others has no update.
Foreign(sha, parent, v) ==
    [sha |-> sha, parent |-> parent, upd |-> 0, files |-> v.files, pw |-> v.pw, plan |-> NoPlan]

NoCommit == [sha |-> 0, parent |-> 0, upd |-> 0, files |-> << >>, pw |-> None, plan |-> NoPlan]

\* What buildWorkspaceUpdate returns, with the vault it was made from and the
\* password the new manifest and blobs were made under.
NoUpdate == [id |-> 0, base |-> NoCommit, files |-> << >>, pw |-> None, plan |-> NoPlan]

NoJob == [phase |-> "idle", body |-> None, upd |-> NoUpdate, commit |-> NoCommit,
          prev |-> None, auth |-> FALSE]

Tip == Last(branch)

\* fetchExactVaultSnapshot, planIncrementalUpdate: the vault that encrypting a
\* source over an older vault gives.  A new path with the contents of exactly one
\* path that is gone is a move, also when other remote files are preserved.
New(files, source) == DOMAIN source \ DOMAIN files
Left(files, source) == DOMAIN files \ DOMAIN source
Moved(files, source) ==
    {p \in Left(files, source) :
        /\ Cardinality({q \in Left(files, source) : files[q] = files[p]}) = 1
        /\ Cardinality({q \in New(files, source) : source[q] = files[p]}) = 1}

Encrypted(files, source, preserve) ==
    LET kept == IF preserve THEN Left(files, source) \ Moved(files, source) ELSE {}
    IN  [p \in DOMAIN source \union kept |->
            IF p \in DOMAIN source THEN source[p] ELSE files[p]]

\* createLogicalPlan takes the new paths in order; a path that is gone is the
\* origin of the first new one with its contents, if no other one has them.
LogicalPlan(before, after) ==
    LET new == New(before, after)
        left == Left(before, after)
        first(p) == \A q \in new : after[q] = after[p] => p <= q
        origins(p) == {q \in left : before[q] = after[p]}
        moved == {p \in new : first(p) /\ Cardinality(origins(p)) = 1}
    IN  [additions |-> new \ moved,
         replacements |-> {p \in DOMAIN before \intersect DOMAIN after : before[p] # after[p]},
         removals |-> left \ UNION {origins(p) : p \in moved},
         moves |-> {[from |-> CHOOSE q \in origins(p) : TRUE, to |-> p] : p \in moved}]

---------------------------------------------------------------------------------
(* Helpers of the handlers. *)

Go(s, phase) == job' = [job EXCEPT ![s].phase = phase]

\* The handler answers.
Answer(s) == job' = [job EXCEPT ![s] = NoJob]

Fault == faults < MaxFaults /\ faults' = faults + 1

Take(s, first) == open /\ job[s] = NoJob /\ job' = [job EXCEPT ![s] = first]

\* The finally clause around encryptMain.
RestoreEnv(s) == env' = job[s].prev

---------------------------------------------------------------------------------
(* /api/preview *)

StartPreview(s) ==
    /\ previews < MaxPreviews
    /\ \E body \in Bodies :
          /\ Take(s, [NoJob EXCEPT !.phase = "snapshot", !.body = body])
          /\ token' = (token \/ body.token)
    /\ UNCHANGED <<remoteVars, workspace, edits, open, deviceFlow, pendingUpdate,
                   pendingFallbackCommit, env, previews, faults>>

\* fetchExactVaultSnapshot: one commit, and everything else by its hashes.
FetchSnapshot(s) ==
    /\ job[s].phase = "snapshot"
    /\ job' = [job EXCEPT ![s].phase = "scan", ![s].upd.base = Tip]
    /\ UNCHANGED <<remoteVars, workspace, edits, open, memoryVars, env, previews, faults>>

\* The first look at the Workspace: an empty one needs the confirmation, and a path
\* that is to be removed must not be there; then the vault is opened, the paths are
\* removed from the copy, and the passphrase goes into the environment.
Unlock(s) ==
    LET body == job[s].body
        base == job[s].upd.base
        acceptable == /\ body.mode = "mirror" /\ workspace = << >> => body.confirm
                      /\ body.passphrase = base.pw
                      /\ body.remove \subseteq DOMAIN base.files \ DOMAIN workspace
    IN  /\ job[s].phase = "scan"
        /\ IF acceptable
             THEN /\ env' = body.passphrase
                  /\ job' = [job EXCEPT ![s].phase = "passphrase", ![s].prev = env]
             ELSE Answer(s) /\ UNCHANGED env
        /\ UNCHANGED <<remoteVars, workspace, edits, open, memoryVars, previews, faults>>

\* Mutant: whatever the environment has by now is taken.
ReadPassphraseUnchecked(s) ==
    /\ job[s].phase = "passphrase"
    /\ job' = [job EXCEPT ![s].phase = "encrypt",
                          ![s].upd.pw = IF env = None THEN job[s].body.passphrase ELSE env]
    /\ UNCHANGED <<remoteVars, workspace, edits, open, memoryVars, env, previews, faults>>

\* getPassphrase takes the environment before the file that has the preview's own
\* passphrase; by now another preview may have written it.  Then the vault is opened.
ReadPassphrase(s) ==
    /\ job[s].phase = "passphrase"
    /\ LET pw == IF env = None THEN job[s].body.passphrase ELSE env
       IN  IF pw = job[s].upd.base.pw
             THEN /\ job' = [job EXCEPT ![s].phase = "encrypt", ![s].upd.pw = pw]
                  /\ UNCHANGED env
             ELSE RestoreEnv(s) /\ Answer(s)
    /\ UNCHANGED <<remoteVars, workspace, edits, open, memoryVars, previews, faults>>

\* encryptMain reads the Workspace again; the plan compares with the whole snapshot.
Encrypt(s) ==
    /\ job[s].phase = "encrypt"
    /\ LET body == job[s].body
           files == job[s].upd.base.files
           rest == [p \in DOMAIN files \ body.remove |-> files[p]]
           target == Encrypted(rest, workspace, body.mode # "mirror")
       IN  job' = [job EXCEPT ![s].phase = "verify", ![s].upd.files = target,
                              ![s].upd.plan = LogicalPlan(files, target)]
    /\ RestoreEnv(s)
    /\ UNCHANGED <<remoteVars, workspace, edits, open, memoryVars, previews, faults>>

PreviewReady(s) ==
    /\ job[s].phase = "verify"
    /\ previews < MaxPreviews
    /\ previews' = previews + 1
    /\ pendingUpdate' = [job[s].upd EXCEPT !.id = previews + 1]
    /\ pendingFallbackCommit' = NoCommit
    /\ Answer(s)
    /\ UNCHANGED <<remoteVars, workspace, edits, open, token, deviceFlow, env, faults>>

---------------------------------------------------------------------------------
(* /api/apply *)

\* The update is the one that is pending now, whatever is pending later.
StartApply(s) ==
    /\ pendingUpdate # NoUpdate
    /\ \E given \in BOOLEAN :
          /\ Take(s, [NoJob EXCEPT !.phase = "recheck", !.upd = pendingUpdate,
                                   !.auth = token \/ given])
          /\ token' = (token \/ given)
    /\ UNCHANGED <<remoteVars, workspace, edits, open, deviceFlow, pendingUpdate,
                   pendingFallbackCommit, env, previews, faults>>

RecheckBase(s) ==
    /\ job[s].phase = "recheck"
    /\ IF Tip.sha = job[s].upd.base.sha THEN Go(s, "upload") ELSE Answer(s)
    /\ UNCHANGED <<remoteVars, workspace, edits, open, memoryVars, env, previews, faults>>

\* Blobs, one tree on top of the base tree, one commit; without a token nothing is made.
CreateCommit(s) ==
    /\ job[s].phase = "upload"
    /\ IF job[s].auth
         THEN /\ made < MaxCommits
              /\ made' = made + 1
              /\ LET upd == job[s].upd
                 IN  job' = [job EXCEPT ![s].phase = "patch",
                                ![s].commit = [sha |-> made + 1, parent |-> upd.base.sha,
                                               upd |-> upd.id, files |-> upd.files,
                                               pw |-> upd.pw, plan |-> upd.plan]]
         ELSE Answer(s) /\ UNCHANGED made
    /\ UNCHANGED <<branch, sideCommits, pulls, workspace, edits, open, memoryVars, env,
                   previews, faults>>

\* Mutant: force: true.
UpdateRefByForce(s) ==
    /\ job[s].phase = "patch"
    /\ branch' = Append(branch, job[s].commit)
    /\ Go(s, "moved")
    /\ UNCHANGED <<made, sideCommits, pulls, workspace, edits, open, memoryVars, env,
                   previews, faults>>

\* GitHub takes the reference update: force is false.  403 and a 422 that speaks of
\* protection may come for other reasons than a protected branch, and at any time.
UpdateRef(s) ==
    /\ job[s].phase = "patch"
    /\ \/ /\ job[s].commit.parent = Tip.sha
          /\ branch' = Append(branch, job[s].commit)
          /\ Go(s, "moved")
          /\ UNCHANGED faults
       \/ /\ job[s].commit.parent # Tip.sha
          /\ Go(s, "conflict")
          /\ UNCHANGED <<branch, faults>>
       \/ /\ Fault
          /\ Go(s, "protected")
          /\ UNCHANGED branch
    /\ UNCHANGED <<made, sideCommits, pulls, workspace, edits, open, memoryVars, env,
                   previews>>

\* The answers.  Success clears what is pending now.
ApplySucceeded(s) ==
    /\ job[s].phase = "moved"
    /\ pendingUpdate' = NoUpdate
    /\ token' = FALSE
    /\ Answer(s)
    /\ UNCHANGED <<remoteVars, workspace, edits, open, deviceFlow, pendingFallbackCommit,
                   env, previews, faults>>

ApplyConflicted(s) ==
    /\ job[s].phase = "conflict"
    /\ Answer(s)
    /\ UNCHANGED <<remoteVars, workspace, edits, open, memoryVars, env, previews, faults>>

\* Mutant: a fallback is offered for every error of the reference update.
ApplyBlockedOrLost(s) ==
    /\ job[s].phase \in {"protected", "moved"}
    /\ pendingFallbackCommit' = job[s].commit
    /\ Answer(s)
    /\ UNCHANGED <<remoteVars, workspace, edits, open, token, deviceFlow, pendingUpdate,
                   env, previews, faults>>

ApplyBlocked(s) ==
    /\ job[s].phase = "protected"
    /\ pendingFallbackCommit' = job[s].commit
    /\ Answer(s)
    /\ UNCHANGED <<remoteVars, workspace, edits, open, token, deviceFlow, pendingUpdate,
                   env, previews, faults>>

---------------------------------------------------------------------------------
(* /api/fallback *)

StartFallback(s) ==
    /\ pendingUpdate # NoUpdate
    /\ pendingFallbackCommit # NoCommit
    /\ Take(s, [NoJob EXCEPT !.phase = "branch", !.upd = pendingUpdate,
                             !.commit = pendingFallbackCommit, !.auth = token])
    /\ UNCHANGED <<remoteVars, workspace, edits, open, memoryVars, env, previews, faults>>

\* The update branch has a fresh name; a retry makes another one.
CreateBranch(s) ==
    /\ job[s].phase = "branch"
    /\ IF job[s].auth
         THEN sideCommits' = sideCommits \union {job[s].commit} /\ Go(s, "pull")
         ELSE Answer(s) /\ UNCHANGED sideCommits
    /\ UNCHANGED <<branch, made, pulls, workspace, edits, open, memoryVars, env, previews,
                   faults>>

OpenPull(s) ==
    /\ job[s].phase = "pull"
    /\ pulls' = pulls \union {[commit |-> job[s].commit, base |-> job[s].upd.base.sha]}
    /\ Go(s, "opened")
    /\ UNCHANGED <<branch, made, sideCommits, workspace, edits, open, memoryVars, env,
                   previews, faults>>

FallbackPublished(s) ==
    /\ job[s].phase = "opened"
    /\ pendingUpdate' = NoUpdate
    /\ pendingFallbackCommit' = NoCommit
    /\ token' = FALSE
    /\ Answer(s)
    /\ UNCHANGED <<remoteVars, workspace, edits, open, deviceFlow, env, previews, faults>>

---------------------------------------------------------------------------------
(* /api/device/start and /api/device/poll *)

StartDevice(s) ==
    /\ Take(s, [NoJob EXCEPT !.phase = "device"])
    /\ UNCHANGED <<remoteVars, workspace, edits, open, memoryVars, env, previews, faults>>

DeviceStarted(s) ==
    /\ job[s].phase = "device"
    /\ deviceFlow' = TRUE
    /\ Answer(s)
    /\ UNCHANGED <<remoteVars, workspace, edits, open, token, pendingUpdate,
                   pendingFallbackCommit, env, previews, faults>>

StartPoll(s) ==
    /\ deviceFlow
    /\ Take(s, [NoJob EXCEPT !.phase = "poll"])
    /\ UNCHANGED <<remoteVars, workspace, edits, open, memoryVars, env, previews, faults>>

DeviceApproved(s) ==
    /\ job[s].phase = "poll"
    /\ token' = TRUE
    /\ deviceFlow' = FALSE
    /\ Answer(s)
    /\ UNCHANGED <<remoteVars, workspace, edits, open, pendingUpdate, pendingFallbackCommit,
                   env, previews, faults>>

---------------------------------------------------------------------------------
(* Failures, stops, and the world outside. *)

\* A call fails before it changes anything, an answer is lost, a login is denied, or
\* the snapshot or the Workspace is refused: the handler reports an error, and what
\* was pending stays pending.
Fail(s) ==
    /\ Fault
    /\ job[s] # NoJob
    /\ env' = IF job[s].phase \in {"passphrase", "encrypt"} THEN job[s].prev ELSE env
    /\ Answer(s)
    /\ UNCHANGED <<remoteVars, workspace, edits, open, memoryVars, previews>>

\* SIGINT, SIGTERM: no new requests, and the handlers that run go on.
Shutdown ==
    /\ open
    /\ Fault
    /\ open' = FALSE
    /\ token' = FALSE
    /\ pendingUpdate' = NoUpdate
    /\ pendingFallbackCommit' = NoCommit
    \* deviceAbort: the login that waits is given up.
    /\ job' = [s \in Slot |-> IF job[s].phase = "poll" THEN NoJob ELSE job[s]]
    /\ UNCHANGED <<remoteVars, workspace, edits, deviceFlow, env, previews>>

\* The process is killed and started again, or it ends after a shutdown.
Restart ==
    /\ \/ open /\ Fault
       \/ ~open /\ (\A s \in Slot : job[s] = NoJob) /\ UNCHANGED faults
    /\ open' = TRUE
    /\ token' = FALSE
    /\ deviceFlow' = FALSE
    /\ pendingUpdate' = NoUpdate
    /\ pendingFallbackCommit' = NoCommit
    /\ env' = None
    /\ job' = [s \in Slot |-> NoJob]
    /\ UNCHANGED <<remoteVars, workspace, edits, previews>>

OtherPush ==
    /\ made < MaxCommits
    /\ made' = made + 1
    /\ \E v \in OtherVaults : branch' = Append(branch, Foreign(made + 1, Tip.sha, v))
    /\ UNCHANGED <<sideCommits, pulls, workspace, edits, open, memoryVars, env, previews, job,
                   faults>>

EditWorkspace ==
    /\ edits < MaxEdits
    /\ edits' = edits + 1
    /\ workspace' \in Workspaces
    /\ UNCHANGED <<remoteVars, open, memoryVars, env, previews, job, faults>>

---------------------------------------------------------------------------------
(* The specification. *)

Init ==
    /\ branch = <<Foreign(1, 0, FirstVault)>>
    /\ made = 1
    /\ sideCommits = {}
    /\ pulls = {}
    /\ workspace \in Workspaces
    /\ edits = 0
    /\ open = TRUE
    /\ token = FALSE
    /\ deviceFlow = FALSE
    /\ env = None
    /\ pendingUpdate = NoUpdate
    /\ pendingFallbackCommit = NoCommit
    /\ previews = 0
    /\ job = [s \in Slot |-> NoJob]
    /\ faults = 0

Start(s) == StartPreview(s) \/ StartApply(s) \/ StartFallback(s) \/ StartDevice(s) \/ StartPoll(s)

PreviewStep(s) == FetchSnapshot(s) \/ Unlock(s) \/ ReadPassphrase(s) \/ Encrypt(s)
                  \/ PreviewReady(s)

ApplyStep(s) == RecheckBase(s) \/ CreateCommit(s) \/ UpdateRef(s) \/ ApplySucceeded(s)
                \/ ApplyConflicted(s) \/ ApplyBlocked(s)

FallbackStep(s) == CreateBranch(s) \/ OpenPull(s) \/ FallbackPublished(s)

Next ==
    \/ \E s \in Slot : \/ Start(s) \/ PreviewStep(s) \/ ApplyStep(s) \/ FallbackStep(s)
                       \/ DeviceStarted(s) \/ DeviceApproved(s) \/ Fail(s)
    \/ Shutdown \/ Restart \/ OtherPush \/ EditWorkspace

Spec == Init /\ [][Next]_vars

---------------------------------------------------------------------------------
(* Properties. *)

Commits == {branch[i] : i \in DOMAIN branch}

Contents == UNION {{f[p] : p \in DOMAIN f} :
                       f \in Workspaces \union {v.files : v \in OtherVaults \union {FirstVault}}}

Files == UNION {[paths -> Contents] : paths \in SUBSET Path}

Plans == [additions : SUBSET Path, replacements : SUBSET Path, removals : SUBSET Path,
          moves : SUBSET [from : Path, to : Path]]

MadeCommits == [sha : Nat, parent : Nat, upd : Nat, files : Files, pw : Password \union {None},
                plan : Plans]

Updates == [id : Nat, base : MadeCommits, files : Files, pw : Password \union {None}, plan : Plans]

Jobs == [phase : {"idle", "snapshot", "scan", "passphrase", "encrypt", "verify", "recheck",
                  "upload", "patch", "moved", "conflict", "protected", "branch", "pull",
                  "opened", "device", "poll"},
         body : Bodies \union {None}, upd : Updates, commit : MadeCommits,
         prev : Password \union {None}, auth : BOOLEAN]

TypeOK ==
    /\ branch \in Seq(MadeCommits) /\ branch # << >>
    /\ sideCommits \subseteq MadeCommits
    /\ made \in Nat /\ edits \in Nat /\ previews \in Nat /\ faults \in Nat
    /\ workspace \in Workspaces
    /\ open \in BOOLEAN /\ token \in BOOLEAN /\ deviceFlow \in BOOLEAN
    /\ env \in Password \union {None}
    /\ pendingUpdate \in Updates /\ pendingFallbackCommit \in MadeCommits
    /\ job \in [Slot -> Jobs]

\* The branch moves by reviewed updates only, each once, on its own base, and by what
\* its plan says: whatever handlers overlap, whoever pushes meanwhile, and whichever
\* answers are lost and tried again.
ImplementsReviewedBranch == Reviewed!Spec

\* A commit that is offered for a pull request, or has an update branch, was refused:
\* it is not on the target branch, nor does it get there by a request under way.
OfferedWasRefused ==
    \A c \in sideCommits \union {pendingFallbackCommit} :
        c \notin Commits /\ \A s \in Slot : job[s].phase \in {"patch", "moved"} => job[s].commit # c

\* Previews share one environment variable, and one may read what another one wrote
\* or left there.  The vault it encrypts is opened by its own snapshot's password
\* all the same, or it is refused.
SealedWithItsKey ==
    /\ pendingUpdate.pw = pendingUpdate.base.pw
    /\ \A s \in Slot : job[s].phase = "verify" => job[s].upd.pw = job[s].upd.base.pw
    /\ \A c \in Commits \union sideCommits :
          c.upd # 0 => \A d \in Commits : d.sha = c.parent => c.pw = d.pw

---------------------------------------------------------------------------------
(* The inductive invariant. *)

\* The contents, and the password, are those of a review of that commit of the branch.
Reviews(files, pw, plan, base) ==
    base \in Commits /\ pw = base.pw /\ Reviewed!Differ(base.files, files) = Reviewed!Named(plan)

Ready(u) == u.id # 0 /\ Reviews(u.files, u.pw, u.plan, u.base)

FromReview(c) ==
    c.upd # 0 /\ \E base \in Commits : base.sha = c.parent /\ Reviews(c.files, c.pw, c.plan, base)

\* Each commit of the branch has its own name, and its predecessor is its parent.
BranchFits ==
    /\ \A i \in DOMAIN branch : branch[i].sha \in 1..made
    /\ \A i, k \in DOMAIN branch : branch[i].sha = branch[k].sha => i = k
    /\ \A i \in DOMAIN branch : IF i = 1 THEN branch[i].upd = 0
                                          ELSE branch[i].parent = branch[i - 1].sha
    /\ \A c \in Commits : c.upd # 0 => FromReview(c)

\* A handler that has made a commit and has not answered yet.
Holding == {"patch", "moved", "conflict", "protected"}

OffBranch(c) == c.sha \in 1..made /\ \A d \in Commits : d.sha # c.sha

\* What is offered elsewhere was refused, and nobody has it under way.
Offered(c) ==
    /\ OffBranch(c)
    /\ FromReview(c)
    /\ \A s \in Slot : job[s].phase \in Holding => job[s].commit.sha # c.sha

JobFits(j) ==
    /\ j.phase \in {"snapshot", "scan", "passphrase", "encrypt"} => j.body \in Bodies
    /\ j.phase \in {"scan", "passphrase", "encrypt", "verify"} => j.upd.base \in Commits
    /\ j.phase \in {"encrypt", "verify"} => j.upd.pw = j.upd.base.pw
    /\ j.phase = "verify" => Reviews(j.upd.files, j.upd.pw, j.upd.plan, j.upd.base)
    /\ j.phase \in {"recheck", "upload"} => Ready(j.upd)
    /\ j.phase \in Holding => j.commit.sha \in 1..made /\ FromReview(j.commit)
    /\ j.phase \in {"patch", "protected"} => OffBranch(j.commit)
    /\ j.phase \in {"branch", "pull", "opened"} => Offered(j.commit)

OneHolder ==
    \A s, t \in Slot :
        /\ job[s].phase \in Holding /\ job[t].phase \in Holding
        /\ job[s].commit.sha = job[t].commit.sha
        => s = t

\* The number of an update tells the commit it was reviewed against.
HasBase(base, id, sha) == id \in 1..previews /\ base[id] = sha

Numbered(base, j) ==
    /\ j.phase \in {"recheck", "upload"} => HasBase(base, j.upd.id, j.upd.base.sha)
    /\ j.phase = "patch" => HasBase(base, j.commit.upd, j.commit.parent)

NumbersFit(base) ==
    /\ \A c \in Commits : c.upd # 0 => HasBase(base, c.upd, c.parent)
    /\ pendingUpdate # NoUpdate => HasBase(base, pendingUpdate.id, pendingUpdate.base.sha)
    /\ \A s \in Slot : Numbered(base, job[s])

IInv ==
    /\ TypeOK
    /\ BranchFits
    /\ \A s \in Slot : JobFits(job[s])
    /\ OneHolder
    /\ pendingUpdate = NoUpdate \/ Ready(pendingUpdate)
    /\ \A c \in sideCommits \union ({pendingFallbackCommit} \ {NoCommit}) : Offered(c)
    /\ \E base \in [1..previews -> 1..made] : NumbersFit(base)
=================================================================================
