--------------------------- MODULE PortableUpdaterProofs ---------------------------
(***************************************************************************)
(* Proofs about PortableUpdater, for any number of handlers, any vaults,   *)
(* Workspaces and requests, and however many previews, commits and faults  *)
(* there are: the three properties that its run checks.                    *)
(*                                                                         *)
(* Most steps of a handler replace one record of job, and leave the branch *)
(* and what is offered alone: HandlerStep deals with them.  The others are *)
(* a commit that is made, one that lands, one that is offered, and a       *)
(* preview that gets its number; each of them has a lemma.                 *)
(***************************************************************************)
EXTENDS PortableUpdater, FiniteSetTheorems, SequenceTheorems, TLAPS

---------------------------------------------------------------------------------
(* Lemmas about the data. *)

\* What createLogicalPlan says of two vaults: their difference, path for path.
LEMMA PlanNamesTheDifference ==
    ASSUME NEW before \in Files, NEW after \in Files
    PROVE  /\ LogicalPlan(before, after) \in Plans
           /\ Reviewed!Differ(before, after) = Reviewed!Named(LogicalPlan(before, after))
<1> DEFINE new == New(before, after)
           left == Left(before, after)
           first(p) == \A q \in new : after[q] = after[p] => p <= q
           origins(p) == {q \in left : before[q] = after[p]}
           moved == {p \in new : first(p) /\ Cardinality(origins(p)) = 1}
           origin(p) == CHOOSE q \in origins(p) : TRUE
           replaced == {p \in DOMAIN before \intersect DOMAIN after : before[p] # after[p]}
           gone == left \ UNION {origins(p) : p \in moved}
           moves == {[from |-> origin(p), to |-> p] : p \in moved}
<1>1. DOMAIN before \subseteq Path /\ DOMAIN after \subseteq Path
  BY DEF Files
<1>2. new \subseteq Path /\ left \subseteq Path
  BY <1>1 DEF New, Left
<1>3. ASSUME NEW p \in moved
      PROVE  origins(p) = {origin(p)} /\ origin(p) \in left /\ p \in new
  <2>1. IsFiniteSet(origins(p))
    BY <1>2, UpdaterAssumption, FS_Subset
  <2>2. PICK q : origins(p) = {q}
    BY <2>1, FS_Singleton
  <2> QED
    BY <2>2
<1>4. LogicalPlan(before, after) = [additions |-> new \ moved, replacements |-> replaced,
                                    removals |-> gone, moves |-> moves]
  BY DEF LogicalPlan
<1>5. moves \in SUBSET [from : Path, to : Path]
  <2> SUFFICES ASSUME NEW p \in moved
               PROVE  [from |-> origin(p), to |-> p] \in [from : Path, to : Path]
    OBVIOUS
  <2>1. origin(p) \in Path /\ p \in Path
    BY <1>2, <1>3
  <2> HIDE DEF origin
  <2> QED
    BY <2>1
<1>6. LogicalPlan(before, after) \in Plans
  <2>1. /\ (new \ moved) \in SUBSET Path /\ replaced \in SUBSET Path /\ gone \in SUBSET Path
        /\ moves \in SUBSET [from : Path, to : Path]
    BY <1>1, <1>2, <1>5
  <2> HIDE DEF moved, moves, replaced, gone, new
  <2> QED
    BY <1>4, <2>1 DEF Plans
<1>7. UNION {{m.from, m.to} : m \in moves} = moved \union UNION {origins(p) : p \in moved}
  <2>1. \A p \in moved : origins(p) = {origin(p)}
    BY <1>3
  <2> HIDE DEF moved, origins, origin
  <2>2. \A m \in moves : \E p \in moved : m.from = origin(p) /\ m.to = p
    OBVIOUS
  <2>3. \A p \in moved : \E m \in moves : m.from = origin(p) /\ m.to = p
    <3> TAKE p \in moved
    <3> WITNESS [from |-> origin(p), to |-> p] \in moves
    <3> QED
      OBVIOUS
  <2> HIDE DEF moves
  <2> QED
    BY <2>1, <2>2, <2>3
<1>8. Reviewed!Named(LogicalPlan(before, after)) = new \union left \union replaced
  <2>1. moved \subseteq new /\ UNION {origins(p) : p \in moved} \subseteq left
    OBVIOUS
  <2>2. Reviewed!Named(LogicalPlan(before, after)) =
            (new \ moved) \union replaced \union gone \union UNION {{m.from, m.to} : m \in moves}
    BY <1>4 DEF Reviewed!Named
  <2> HIDE DEF moved, moves, replaced, new, left
  <2> QED
    BY <1>7, <2>1, <2>2
<1>9. Reviewed!Differ(before, after) = new \union left \union replaced
  BY <1>1 DEF Reviewed!Differ, New, Left
<1> QED
  BY <1>6, <1>8, <1>9

LEMMA EncryptedFits ==
    ASSUME NEW files \in Files, NEW removed, NEW source \in Workspaces, NEW preserve \in BOOLEAN
    PROVE  Encrypted([p \in DOMAIN files \ removed |-> files[p]], source, preserve) \in Files
<1> DEFINE rest == [p \in DOMAIN files \ removed |-> files[p]]
           kept == IF preserve THEN Left(rest, source) \ Moved(rest, source) ELSE {}
           all == DOMAIN source \union kept
<1>1. PICK paths \in SUBSET Path : files \in [paths -> Contents]
  BY DEF Files
<1>2. DOMAIN source \subseteq Path /\ \A p \in DOMAIN source : source[p] \in Contents
  BY UpdaterAssumption DEF Contents
<1>3. kept \subseteq DOMAIN rest /\ DOMAIN rest \subseteq paths
  BY <1>1 DEF Left
<1>4. \A p \in DOMAIN rest : rest[p] \in Contents
  BY <1>1
<1>5. Encrypted(rest, source, preserve) =
          [p \in all |-> IF p \in DOMAIN source THEN source[p] ELSE rest[p]]
  BY DEF Encrypted
<1> HIDE DEF rest, kept
<1>6. all \in SUBSET Path
  BY <1>1, <1>2, <1>3
<1>7. Encrypted(rest, source, preserve) \in [all -> Contents]
  BY <1>2, <1>3, <1>4, <1>5
<1> QED
  BY <1>6, <1>7 DEF Files, rest

LEMMA FirstVaultFits ==
    ASSUME NEW v \in OtherVaults \union {FirstVault}, NEW sha \in Nat, NEW parent \in Nat
    PROVE  Foreign(sha, parent, v) \in MadeCommits
<1>1. v.pw \in Password /\ DOMAIN v.files \subseteq Path
  BY UpdaterAssumption
<1>2. v.files \in [DOMAIN v.files -> Contents]
  <2>1. v.files = [p \in DOMAIN v.files |-> v.files[p]]
    BY UpdaterAssumption
  <2>2. \A p \in DOMAIN v.files : v.files[p] \in Contents
    BY DEF Contents
  <2> QED
    BY <2>1, <2>2
<1>3. v.files \in Files
  BY <1>1, <1>2 DEF Files
<1>4. NoPlan \in Plans
  BY DEF NoPlan, Plans
<1> QED
  BY <1>1, <1>3, <1>4 DEF Foreign, MadeCommits

LEMMA NothingFits == NoCommit \in MadeCommits /\ NoUpdate \in Updates /\ NoJob \in Jobs
<1>1. << >> \in [{} -> Contents]
  OBVIOUS
<1>2. << >> \in Files
  BY <1>1 DEF Files
<1>3. NoPlan \in Plans
  BY DEF NoPlan, Plans
<1>4. NoCommit \in MadeCommits
  BY <1>2, <1>3 DEF NoCommit, MadeCommits
<1>5. NoUpdate \in Updates
  BY <1>2, <1>3, <1>4 DEF NoUpdate, Updates
<1> QED
  BY <1>4, <1>5 DEF NoJob, Jobs

\* The last commit of the branch is one of them.
LEMMA TipFits ==
    ASSUME TypeOK
    PROVE  /\ Len(branch) \in Nat \ {0} /\ DOMAIN branch = 1..Len(branch)
           /\ Tip \in Commits /\ Commits \subseteq MadeCommits
<1>1. Len(branch) \in Nat \ {0} /\ DOMAIN branch = 1..Len(branch)
  BY EmptySeq, LenProperties DEF TypeOK
<1>2. \A i \in DOMAIN branch : branch[i] \in MadeCommits
  BY <1>1, ElementOfSeq DEF TypeOK
<1> QED
  BY <1>1, <1>2 DEF Commits, Tip, Last

---------------------------------------------------------------------------------
(* A step of a handler that makes no commit, lands none, and offers none. *)

LEMMA HandlersStep ==
    ASSUME IInv, job' \in [Slot -> Jobs],
           \A t \in Slot : /\ JobFits(job'[t])
                           /\ job'[t].phase \in Holding => /\ job[t].phase \in Holding
                                                           /\ job'[t].commit = job[t].commit
                           /\ \A base : NumbersFit(base) => Numbered(base, job'[t]),
           UNCHANGED <<branch, made, previews>>,
           workspace' \in Workspaces, edits' \in Nat, open' \in BOOLEAN,
           token' \in BOOLEAN, deviceFlow' \in BOOLEAN, env' \in Password \union {None},
           faults' \in Nat,
           pendingUpdate' \in {pendingUpdate, NoUpdate},
           NEW offered \in SUBSET MadeCommits, \A c \in offered : Offered(c) \/ Offered(c)',
           sideCommits' \subseteq sideCommits \union offered,
           pendingFallbackCommit' \in {pendingFallbackCommit, NoCommit} \union offered
    PROVE  IInv'
<1>1. TypeOK'
  <2>1. pendingUpdate' \in Updates /\ pendingFallbackCommit' \in MadeCommits
        /\ sideCommits' \subseteq MadeCommits
    BY NothingFits DEF TypeOK, IInv
  <2> QED
    BY <2>1 DEF TypeOK, IInv
<1>2. \A t \in Slot : job'[t] \in Jobs
  OBVIOUS
<1>3. UNCHANGED <<branch, made, previews>> /\ UNCHANGED Commits
  BY DEF Commits
<1>4. BranchFits'
  BY <1>3 DEF IInv, BranchFits, FromReview, Reviews
<1>5. ASSUME NEW c, Offered(c) PROVE Offered(c)'
  <2>1. OffBranch(c)' /\ FromReview(c)'
    BY <1>3, <1>5 DEF Offered, OffBranch, FromReview, Reviews
  <2>2. \A t \in Slot : job'[t].phase \in Holding => job'[t].commit.sha # c.sha
    BY <1>5 DEF Offered
  <2> QED
    BY <2>1, <2>2 DEF Offered
<1>6. ASSUME NEW k, JobFits(k) PROVE JobFits(k)'
  BY <1>3, <1>5, <1>6 DEF JobFits, FromReview, Ready, Reviews, OffBranch
<1>7. (\A t \in Slot : JobFits(job[t]))'
  <2> SUFFICES ASSUME NEW t \in Slot PROVE JobFits(job[t])'
    OBVIOUS
  <2>1. PICK k \in Jobs : k = job'[t]
    BY <1>2
  <2>2. JobFits(k)
    BY <2>1
  <2>3. JobFits(k)'
    BY <1>6, <2>2
  <2> QED
    BY <2>1, <2>3
<1>8. OneHolder'
  BY DEF IInv, OneHolder
<1>9. (pendingUpdate = NoUpdate \/ Ready(pendingUpdate))'
  BY <1>3 DEF IInv, Ready, Reviews
<1>10. (\A c \in sideCommits \union ({pendingFallbackCommit} \ {NoCommit}) : Offered(c))'
  BY <1>5 DEF IInv
<1>11. (\E base \in [1..previews -> 1..made] : NumbersFit(base))'
  <2>1. PICK base \in [1..previews -> 1..made] : NumbersFit(base)
    BY DEF IInv
  <2>2. \A k : Numbered(base, k)' <=> Numbered(base, k)
    BY <1>3 DEF Numbered, HasBase
  <2>3. \A t \in Slot : Numbered(base, job[t])'
    BY <1>2, <2>1, <2>2
  <2>4. (\A c \in Commits : c.upd # 0 => HasBase(base, c.upd, c.parent))'
    BY <1>3, <2>1 DEF NumbersFit, HasBase
  <2>5. (pendingUpdate # NoUpdate => HasBase(base, pendingUpdate.id, pendingUpdate.base.sha))'
    BY <1>3, <2>1 DEF NumbersFit, HasBase
  <2>6. NumbersFit(base)'
    BY <2>3, <2>4, <2>5 DEF NumbersFit
  <2> QED
    BY <1>3, <2>1, <2>6
<1> QED
  BY <1>1, <1>4, <1>7, <1>8, <1>9, <1>10, <1>11 DEF IInv

\* One handler goes on.
LEMMA HandlerStep ==
    ASSUME IInv, NEW s \in Slot, NEW j \in Jobs, JobFits(j), job' = [job EXCEPT ![s] = j],
           j.phase \in Holding => job[s].phase \in Holding /\ j.commit = job[s].commit,
           \A base : NumbersFit(base) => Numbered(base, j),
           UNCHANGED <<branch, made, sideCommits, workspace, edits, open, previews>>,
           token' \in BOOLEAN, deviceFlow' \in BOOLEAN, env' \in Password \union {None},
           faults' \in Nat,
           pendingUpdate' \in {pendingUpdate, NoUpdate},
           pendingFallbackCommit' \in {pendingFallbackCommit, NoCommit}
    PROVE  IInv'
<1>1. job' \in [Slot -> Jobs] /\ job'[s] = j /\ \A t \in Slot : t # s => job'[t] = job[t]
  BY DEF IInv, TypeOK
<1>2. \A t \in Slot : JobFits(job[t]) /\ \A base : NumbersFit(base) => Numbered(base, job[t])
  BY DEF IInv, NumbersFit
<1>3. \A t \in Slot : /\ JobFits(job'[t])
                      /\ job'[t].phase \in Holding => /\ job[t].phase \in Holding
                                                      /\ job'[t].commit = job[t].commit
                      /\ \A base : NumbersFit(base) => Numbered(base, job'[t])
  BY <1>1, <1>2
<1>4. workspace \in Workspaces /\ edits \in Nat /\ open \in BOOLEAN
  BY DEF IInv, TypeOK
<1>5. PICK offered \in SUBSET MadeCommits : offered = {}
  OBVIOUS
<1>6. /\ workspace' \in Workspaces /\ edits' \in Nat /\ open' \in BOOLEAN
      /\ UNCHANGED <<branch, made, previews>>
      /\ sideCommits' \subseteq sideCommits \union offered
      /\ pendingFallbackCommit' \in {pendingFallbackCommit, NoCommit} \union offered
      /\ \A c \in offered : Offered(c) \/ Offered(c)'
  BY <1>4, <1>5
<1> QED
  BY <1>1, <1>3, <1>6, HandlersStep

\* A handler that answers leaves what it has to others.
LEMMA AnswerFits ==
    ASSUME IInv, NEW s \in Slot, Answer(s),
           UNCHANGED <<branch, made, sideCommits, workspace, edits, open, previews>>,
           token' \in BOOLEAN, deviceFlow' \in BOOLEAN, env' \in Password \union {None},
           faults' \in Nat,
           pendingUpdate' \in {pendingUpdate, NoUpdate},
           pendingFallbackCommit' \in {pendingFallbackCommit, NoCommit}
    PROVE  IInv'
<1>1. NoJob.phase = "idle"
  BY DEF NoJob
<1>2. JobFits(NoJob) /\ NoJob.phase \notin Holding
  BY <1>1 DEF JobFits, Holding
<1>3. \A base : Numbered(base, NoJob)
  BY <1>1 DEF Numbered
<1> QED
  BY <1>2, <1>3, NothingFits, HandlerStep DEF Answer

\* What the invariant says of a handler.
LEMMA HandlerFits ==
    ASSUME IInv, NEW s \in Slot
    PROVE  /\ job \in [Slot -> Jobs] /\ job[s] \in Jobs /\ JobFits(job[s])
           /\ job[s].upd \in Updates /\ job[s].commit \in MadeCommits
           /\ token \in BOOLEAN /\ deviceFlow \in BOOLEAN /\ env \in Password \union {None}
           /\ faults \in Nat /\ made \in Nat /\ previews \in Nat
           /\ pendingUpdate \in Updates /\ pendingFallbackCommit \in MadeCommits
BY DEF IInv, TypeOK, Jobs

---------------------------------------------------------------------------------
(* The preview. *)

LEMMA StartPreviewKeeps ==
    ASSUME IInv, NEW s \in Slot, StartPreview(s)
    PROVE  IInv'
<1>1. PICK body \in Bodies :
          /\ Take(s, [NoJob EXCEPT !.phase = "snapshot", !.body = body])
          /\ token' = (token \/ body.token)
  BY DEF StartPreview
<1> DEFINE new == [NoJob EXCEPT !.phase = "snapshot", !.body = body]
<1>2. new \in Jobs /\ new.phase = "snapshot" /\ new.body = body
  BY NothingFits DEF Jobs
<1>3. job' = [job EXCEPT ![s] = new]
  BY <1>1 DEF Take
<1> HIDE DEF new
<1>4. JobFits(new) /\ new.phase \notin Holding /\ \A base : Numbered(base, new)
  BY <1>2 DEF JobFits, Holding, Numbered
<1>5. /\ UNCHANGED <<remoteVars, workspace, edits, open, previews, deviceFlow, env, faults,
                     pendingUpdate, pendingFallbackCommit>>
      /\ token' \in BOOLEAN /\ faults \in Nat /\ deviceFlow \in BOOLEAN
      /\ env \in Password \union {None}
  BY <1>1, HandlerFits, UpdaterAssumption DEF StartPreview
<1> QED
  BY <1>2, <1>3, <1>4, <1>5, HandlerStep DEF remoteVars

LEMMA FetchSnapshotKeeps ==
    ASSUME IInv, NEW s \in Slot, FetchSnapshot(s)
    PROVE  IInv'
<1>1. job[s].phase = "snapshot"
  BY DEF FetchSnapshot
<1>2. job \in [Slot -> Jobs] /\ job[s] \in Jobs /\ JobFits(job[s]) /\ job[s].upd \in Updates
  BY HandlerFits
<1>3. Tip \in Commits /\ Tip \in MadeCommits
  BY TipFits DEF IInv
<1> DEFINE upd == [job[s].upd EXCEPT !.base = Tip]
           new == [job[s] EXCEPT !.phase = "scan", !.upd = upd]
<1>4. upd \in Updates /\ upd.base = Tip
  BY <1>2, <1>3 DEF Updates
<1>5. new \in Jobs /\ new.phase = "scan" /\ new.upd = upd /\ new.body = job[s].body
  BY <1>2, <1>4 DEF Jobs
<1>6. job' = [job EXCEPT ![s] = new]
  <2>1. job' = [job EXCEPT ![s].phase = "scan", ![s].upd.base = Tip]
    BY DEF FetchSnapshot
  <2> QED
    BY <1>2, <2>1
<1> HIDE DEF new, upd
<1>7. JobFits(new) /\ new.phase \notin Holding /\ \A base : Numbered(base, new)
  BY <1>1, <1>2, <1>3, <1>4, <1>5 DEF JobFits, Holding, Numbered
<1>8. /\ UNCHANGED <<remoteVars, workspace, edits, open, previews, memoryVars, env, faults>>
      /\ token \in BOOLEAN /\ faults \in Nat /\ deviceFlow \in BOOLEAN
      /\ env \in Password \union {None}
  BY HandlerFits DEF FetchSnapshot
<1> QED
  BY <1>5, <1>6, <1>7, <1>8, HandlerStep DEF memoryVars, remoteVars

LEMMA UnlockKeeps ==
    ASSUME IInv, NEW s \in Slot, Unlock(s)
    PROVE  IInv'
<1>1. job[s].phase = "scan"
  BY DEF Unlock
<1>2. /\ job \in [Slot -> Jobs] /\ job[s] \in Jobs /\ JobFits(job[s])
      /\ env \in Password \union {None}
  BY HandlerFits
<1>3. /\ UNCHANGED <<remoteVars, workspace, edits, open, memoryVars, previews, faults>>
      /\ token \in BOOLEAN /\ faults \in Nat /\ deviceFlow \in BOOLEAN
  BY HandlerFits DEF Unlock
<1>4. CASE env' = job[s].body.passphrase
           /\ job' = [job EXCEPT ![s].phase = "passphrase", ![s].prev = env]
  <2> DEFINE new == [job[s] EXCEPT !.phase = "passphrase", !.prev = env]
  <2>1. /\ new \in Jobs /\ new.phase = "passphrase" /\ new.body = job[s].body
        /\ new.upd = job[s].upd
    BY <1>2 DEF Jobs
  <2>2. job' = [job EXCEPT ![s] = new]
    BY <1>2, <1>4
  <2> HIDE DEF new
  <2>3. JobFits(new) /\ new.phase \notin Holding /\ \A base : Numbered(base, new)
    BY <1>1, <1>2, <2>1 DEF JobFits, Holding, Numbered
  <2>4. job[s].body \in Bodies
    BY <1>1, <1>2 DEF JobFits
  <2>5. env' \in Password \union {None}
    BY <1>4, <2>4, UpdaterAssumption
  <2> QED
    BY <1>3, <2>1, <2>2, <2>3, <2>5, HandlerStep DEF memoryVars, remoteVars
<1>5. CASE Answer(s) /\ UNCHANGED env
  BY <1>2, <1>3, <1>5, AnswerFits DEF remoteVars, memoryVars
<1> QED
  BY <1>4, <1>5 DEF Unlock

LEMMA ReadPassphraseKeeps ==
    ASSUME IInv, NEW s \in Slot, ReadPassphrase(s)
    PROVE  IInv'
<1> DEFINE pw == IF env = None THEN job[s].body.passphrase ELSE env
<1>1. job[s].phase = "passphrase"
  BY DEF ReadPassphrase
<1>2. /\ job \in [Slot -> Jobs] /\ job[s] \in Jobs /\ JobFits(job[s]) /\ job[s].upd \in Updates
      /\ env \in Password \union {None} /\ job[s].prev \in Password \union {None}
  BY HandlerFits DEF Jobs
<1>3. /\ UNCHANGED <<remoteVars, workspace, edits, open, memoryVars, previews, faults>>
      /\ token \in BOOLEAN /\ faults \in Nat /\ deviceFlow \in BOOLEAN
  BY HandlerFits DEF ReadPassphrase
<1>4. CASE pw = job[s].upd.base.pw
  <2> DEFINE upd == [job[s].upd EXCEPT !.pw = pw]
             new == [job[s] EXCEPT !.phase = "encrypt", !.upd = upd]
  <2>1. pw \in Password
    BY <1>1, <1>2, UpdaterAssumption DEF JobFits
  <2>2. upd \in Updates /\ upd.pw = pw /\ upd.base = job[s].upd.base
    BY <1>2, <2>1 DEF Updates
  <2>3. new \in Jobs /\ new.phase = "encrypt" /\ new.body = job[s].body /\ new.upd = upd
    BY <1>2, <2>2 DEF Jobs
  <2>4. job' = [job EXCEPT ![s] = new] /\ UNCHANGED env
    <3>1. job' = [job EXCEPT ![s].phase = "encrypt", ![s].upd.pw = pw] /\ UNCHANGED env
      BY <1>4 DEF ReadPassphrase
    <3> QED
      BY <1>2, <3>1
  <2> HIDE DEF new, upd
  <2>5. JobFits(new) /\ new.phase \notin Holding /\ \A base : Numbered(base, new)
    BY <1>1, <1>2, <1>4, <2>2, <2>3 DEF JobFits, Holding, Numbered
  <2> QED
    BY <1>2, <1>3, <2>3, <2>4, <2>5, HandlerStep DEF memoryVars, remoteVars
<1>5. CASE pw # job[s].upd.base.pw
  BY <1>2, <1>3, <1>5, AnswerFits DEF remoteVars, memoryVars, ReadPassphrase, RestoreEnv
<1> QED
  BY <1>4, <1>5

LEMMA EncryptKeeps ==
    ASSUME IInv, NEW s \in Slot, Encrypt(s)
    PROVE  IInv'
<1> DEFINE body == job[s].body
           files == job[s].upd.base.files
           rest == [p \in DOMAIN files \ body.remove |-> files[p]]
           target == Encrypted(rest, workspace, body.mode # "mirror")
           plan == LogicalPlan(files, target)
           upd == [job[s].upd EXCEPT !.files = target, !.plan = plan]
           new == [job[s] EXCEPT !.phase = "verify", !.upd = upd]
<1>1. job[s].phase = "encrypt"
  BY DEF Encrypt
<1>2. /\ job \in [Slot -> Jobs] /\ job[s] \in Jobs /\ JobFits(job[s]) /\ job[s].upd \in Updates
      /\ job[s].prev \in Password \union {None}
  BY HandlerFits DEF Jobs
<1>3. files \in Files
  BY <1>2 DEF Updates, MadeCommits
<1>4. target \in Files
  BY <1>3, EncryptedFits DEF IInv, TypeOK
<1>5. plan \in Plans /\ Reviewed!Differ(files, target) = Reviewed!Named(plan)
  BY <1>3, <1>4, PlanNamesTheDifference
<1> HIDE DEF target, plan
<1>6. /\ upd \in Updates /\ upd.base = job[s].upd.base /\ upd.pw = job[s].upd.pw
      /\ upd.files = target /\ upd.plan = plan
  BY <1>2, <1>4, <1>5 DEF Updates
<1>7. new \in Jobs /\ new.phase = "verify" /\ new.upd = upd
  BY <1>2, <1>6 DEF Jobs
<1>8. job' = [job EXCEPT ![s] = new]
  <2>1. job' = [job EXCEPT ![s].phase = "verify", ![s].upd.files = target, ![s].upd.plan = plan]
    BY DEF Encrypt, target, plan
  <2> QED
    BY <1>2, <2>1
<1> HIDE DEF new, upd
<1>9. JobFits(new) /\ new.phase \notin Holding /\ \A base : Numbered(base, new)
  BY <1>1, <1>2, <1>5, <1>6, <1>7 DEF JobFits, Holding, Numbered, Reviews
<1>10. /\ UNCHANGED <<remoteVars, workspace, edits, open, memoryVars, previews, faults>>
       /\ token \in BOOLEAN /\ faults \in Nat /\ deviceFlow \in BOOLEAN
       /\ env' \in Password \union {None}
  BY <1>2, HandlerFits DEF Encrypt, RestoreEnv
<1> QED
  BY <1>7, <1>8, <1>9, <1>10, HandlerStep DEF memoryVars, remoteVars

\* The update gets a number that no other one has.
LEMMA PreviewReadyKeeps ==
    ASSUME IInv, NEW s \in Slot, PreviewReady(s)
    PROVE  IInv'
<1> DEFINE upd == job[s].upd
           new == [upd EXCEPT !.id = previews + 1]
<1>1. /\ job[s].phase = "verify" /\ previews' = previews + 1 /\ pendingUpdate' = new
      /\ pendingFallbackCommit' = NoCommit /\ job' = [job EXCEPT ![s] = NoJob]
      /\ UNCHANGED <<remoteVars, workspace, edits, open, token, deviceFlow, env, faults>>
  BY DEF PreviewReady, Answer
<1>2. /\ job \in [Slot -> Jobs] /\ job[s] \in Jobs /\ JobFits(job[s]) /\ upd \in Updates
      /\ previews \in Nat
  BY HandlerFits
<1>3. Reviews(upd.files, upd.pw, upd.plan, upd.base)
  BY <1>1, <1>2 DEF JobFits
<1>4. /\ new \in Updates /\ new.id = previews + 1 /\ new.base = upd.base /\ new.pw = upd.pw
      /\ new.files = upd.files /\ new.plan = upd.plan
  BY <1>2 DEF Updates
<1> HIDE DEF new
<1>5. /\ job' \in [Slot -> Jobs] /\ job'[s] = NoJob /\ NoJob.phase = "idle"
      /\ \A t \in Slot : t # s => job'[t] = job[t]
  BY <1>1, <1>2, NothingFits DEF NoJob
<1>6. TypeOK'
  BY <1>1, <1>2, <1>4, <1>5, NothingFits DEF TypeOK, IInv, remoteVars
<1>7. UNCHANGED <<branch, made, sideCommits>> /\ UNCHANGED Commits
  BY <1>1 DEF remoteVars, Commits
<1>8. BranchFits'
  BY <1>7 DEF IInv, BranchFits, FromReview, Reviews
<1>9. ASSUME NEW c, Offered(c) PROVE Offered(c)'
  BY <1>5, <1>7, <1>9 DEF Offered, OffBranch, FromReview, Reviews, Holding
<1>10. ASSUME NEW k, JobFits(k) PROVE JobFits(k)'
  BY <1>7, <1>9, <1>10 DEF JobFits, FromReview, Ready, Reviews, OffBranch
<1>11. (\A t \in Slot : JobFits(job[t]))'
  <2>1. JobFits(NoJob)'
    BY <1>5 DEF JobFits, Holding
  <2> QED
    BY <1>5, <1>10, <2>1 DEF IInv
<1>12. OneHolder'
  BY <1>5 DEF IInv, OneHolder, Holding
<1>13. Ready(pendingUpdate)'
  BY <1>1, <1>2, <1>3, <1>4, <1>7 DEF Ready, Reviews
<1>14. (\A c \in sideCommits \union ({pendingFallbackCommit} \ {NoCommit}) : Offered(c))'
  BY <1>1, <1>7, <1>9 DEF IInv
<1>15. (\E base \in [1..previews -> 1..made] : NumbersFit(base))'
  <2>1. PICK base \in [1..previews -> 1..made] : NumbersFit(base)
    BY DEF IInv
  <2>2. upd.base.sha \in 1..made
    BY <1>3 DEF Reviews, Commits, IInv, BranchFits
  <2>3. PICK next \in [1..(previews + 1) -> 1..made] :
            next[previews + 1] = upd.base.sha /\ \A i \in 1..previews : next[i] = base[i]
    <3> DEFINE extended == [i \in 1..(previews + 1) |->
                               IF i = previews + 1 THEN upd.base.sha ELSE base[i]]
    <3>1. extended \in [1..(previews + 1) -> 1..made]
      BY <1>2, <2>1, <2>2
    <3>2. extended[previews + 1] = upd.base.sha /\ \A i \in 1..previews : extended[i] = base[i]
      BY <1>2
    <3> HIDE DEF extended
    <3> QED
      BY <3>1, <3>2
  <2>4. next \in [1..previews' -> 1..made']
    BY <1>1, <1>7, <2>3
  <2>5. previews + 1 \in 1..previews' /\ 1..previews \subseteq 1..previews'
    BY <1>1, <1>2
  <2>6. \A id, sha : HasBase(base, id, sha) => HasBase(next, id, sha)'
    BY <2>3, <2>5 DEF HasBase
  <2>7. \A k : Numbered(base, k) => Numbered(next, k)'
    BY <2>6 DEF Numbered
  <2>8. \A t \in Slot : Numbered(next, job[t])'
    <3>1. Numbered(next, NoJob)'
      BY <1>5 DEF Numbered
    <3>2. \A t \in Slot : Numbered(base, job[t])
      BY <2>1 DEF NumbersFit
    <3> QED
      BY <1>5, <2>7, <3>1, <3>2
  <2>9. (\A c \in Commits : c.upd # 0 => HasBase(next, c.upd, c.parent))'
    BY <1>7, <2>1, <2>6 DEF NumbersFit
  <2>10. HasBase(next, pendingUpdate.id, pendingUpdate.base.sha)'
    BY <1>1, <1>4, <2>3, <2>5 DEF HasBase
  <2>11. NumbersFit(next)'
    BY <2>8, <2>9, <2>10 DEF NumbersFit
  <2> QED
    BY <2>4, <2>11
<1> QED
  BY <1>6, <1>8, <1>11, <1>12, <1>13, <1>14, <1>15 DEF IInv

---------------------------------------------------------------------------------
(* Commits that are made, and commits that land. *)

\* The branch takes a commit whose parent is the last one.
LEMMA BranchGrows ==
    ASSUME IInv, NEW c \in MadeCommits, branch' = Append(branch, c),
           made' \in Nat, made <= made', c.sha \in 1..made', \A d \in Commits : d.sha # c.sha,
           c.parent = Tip.sha, c.upd # 0 => FromReview(c)
    PROVE  /\ branch' \in Seq(MadeCommits) /\ branch' # << >>
           /\ Commits' = Commits \union {c}
           /\ BranchFits'
           /\ \A x : FromReview(x) => FromReview(x)'
           /\ \A x : OffBranch(x) /\ x.sha # c.sha => OffBranch(x)'
<1>1. /\ branch \in Seq(MadeCommits) /\ Len(branch) \in Nat \ {0}
      /\ DOMAIN branch = 1..Len(branch) /\ made \in Nat
  BY TipFits DEF IInv, TypeOK
<1>2. /\ branch' \in Seq(MadeCommits) /\ Len(branch') = Len(branch) + 1
      /\ \A i \in 1..Len(branch) : branch'[i] = branch[i]
      /\ branch'[Len(branch) + 1] = c
  BY <1>1, AppendProperties
<1>3. DOMAIN branch' = 1..(Len(branch) + 1)
  BY <1>2, LenProperties
<1>4. \A i \in DOMAIN branch' : \/ i \in DOMAIN branch /\ branch'[i] = branch[i]
                                \/ i = Len(branch) + 1 /\ branch'[i] = c
  BY <1>1, <1>2, <1>3
<1>5. \A i \in DOMAIN branch : i \in DOMAIN branch' /\ branch'[i] = branch[i]
  BY <1>1, <1>2, <1>3
<1>6. Len(branch) + 1 \in DOMAIN branch' /\ branch'[Len(branch) + 1] = c
  BY <1>1, <1>2, <1>3
<1>7. Commits' = Commits \union {c}
  BY <1>4, <1>5, <1>6 DEF Commits
<1>8. branch' # << >>
  BY <1>1, <1>2, EmptySeq
<1>9. (\A i \in DOMAIN branch : branch[i].sha \in 1..made)'
  BY <1>1, <1>4 DEF IInv, BranchFits
<1>10. (\A i, k \in DOMAIN branch : branch[i].sha = branch[k].sha => i = k)'
  <2>1. \A i \in DOMAIN branch : branch[i].sha # c.sha
    BY DEF Commits
  <2>2. \A i, k \in DOMAIN branch : branch[i].sha = branch[k].sha => i = k
    BY DEF IInv, BranchFits
  <2> QED
    BY <1>4, <2>1, <2>2
<1>11. (\A i \in DOMAIN branch : IF i = 1 THEN branch[i].upd = 0
                                         ELSE branch[i].parent = branch[i - 1].sha)'
  <2> SUFFICES ASSUME NEW i \in DOMAIN branch'
               PROVE  IF i = 1 THEN branch'[i].upd = 0
                               ELSE branch'[i].parent = branch'[i - 1].sha
    OBVIOUS
  <2>1. CASE i \in DOMAIN branch
    <3>1. i # 1 => i - 1 \in DOMAIN branch
      BY <1>1, <2>1
    <3> QED
      BY <1>5, <2>1, <3>1 DEF IInv, BranchFits
  <2>2. CASE i = Len(branch) + 1
    <3>1. i # 1 /\ i - 1 = Len(branch) /\ Len(branch) \in DOMAIN branch
      BY <1>1, <2>2
    <3> QED
      BY <1>5, <1>6, <2>2, <3>1 DEF Tip, Last
  <2> QED
    BY <1>4, <2>1, <2>2
<1>12. (\A d \in Commits : d.upd # 0 => FromReview(d))'
  BY <1>7 DEF IInv, BranchFits, FromReview, Reviews
<1>13. ASSUME NEW x, FromReview(x) PROVE FromReview(x)'
  BY <1>7, <1>13 DEF FromReview, Reviews
<1>14. ASSUME NEW x, OffBranch(x), x.sha # c.sha PROVE OffBranch(x)'
  BY <1>1, <1>7, <1>14 DEF OffBranch
<1> QED
  BY <1>2, <1>7, <1>8, <1>9, <1>10, <1>11, <1>12, <1>13, <1>14 DEF BranchFits

LEMMA CreateCommitKeeps ==
    ASSUME IInv, NEW s \in Slot, CreateCommit(s)
    PROVE  IInv'
<1>1. job[s].phase = "upload"
  BY DEF CreateCommit
<1>2. /\ job \in [Slot -> Jobs] /\ job[s] \in Jobs /\ JobFits(job[s]) /\ job[s].upd \in Updates
      /\ token \in BOOLEAN /\ deviceFlow \in BOOLEAN /\ env \in Password \union {None}
      /\ faults \in Nat /\ made \in Nat /\ previews \in Nat
  BY HandlerFits
<1>3. /\ UNCHANGED <<branch, sideCommits, pulls, workspace, edits, open, token, deviceFlow,
                     pendingUpdate, pendingFallbackCommit, env, previews, faults>>
  BY DEF CreateCommit, memoryVars
<1>4. CASE ~ job[s].auth
  <2>1. Answer(s) /\ UNCHANGED made
    BY <1>4 DEF CreateCommit
  <2> QED
    BY <1>2, <1>3, <2>1, AnswerFits
<1>5. CASE job[s].auth
  <2> DEFINE upd == job[s].upd
  <2>1. made' = made + 1
    BY <1>5 DEF CreateCommit
  <2>2. PICK c \in MadeCommits : c = [sha |-> made + 1, parent |-> upd.base.sha, upd |-> upd.id,
                                     files |-> upd.files, pw |-> upd.pw, plan |-> upd.plan]
    <3> DEFINE literal == [sha |-> made + 1, parent |-> upd.base.sha, upd |-> upd.id,
                           files |-> upd.files, pw |-> upd.pw, plan |-> upd.plan]
    <3>1. literal \in MadeCommits
      BY <1>2 DEF MadeCommits, Updates
    <3> QED
      BY <3>1
  <2>3. PICK new \in Jobs : /\ new = [job[s] EXCEPT !.phase = "patch", !.commit = c]
                            /\ new.phase = "patch" /\ new.commit = c
    <3> DEFINE literal == [job[s] EXCEPT !.phase = "patch", !.commit = c]
    <3>1. literal \in Jobs /\ literal.phase = "patch" /\ literal.commit = c
      BY <1>2 DEF Jobs
    <3> QED
      BY <3>1
  <2>4. job' = [job EXCEPT ![s] = new]
    <3>1. job' = [job EXCEPT ![s].phase = "patch", ![s].commit = c]
      BY <1>5, <2>2 DEF CreateCommit
    <3> QED
      BY <1>2, <2>3, <3>1
  <2>5. Ready(upd)
    BY <1>1, <1>2 DEF JobFits
  <2>6. FromReview(c)
    BY <2>2, <2>5 DEF FromReview, Ready, Reviews
  <2>7. c.sha = made + 1 /\ c.upd = upd.id /\ c.parent = upd.base.sha
    BY <2>2
  <2>8. /\ job' \in [Slot -> Jobs] /\ job'[s] = new
        /\ \A t \in Slot : t # s => job'[t] = job[t]
    BY <1>2, <2>3, <2>4
  <2>9. UNCHANGED Commits
    BY <1>3 DEF Commits
  <2>10. \A d \in Commits : d.sha \in 1..made
    BY DEF IInv, BranchFits, Commits
  <2>11. TypeOK'
    BY <1>2, <1>3, <2>1, <2>8 DEF IInv, TypeOK
  <2>12. BranchFits'
    BY <1>2, <1>3, <2>1, <2>9 DEF IInv, BranchFits, FromReview, Reviews
  <2>13. ASSUME NEW x, Offered(x) PROVE Offered(x)'
    <3>1. x.sha \in 1..made /\ x.sha # c.sha /\ OffBranch(x)
      BY <1>2, <2>7, <2>13 DEF Offered, OffBranch
    <3>2. OffBranch(x)'
      BY <1>2, <2>1, <2>9, <3>1 DEF OffBranch
    <3>3. FromReview(x)'
      BY <2>9, <2>13 DEF Offered, FromReview, Reviews
    <3>4. \A t \in Slot : job'[t].phase \in Holding => job'[t].commit.sha # x.sha
      BY <2>3, <2>8, <2>13, <3>1 DEF Offered
    <3> QED
      BY <3>2, <3>3, <3>4 DEF Offered
  <2>14. ASSUME NEW k, JobFits(k) PROVE JobFits(k)'
    <3>1. \A x : (FromReview(x) => FromReview(x)') /\ (OffBranch(x) => OffBranch(x)')
      BY <1>2, <2>1, <2>9 DEF FromReview, Reviews, OffBranch
    <3>2. \A u : Ready(u)' <=> Ready(u)
      BY <2>9 DEF Ready, Reviews
    <3>3. k.phase = "verify" => Reviews(k.upd.files, k.upd.pw, k.upd.plan, k.upd.base)'
      BY <2>9, <2>14 DEF JobFits, Reviews
    <3> QED
      BY <1>2, <2>1, <2>9, <2>13, <2>14, <3>1, <3>2, <3>3 DEF JobFits
  <2>15. (\A t \in Slot : JobFits(job[t]))'
    <3>1. OffBranch(c)' /\ FromReview(c)'
      BY <1>2, <2>1, <2>6, <2>7, <2>9, <2>10 DEF OffBranch, FromReview, Reviews
    <3>2. JobFits(new)'
      BY <2>3, <3>1 DEF JobFits, Holding, OffBranch
    <3> QED
      BY <2>8, <2>14, <3>2 DEF IInv
  <2>16. OneHolder'
    <3>1. \A t \in Slot : job[t].phase \in Holding => job[t].commit.sha # c.sha
      <4>1. \A t \in Slot : JobFits(job[t])
        BY DEF IInv
      <4>2. \A t \in Slot : job[t].phase \in Holding => job[t].commit.sha \in 1..made
        BY <4>1 DEF JobFits
      <4> QED
        BY <1>2, <2>7, <4>2
    <3>2. OneHolder /\ job'[s].commit.sha = c.sha
      BY <2>3, <2>8 DEF IInv
    <3>3. \A t \in Slot \ {s} : job'[t] = job[t]
      BY <2>8
    <3>4. \A t \in Slot : job'[t].phase \in Holding /\ job'[t].commit.sha = c.sha => t = s
      BY <3>1, <3>3
    <3> QED
      BY <3>2, <3>3, <3>4 DEF OneHolder
  <2>17. (pendingUpdate = NoUpdate \/ Ready(pendingUpdate))'
    BY <1>3, <2>9 DEF IInv, Ready, Reviews
  <2>18. (\A x \in sideCommits \union ({pendingFallbackCommit} \ {NoCommit}) : Offered(x))'
    BY <1>3, <2>13 DEF IInv
  <2>19. (\E base \in [1..previews -> 1..made] : NumbersFit(base))'
    <3>1. PICK base \in [1..previews -> 1..made] : NumbersFit(base)
      BY DEF IInv
    <3>2. base \in [1..previews' -> 1..made']
      BY <1>2, <1>3, <2>1, <3>1
    <3>3. \A k : Numbered(base, k)' <=> Numbered(base, k)
      BY <1>3 DEF Numbered, HasBase
    <3>4. Numbered(base, new)
      BY <1>1, <2>3, <2>7, <3>1 DEF NumbersFit, Numbered
    <3>5. \A t \in Slot : Numbered(base, job[t])'
      BY <2>8, <3>1, <3>3, <3>4 DEF NumbersFit
    <3>6. NumbersFit(base)'
      BY <1>3, <2>9, <3>1, <3>5 DEF NumbersFit, HasBase
    <3> QED
      BY <3>2, <3>6
  <2> QED
    BY <2>11, <2>12, <2>15, <2>16, <2>17, <2>18, <2>19 DEF IInv
<1> QED
  BY <1>4, <1>5

---------------------------------------------------------------------------------
(* The rest of an apply. *)

\* What a handler has stays, but for its phase.
LEMMA GoFits ==
    ASSUME IInv, NEW s \in Slot,
           NEW phase \in {"upload", "moved", "conflict", "protected", "pull", "opened"},
           Go(s, phase)
    PROVE  \E new \in Jobs : /\ new.phase = phase /\ new.upd = job[s].upd
                             /\ new.commit = job[s].commit
                             /\ job' = [job EXCEPT ![s] = new]
<1> DEFINE literal == [job[s] EXCEPT !.phase = phase]
<1>1. job \in [Slot -> Jobs] /\ job[s] \in Jobs
  BY HandlerFits
<1>2. /\ literal \in Jobs /\ literal.phase = phase /\ literal.upd = job[s].upd
      /\ literal.commit = job[s].commit
  BY <1>1 DEF Jobs
<1>3. job' = [job EXCEPT ![s] = literal]
  BY <1>1 DEF Go
<1> HIDE DEF literal
<1> QED
  BY <1>2, <1>3

LEMMA StartApplyKeeps ==
    ASSUME IInv, NEW s \in Slot, StartApply(s)
    PROVE  IInv'
<1>1. PICK given \in BOOLEAN :
          /\ Take(s, [NoJob EXCEPT !.phase = "recheck", !.upd = pendingUpdate,
                                   !.auth = token \/ given])
          /\ token' = (token \/ given)
  BY DEF StartApply
<1> DEFINE new == [NoJob EXCEPT !.phase = "recheck", !.upd = pendingUpdate,
                                !.auth = token \/ given]
<1>2. pendingUpdate \in Updates /\ token \in BOOLEAN
  BY HandlerFits
<1>3. new \in Jobs /\ new.phase = "recheck" /\ new.upd = pendingUpdate
  BY <1>2, NothingFits DEF Jobs
<1>4. job' = [job EXCEPT ![s] = new]
  BY <1>1 DEF Take
<1> HIDE DEF new
<1>5. Ready(pendingUpdate) /\ pendingUpdate # NoUpdate
  BY DEF StartApply, IInv
<1>6. JobFits(new) /\ new.phase \notin Holding
  BY <1>3, <1>5 DEF JobFits, Holding
<1>7. \A base : NumbersFit(base) => Numbered(base, new)
  BY <1>3, <1>5 DEF NumbersFit, Numbered
<1>8. /\ UNCHANGED <<remoteVars, workspace, edits, open, previews, deviceFlow, env, faults,
                     pendingUpdate, pendingFallbackCommit>>
      /\ token' \in BOOLEAN /\ faults \in Nat /\ deviceFlow \in BOOLEAN
      /\ env \in Password \union {None}
  BY <1>1, <1>2, HandlerFits DEF StartApply
<1> QED
  BY <1>3, <1>4, <1>6, <1>7, <1>8, HandlerStep DEF remoteVars

LEMMA RecheckBaseKeeps ==
    ASSUME IInv, NEW s \in Slot, RecheckBase(s)
    PROVE  IInv'
<1>1. job[s].phase = "recheck"
  BY DEF RecheckBase
<1>2. /\ UNCHANGED <<remoteVars, workspace, edits, open, memoryVars, env, previews, faults>>
      /\ token \in BOOLEAN /\ faults \in Nat /\ deviceFlow \in BOOLEAN
      /\ env \in Password \union {None} /\ JobFits(job[s])
  BY HandlerFits DEF RecheckBase
<1>3. CASE Go(s, "upload")
  <2>1. PICK new \in Jobs : /\ new.phase = "upload" /\ new.upd = job[s].upd
                            /\ new.commit = job[s].commit
                            /\ job' = [job EXCEPT ![s] = new]
    BY <1>3, GoFits
  <2>2. JobFits(new) /\ new.phase \notin Holding
    BY <1>1, <1>2, <2>1 DEF JobFits, Holding
  <2>3. \A base : NumbersFit(base) => Numbered(base, new)
    BY <1>1, <2>1 DEF NumbersFit, Numbered
  <2> QED
    BY <1>2, <2>1, <2>2, <2>3, HandlerStep DEF remoteVars, memoryVars
<1>4. CASE Answer(s)
  BY <1>2, <1>4, AnswerFits DEF remoteVars, memoryVars
<1> QED
  BY <1>3, <1>4 DEF RecheckBase

\* The reference is refused, for a reason or for none.
LEMMA RefusalKeeps ==
    ASSUME IInv, NEW s \in Slot, UpdateRef(s), UNCHANGED branch,
           NEW phase \in {"conflict", "protected"}, Go(s, phase)
    PROVE  IInv'
<1>1. job[s].phase = "patch"
  BY DEF UpdateRef
<1>2. /\ UNCHANGED <<branch, made, sideCommits, pulls, workspace, edits, open, memoryVars, env,
                     previews>>
      /\ token \in BOOLEAN /\ deviceFlow \in BOOLEAN /\ env \in Password \union {None}
      /\ JobFits(job[s])
  BY HandlerFits DEF UpdateRef
<1>3. faults' \in Nat
  BY HandlerFits DEF UpdateRef, Fault
<1>4. PICK new \in Jobs : /\ new.phase = phase /\ new.upd = job[s].upd
                          /\ new.commit = job[s].commit
                          /\ job' = [job EXCEPT ![s] = new]
  BY GoFits
<1>5. JobFits(new) /\ job[s].phase \in Holding
  BY <1>1, <1>2, <1>4 DEF JobFits, Holding
<1>6. \A base : Numbered(base, new)
  BY <1>4 DEF Numbered
<1> QED
  BY <1>2, <1>3, <1>4, <1>5, <1>6, HandlerStep DEF memoryVars

\* The reference moves to a commit that nobody else has under way.
LEMMA LandingKeeps ==
    ASSUME IInv, NEW s \in Slot, UpdateRef(s), job[s].commit.parent = Tip.sha,
           branch' = Append(branch, job[s].commit), Go(s, "moved"), UNCHANGED faults
    PROVE  IInv'
<1>1. job[s].phase = "patch"
  BY DEF UpdateRef
<1>2. /\ UNCHANGED <<made, sideCommits, pulls, workspace, edits, open, memoryVars, env,
                     previews>>
      /\ JobFits(job[s]) /\ made \in Nat /\ job \in [Slot -> Jobs]
  BY HandlerFits DEF UpdateRef
<1>3. PICK c \in MadeCommits : c = job[s].commit
  BY HandlerFits
<1>4. PICK new \in Jobs : /\ new.phase = "moved" /\ new.commit = c
                          /\ job' = [job EXCEPT ![s] = new]
  BY <1>3, GoFits
<1>5. OffBranch(c) /\ FromReview(c) /\ c.sha \in 1..made
  BY <1>1, <1>2, <1>3 DEF JobFits, Holding, OffBranch
<1>6. /\ branch' \in Seq(MadeCommits) /\ branch' # << >>
      /\ Commits' = Commits \union {c}
      /\ BranchFits'
      /\ \A x : FromReview(x) => FromReview(x)'
      /\ \A x : OffBranch(x) /\ x.sha # c.sha => OffBranch(x)'
  <2>1. branch' = Append(branch, c) /\ c.parent = Tip.sha
    BY <1>3
  <2>2. made' \in Nat /\ made <= made' /\ c.sha \in 1..made'
    BY <1>2, <1>5
  <2>3. \A d \in Commits : d.sha # c.sha
    BY <1>5 DEF OffBranch
  <2> QED
    BY <1>5, <2>1, <2>2, <2>3, BranchGrows
<1>7. /\ job' \in [Slot -> Jobs] /\ job'[s] = new
      /\ \A t \in Slot : t # s => job'[t] = job[t]
  BY <1>2, <1>4
<1>8. \A t \in Slot : job'[t].phase \in Holding => /\ job[t].phase \in Holding
                                                   /\ job'[t].commit = job[t].commit
  BY <1>1, <1>3, <1>4, <1>7 DEF Holding
<1>9. \A t \in Slot : t # s /\ job[t].phase \in Holding => job[t].commit.sha # c.sha
  BY <1>1, <1>3 DEF IInv, OneHolder, Holding
<1>10. TypeOK'
  BY <1>2, <1>6, <1>7 DEF IInv, TypeOK, memoryVars
<1>11. ASSUME NEW x, Offered(x) PROVE Offered(x)'
  <2>1. x.sha # c.sha
    BY <1>1, <1>3, <1>11 DEF Offered, Holding
  <2>2. OffBranch(x)' /\ FromReview(x)'
    BY <1>6, <1>11, <2>1 DEF Offered
  <2>3. \A t \in Slot : job'[t].phase \in Holding => job'[t].commit.sha # x.sha
    BY <1>8, <1>11 DEF Offered
  <2> QED
    BY <2>2, <2>3 DEF Offered
<1>12. ASSUME NEW x, x \in Commits PROVE (x \in Commits)'
  BY <1>6, <1>12
<1>13. ASSUME NEW k, JobFits(k), k.phase \in {"patch", "protected"} => k.commit.sha # c.sha
       PROVE  JobFits(k)'
  BY <1>2, <1>6, <1>11, <1>12, <1>13 DEF JobFits, Ready, Reviews
<1>14. (\A t \in Slot : JobFits(job[t]))'
  <2> SUFFICES ASSUME NEW t \in Slot PROVE JobFits(job[t])'
    OBVIOUS
  <2>1. CASE t = s
    <3>1. JobFits(new)'
      BY <1>2, <1>4, <1>5, <1>6 DEF JobFits, Holding
    <3> QED
      BY <1>7, <2>1, <3>1
  <2>2. CASE t # s
    <3>1. PICK k \in Jobs : k = job[t] /\ k = job'[t]
      BY <1>2, <1>7, <2>2
    <3>2. JobFits(k) /\ (k.phase \in {"patch", "protected"} => k.commit.sha # c.sha)
      BY <1>9, <2>2, <3>1 DEF IInv, Holding
    <3>3. JobFits(k)'
      BY <1>13, <3>2
    <3> QED
      BY <3>1, <3>3
  <2> QED
    BY <2>1, <2>2
<1>15. OneHolder'
  BY <1>8 DEF IInv, OneHolder
<1>16. (pendingUpdate = NoUpdate \/ Ready(pendingUpdate))'
  BY <1>2, <1>6 DEF IInv, Ready, Reviews, memoryVars
<1>17. (\A x \in sideCommits \union ({pendingFallbackCommit} \ {NoCommit}) : Offered(x))'
  BY <1>2, <1>11 DEF IInv, memoryVars
<1>18. (\E base \in [1..previews -> 1..made] : NumbersFit(base))'
  <2>1. PICK base \in [1..previews -> 1..made] : NumbersFit(base)
    BY DEF IInv
  <2>2. \A id, sha : HasBase(base, id, sha)' <=> HasBase(base, id, sha)
    BY <1>2 DEF HasBase
  <2>3. HasBase(base, c.upd, c.parent)
    BY <1>1, <1>3, <2>1 DEF NumbersFit, Numbered
  <2>4. (\A d \in Commits : d.upd # 0 => HasBase(base, d.upd, d.parent))'
    BY <1>6, <2>1, <2>2, <2>3 DEF NumbersFit
  <2>5. \A t \in Slot : Numbered(base, job[t])'
    BY <1>4, <1>7, <2>1, <2>2 DEF NumbersFit, Numbered
  <2>6. NumbersFit(base)'
    BY <1>2, <2>1, <2>2, <2>4, <2>5 DEF NumbersFit, memoryVars
  <2> QED
    BY <1>2, <2>1, <2>6
<1> QED
  BY <1>6, <1>10, <1>14, <1>15, <1>16, <1>17, <1>18 DEF IInv

LEMMA UpdateRefKeeps ==
    ASSUME IInv, NEW s \in Slot, UpdateRef(s)
    PROVE  IInv'
BY LandingKeeps, RefusalKeeps DEF UpdateRef

LEMMA ApplyBlockedKeeps ==
    ASSUME IInv, NEW s \in Slot, ApplyBlocked(s)
    PROVE  IInv'
<1>1. /\ job[s].phase = "protected" /\ pendingFallbackCommit' = job[s].commit
      /\ job' = [job EXCEPT ![s] = NoJob]
      /\ UNCHANGED <<remoteVars, workspace, edits, open, token, deviceFlow, pendingUpdate,
                     env, previews, faults>>
  BY DEF ApplyBlocked, Answer
<1>2. job \in [Slot -> Jobs] /\ JobFits(job[s])
  BY HandlerFits
<1>3. PICK c \in MadeCommits : c = job[s].commit
  BY HandlerFits
<1>4. NoJob \in Jobs /\ NoJob.phase = "idle"
  BY NothingFits DEF NoJob
<1>5. /\ job' \in [Slot -> Jobs] /\ job'[s] = NoJob
      /\ \A t \in Slot : t # s => job'[t] = job[t]
  BY <1>1, <1>2, <1>4
<1>6. \A t \in Slot : /\ JobFits(job'[t])
                      /\ job'[t].phase \in Holding => /\ job[t].phase \in Holding
                                                      /\ job'[t].commit = job[t].commit
                      /\ \A base : NumbersFit(base) => Numbered(base, job'[t])
  <2>1. JobFits(NoJob) /\ NoJob.phase \notin Holding /\ \A base : Numbered(base, NoJob)
    BY <1>4 DEF JobFits, Holding, Numbered
  <2>2. \A t \in Slot : JobFits(job[t]) /\ \A base : NumbersFit(base) => Numbered(base, job[t])
    BY DEF IInv, NumbersFit
  <2> QED
    BY <1>5, <2>1, <2>2
<1>7. Offered(c)'
  <2>1. OffBranch(c) /\ FromReview(c)
    BY <1>1, <1>2, <1>3 DEF JobFits, Holding
  <2>2. (OffBranch(c) /\ FromReview(c))'
    BY <1>1, <2>1 DEF OffBranch, FromReview, Reviews, Commits, remoteVars
  <2>3. \A t \in Slot : t # s /\ job[t].phase \in Holding => job[t].commit.sha # c.sha
    BY <1>1, <1>3 DEF IInv, OneHolder, Holding
  <2>4. \A t \in Slot : job'[t].phase \in Holding => job'[t].commit.sha # c.sha
    BY <1>4, <1>5, <2>3 DEF Holding
  <2> QED
    BY <2>2, <2>4 DEF Offered
<1>8. PICK offered \in SUBSET MadeCommits : offered = {c}
  OBVIOUS
<1>9. /\ \A x \in offered : Offered(x) \/ Offered(x)'
      /\ sideCommits' \subseteq sideCommits \union offered
      /\ pendingFallbackCommit' \in {pendingFallbackCommit, NoCommit} \union offered
  BY <1>1, <1>3, <1>7, <1>8 DEF remoteVars
<1>10. /\ workspace' \in Workspaces /\ edits' \in Nat /\ open' \in BOOLEAN
       /\ UNCHANGED <<branch, made, previews, pendingUpdate>>
       /\ token' \in BOOLEAN /\ deviceFlow' \in BOOLEAN /\ env' \in Password \union {None}
       /\ faults' \in Nat
  BY <1>1 DEF IInv, TypeOK, remoteVars
<1> QED
  BY <1>5, <1>6, <1>9, <1>10, HandlersStep

---------------------------------------------------------------------------------
(* The fallback. *)

LEMMA StartFallbackKeeps ==
    ASSUME IInv, NEW s \in Slot, StartFallback(s)
    PROVE  IInv'
<1> DEFINE new == [NoJob EXCEPT !.phase = "branch", !.upd = pendingUpdate,
                                !.commit = pendingFallbackCommit, !.auth = token]
<1>1. /\ pendingUpdate \in Updates /\ token \in BOOLEAN /\ deviceFlow \in BOOLEAN
      /\ faults \in Nat /\ env \in Password \union {None}
      /\ pendingFallbackCommit \in MadeCommits
  BY HandlerFits
<1>2. new \in Jobs /\ new.phase = "branch" /\ new.commit = pendingFallbackCommit
  BY <1>1, NothingFits DEF Jobs
<1>3. job' = [job EXCEPT ![s] = new]
  BY DEF Take, StartFallback
<1> HIDE DEF new
<1>4. Offered(pendingFallbackCommit)
  BY DEF StartFallback, IInv
<1>5. JobFits(new) /\ new.phase \notin Holding /\ \A base : Numbered(base, new)
  BY <1>2, <1>4 DEF JobFits, Holding, Numbered
<1>6. UNCHANGED <<remoteVars, workspace, edits, open, memoryVars, env, previews, faults>>
  BY DEF StartFallback
<1> QED
  BY <1>1, <1>2, <1>3, <1>5, <1>6, HandlerStep DEF remoteVars, memoryVars

LEMMA CreateBranchKeeps ==
    ASSUME IInv, NEW s \in Slot, CreateBranch(s)
    PROVE  IInv'
<1>1. /\ job[s].phase = "branch"
      /\ UNCHANGED <<branch, made, pulls, workspace, edits, open, memoryVars, env, previews,
                     faults>>
  BY DEF CreateBranch
<1>2. /\ job \in [Slot -> Jobs] /\ JobFits(job[s])
      /\ token \in BOOLEAN /\ deviceFlow \in BOOLEAN
      /\ faults \in Nat /\ env \in Password \union {None}
  BY HandlerFits
<1>3. CASE Answer(s) /\ UNCHANGED sideCommits
  BY <1>1, <1>2, <1>3, AnswerFits DEF memoryVars
<1>4. CASE sideCommits' = sideCommits \union {job[s].commit} /\ Go(s, "pull")
  <2>1. PICK c \in MadeCommits : c = job[s].commit
    BY HandlerFits
  <2>2. PICK new \in Jobs : /\ new.phase = "pull" /\ new.commit = c
                            /\ job' = [job EXCEPT ![s] = new]
    BY <1>4, <2>1, GoFits
  <2>3. /\ job' \in [Slot -> Jobs] /\ job'[s] = new
        /\ \A t \in Slot : t # s => job'[t] = job[t]
    BY <1>2, <2>2
  <2>4. Offered(c)
    BY <1>1, <1>2, <2>1 DEF JobFits
  <2>5. \A t \in Slot : /\ JobFits(job'[t])
                        /\ job'[t].phase \in Holding => /\ job[t].phase \in Holding
                                                        /\ job'[t].commit = job[t].commit
                        /\ \A base : NumbersFit(base) => Numbered(base, job'[t])
    <3>1. JobFits(new) /\ new.phase \notin Holding /\ \A base : Numbered(base, new)
      BY <2>2, <2>4 DEF JobFits, Holding, Numbered
    <3>2. \A t \in Slot : JobFits(job[t]) /\ \A base : NumbersFit(base) => Numbered(base, job[t])
      BY DEF IInv, NumbersFit
    <3> QED
      BY <2>3, <3>1, <3>2
  <2>6. PICK offered \in SUBSET MadeCommits : offered = {c}
    OBVIOUS
  <2>7. /\ \A x \in offered : Offered(x) \/ Offered(x)'
        /\ sideCommits' \subseteq sideCommits \union offered
        /\ pendingFallbackCommit' \in {pendingFallbackCommit, NoCommit} \union offered
    BY <1>1, <1>4, <2>1, <2>4, <2>6 DEF memoryVars
  <2>8. /\ workspace' \in Workspaces /\ edits' \in Nat /\ open' \in BOOLEAN
        /\ UNCHANGED <<branch, made, previews, pendingUpdate>>
        /\ token' \in BOOLEAN /\ deviceFlow' \in BOOLEAN /\ env' \in Password \union {None}
        /\ faults' \in Nat
    BY <1>1 DEF IInv, TypeOK, memoryVars
  <2> QED
    BY <2>3, <2>5, <2>7, <2>8, HandlersStep
<1> QED
  BY <1>3, <1>4 DEF CreateBranch

LEMMA OpenPullKeeps ==
    ASSUME IInv, NEW s \in Slot, OpenPull(s)
    PROVE  IInv'
<1>1. /\ job[s].phase = "pull" /\ Go(s, "opened")
      /\ UNCHANGED <<branch, made, sideCommits, workspace, edits, open, memoryVars, env,
                     previews, faults>>
  BY DEF OpenPull
<1>2. /\ JobFits(job[s]) /\ token \in BOOLEAN /\ deviceFlow \in BOOLEAN
      /\ faults \in Nat /\ env \in Password \union {None}
  BY HandlerFits
<1>3. PICK new \in Jobs : /\ new.phase = "opened" /\ new.commit = job[s].commit
                          /\ job' = [job EXCEPT ![s] = new]
  BY <1>1, GoFits
<1>4. JobFits(new) /\ new.phase \notin Holding /\ \A base : Numbered(base, new)
  BY <1>1, <1>2, <1>3 DEF JobFits, Holding, Numbered
<1> QED
  BY <1>1, <1>2, <1>3, <1>4, HandlerStep DEF memoryVars

---------------------------------------------------------------------------------
(* The login, failures, stops, and the world outside. *)

LEMMA LoginKeeps ==
    ASSUME IInv, NEW s \in Slot,
           StartDevice(s) \/ DeviceStarted(s) \/ StartPoll(s) \/ DeviceApproved(s)
    PROVE  IInv'
<1>1. /\ token \in BOOLEAN /\ deviceFlow \in BOOLEAN
      /\ faults \in Nat /\ env \in Password \union {None}
  BY HandlerFits
<1>2. CASE StartDevice(s) \/ StartPoll(s)
  <2>1. PICK phase \in {"device", "poll"} : Take(s, [NoJob EXCEPT !.phase = phase])
    BY <1>2 DEF StartDevice, StartPoll
  <2> DEFINE new == [NoJob EXCEPT !.phase = phase]
  <2>2. new \in Jobs /\ new.phase \in {"device", "poll"}
    BY NothingFits DEF Jobs
  <2>3. job' = [job EXCEPT ![s] = new]
    BY <2>1 DEF Take
  <2> HIDE DEF new
  <2>4. JobFits(new) /\ new.phase \notin Holding /\ \A base : Numbered(base, new)
    BY <2>2 DEF JobFits, Holding, Numbered
  <2>5. UNCHANGED <<remoteVars, workspace, edits, open, memoryVars, env, previews, faults>>
    BY <1>2 DEF StartDevice, StartPoll
  <2> QED
    BY <1>1, <2>2, <2>3, <2>4, <2>5, HandlerStep DEF memoryVars, remoteVars
<1>3. CASE DeviceStarted(s) \/ DeviceApproved(s)
  <2>1. /\ Answer(s) /\ token' \in BOOLEAN /\ deviceFlow' \in BOOLEAN
        /\ UNCHANGED <<remoteVars, workspace, edits, open, pendingUpdate,
                       pendingFallbackCommit, env, previews, faults>>
    BY <1>1, <1>3 DEF DeviceStarted, DeviceApproved
  <2> QED
    BY <1>1, <2>1, AnswerFits DEF remoteVars
<1> QED
  BY <1>2, <1>3

\* An answer that clears what is pending, or keeps it.
LEMMA AnswersKeep ==
    ASSUME IInv, NEW s \in Slot,
           ApplySucceeded(s) \/ ApplyConflicted(s) \/ FallbackPublished(s) \/ Fail(s)
    PROVE  IInv'
<1>1. /\ token \in BOOLEAN /\ deviceFlow \in BOOLEAN
      /\ faults \in Nat /\ env \in Password \union {None}
      /\ job[s].prev \in Password \union {None}
  BY HandlerFits DEF Jobs
<1>2. /\ Answer(s) /\ UNCHANGED <<remoteVars, workspace, edits, open, previews, deviceFlow>>
      /\ token' \in BOOLEAN
      /\ pendingUpdate' \in {pendingUpdate, NoUpdate}
      /\ pendingFallbackCommit' \in {pendingFallbackCommit, NoCommit}
  BY <1>1 DEF ApplySucceeded, ApplyConflicted, FallbackPublished, Fail, memoryVars
<1>3. faults' \in Nat /\ env' \in Password \union {None}
  BY <1>1 DEF ApplySucceeded, ApplyConflicted, FallbackPublished, Fail, Fault
<1> QED
  BY <1>1, <1>2, <1>3, AnswerFits DEF remoteVars

\* Handlers end, or go on where they are.
LEMMA EndingKeeps ==
    ASSUME IInv, Shutdown \/ Restart \/ EditWorkspace
    PROVE  IInv'
<1>1. /\ token \in BOOLEAN /\ deviceFlow \in BOOLEAN
      /\ faults \in Nat /\ env \in Password \union {None} /\ job \in [Slot -> Jobs]
      /\ edits \in Nat /\ open \in BOOLEAN /\ workspace \in Workspaces
  BY DEF IInv, TypeOK
<1>2. NoJob \in Jobs /\ NoJob.phase = "idle"
  BY NothingFits DEF NoJob
<1>3. job' \in [Slot -> Jobs] /\ \A t \in Slot : job'[t] \in {NoJob, job[t]}
  BY <1>1, <1>2 DEF Shutdown, Restart, EditWorkspace
<1>4. \A t \in Slot : /\ JobFits(job'[t])
                      /\ job'[t].phase \in Holding => /\ job[t].phase \in Holding
                                                      /\ job'[t].commit = job[t].commit
                      /\ \A base : NumbersFit(base) => Numbered(base, job'[t])
  <2>1. JobFits(NoJob) /\ NoJob.phase \notin Holding /\ \A base : Numbered(base, NoJob)
    BY <1>2 DEF JobFits, Holding, Numbered
  <2>2. \A t \in Slot : JobFits(job[t]) /\ \A base : NumbersFit(base) => Numbered(base, job[t])
    BY DEF IInv, NumbersFit
  <2> QED
    BY <1>3, <2>1, <2>2
<1>5. UNCHANGED remoteVars /\ UNCHANGED previews
  BY DEF Shutdown, Restart, EditWorkspace
<1>6. /\ edits' \in Nat /\ open' \in BOOLEAN /\ workspace' \in Workspaces
      /\ token' \in BOOLEAN /\ deviceFlow' \in BOOLEAN
      /\ faults' \in Nat /\ env' \in Password \union {None}
      /\ pendingUpdate' \in {pendingUpdate, NoUpdate}
      /\ pendingFallbackCommit' \in {pendingFallbackCommit, NoCommit}
  <2>1. faults' \in {faults, faults + 1} /\ edits' \in {edits, edits + 1}
    BY DEF Shutdown, Restart, EditWorkspace, Fault
  <2>2. open' \in BOOLEAN /\ workspace' \in Workspaces
    BY <1>1 DEF Shutdown, Restart, EditWorkspace
  <2>3. token' \in {token, FALSE} /\ deviceFlow' \in {deviceFlow, FALSE} /\ env' \in {env, None}
    BY DEF Shutdown, Restart, EditWorkspace, memoryVars
  <2>4. /\ pendingUpdate' \in {pendingUpdate, NoUpdate}
        /\ pendingFallbackCommit' \in {pendingFallbackCommit, NoCommit}
    BY DEF Shutdown, Restart, EditWorkspace, memoryVars
  <2>5. token' \in BOOLEAN /\ deviceFlow' \in BOOLEAN
    BY <1>1, <2>3
  <2>6. edits' \in Nat /\ faults' \in Nat /\ env' \in Password \union {None}
    BY <1>1, <2>1, <2>3
  <2> QED
    BY <2>2, <2>4, <2>5, <2>6
<1>7. PICK offered \in SUBSET MadeCommits : offered = {}
  OBVIOUS
<1>8. /\ \A x \in offered : Offered(x) \/ Offered(x)'
      /\ sideCommits' \subseteq sideCommits \union offered
      /\ pendingFallbackCommit' \in {pendingFallbackCommit, NoCommit} \union offered
      /\ UNCHANGED <<branch, made, previews>>
  BY <1>5, <1>6, <1>7 DEF remoteVars
<1> QED
  BY <1>3, <1>4, <1>6, <1>8, HandlersStep

LEMMA OtherPushKeeps ==
    ASSUME IInv, OtherPush
    PROVE  IInv'
<1>1. /\ made' = made + 1 /\ made \in Nat
      /\ UNCHANGED <<sideCommits, pulls, workspace, edits, open, memoryVars, env, previews, job,
                     faults>>
  BY DEF OtherPush, IInv, TypeOK
<1>2. PICK v \in OtherVaults : branch' = Append(branch, Foreign(made + 1, Tip.sha, v))
  BY DEF OtherPush
<1>3. Tip.sha \in Nat
  BY TipFits DEF IInv, MadeCommits
<1>4. PICK c \in MadeCommits : c = Foreign(made + 1, Tip.sha, v)
  BY <1>1, <1>3, FirstVaultFits
<1>5. c.sha = made + 1 /\ c.upd = 0 /\ c.parent = Tip.sha
  BY <1>4 DEF Foreign
<1>6. \A d \in Commits : d.sha \in 1..made
  BY DEF IInv, BranchFits, Commits
<1>7. /\ branch' \in Seq(MadeCommits) /\ branch' # << >>
      /\ Commits' = Commits \union {c}
      /\ BranchFits'
      /\ \A x : FromReview(x) => FromReview(x)'
      /\ \A x : OffBranch(x) /\ x.sha # c.sha => OffBranch(x)'
  <2>1. branch' = Append(branch, c)
    BY <1>2, <1>4
  <2>2. made' \in Nat /\ made <= made' /\ c.sha \in 1..made' /\ \A d \in Commits : d.sha # c.sha
    BY <1>1, <1>5, <1>6
  <2> QED
    BY <1>5, <2>1, <2>2, BranchGrows
<1>8. TypeOK'
  BY <1>1, <1>7 DEF IInv, TypeOK, memoryVars
<1>9. ASSUME NEW x, OffBranch(x) PROVE OffBranch(x)'
  BY <1>1, <1>5, <1>7, <1>9 DEF OffBranch
<1>10. ASSUME NEW x, Offered(x) PROVE Offered(x)'
  BY <1>1, <1>7, <1>9, <1>10 DEF Offered
<1>11. ASSUME NEW k, JobFits(k) PROVE JobFits(k)'
  <2>1. \A x : x \in Commits => (x \in Commits)'
    BY <1>7
  <2>2. \A n : n \in 1..made => n \in 1..made'
    BY <1>1
  <2> QED
    BY <1>7, <1>9, <1>10, <1>11, <2>1, <2>2 DEF JobFits, Ready, Reviews
<1>12. (\A t \in Slot : JobFits(job[t]))'
  BY <1>1, <1>11 DEF IInv
<1>13. OneHolder'
  BY <1>1 DEF IInv, OneHolder
<1>14. (pendingUpdate = NoUpdate \/ Ready(pendingUpdate))'
  BY <1>1, <1>7 DEF IInv, Ready, Reviews, memoryVars
<1>15. (\A x \in sideCommits \union ({pendingFallbackCommit} \ {NoCommit}) : Offered(x))'
  BY <1>1, <1>10 DEF IInv, memoryVars
<1>16. (\E base \in [1..previews -> 1..made] : NumbersFit(base))'
  <2>1. PICK base \in [1..previews -> 1..made] : NumbersFit(base)
    BY DEF IInv
  <2>2. base \in [1..previews' -> 1..made']
    BY <1>1, <2>1
  <2>3. \A id, sha : HasBase(base, id, sha)' <=> HasBase(base, id, sha)
    BY <1>1 DEF HasBase
  <2>4. (\A d \in Commits : d.upd # 0 => HasBase(base, d.upd, d.parent))'
    BY <1>5, <1>7, <2>1, <2>3 DEF NumbersFit
  <2>5. \A t \in Slot : Numbered(base, job[t])'
    BY <1>1, <2>1, <2>3 DEF NumbersFit, Numbered
  <2>6. NumbersFit(base)'
    BY <1>1, <2>1, <2>3, <2>4, <2>5 DEF NumbersFit, memoryVars
  <2> QED
    BY <2>2, <2>6
<1> QED
  BY <1>7, <1>8, <1>12, <1>13, <1>14, <1>15, <1>16 DEF IInv

---------------------------------------------------------------------------------
(* The invariant, and the properties. *)

LEMMA InitFits == Init => IInv
<1> SUFFICES ASSUME Init PROVE IInv
  OBVIOUS
<1> DEFINE c == Foreign(1, 0, FirstVault)
<1>1. c \in MadeCommits /\ c.sha = 1 /\ c.upd = 0
  BY FirstVaultFits DEF Foreign
<1>2. branch = <<c>> /\ made = 1 /\ previews = 0 /\ sideCommits = {} /\ edits = 0 /\ faults = 0
      /\ pendingUpdate = NoUpdate /\ pendingFallbackCommit = NoCommit
      /\ job = [s \in Slot |-> NoJob]
  BY DEF Init
<1> HIDE DEF c
<1>3. DOMAIN branch = {1} /\ branch[1] = c /\ Commits = {c}
  BY <1>2 DEF Commits
<1>4. job \in [Slot -> Jobs] /\ \A s \in Slot : job[s] = NoJob /\ job[s].phase = "idle"
  BY <1>2, NothingFits DEF NoJob
<1>5. TypeOK
  <2>1. branch \in Seq(MadeCommits) /\ branch # << >>
    BY <1>1, <1>2
  <2>2. open \in BOOLEAN /\ token \in BOOLEAN /\ deviceFlow \in BOOLEAN
    BY DEF Init
  <2>3. made \in Nat /\ edits \in Nat /\ previews \in Nat /\ faults \in Nat
    BY <1>2
  <2>4. /\ sideCommits \subseteq MadeCommits /\ workspace \in Workspaces
        /\ env \in Password \union {None}
        /\ pendingUpdate \in Updates /\ pendingFallbackCommit \in MadeCommits
    BY NothingFits DEF Init
  <2> QED
    BY <1>4, <2>1, <2>2, <2>3, <2>4 DEF TypeOK
<1>6. BranchFits
  BY <1>1, <1>2, <1>3 DEF BranchFits
<1>7. (\A s \in Slot : JobFits(job[s])) /\ OneHolder
  BY <1>4 DEF JobFits, OneHolder, Holding
<1>8. \E base \in [1..previews -> 1..made] : NumbersFit(base)
  <2>1. [i \in 1..0 |-> 1] \in [1..previews -> 1..made]
    BY <1>2
  <2>2. \A base : NumbersFit(base)
    BY <1>1, <1>2, <1>3, <1>4 DEF NumbersFit, Numbered
  <2> QED
    BY <2>1, <2>2
<1> QED
  BY <1>2, <1>5, <1>6, <1>7, <1>8 DEF IInv

LEMMA StepKeeps == IInv /\ [Next]_vars => IInv'
<1> SUFFICES ASSUME IInv, [Next]_vars PROVE IInv'
  OBVIOUS
<1>1. ASSUME NEW s \in Slot, Start(s) PROVE IInv'
  BY <1>1, StartPreviewKeeps, StartApplyKeeps, StartFallbackKeeps, LoginKeeps DEF Start
<1>2. ASSUME NEW s \in Slot, PreviewStep(s) PROVE IInv'
  BY <1>2, FetchSnapshotKeeps, UnlockKeeps, ReadPassphraseKeeps, EncryptKeeps, PreviewReadyKeeps
     DEF PreviewStep
<1>3. ASSUME NEW s \in Slot, ApplyStep(s) PROVE IInv'
  BY <1>3, RecheckBaseKeeps, CreateCommitKeeps, UpdateRefKeeps, AnswersKeep, ApplyBlockedKeeps
     DEF ApplyStep
<1>4. ASSUME NEW s \in Slot, FallbackStep(s) PROVE IInv'
  BY <1>4, CreateBranchKeeps, OpenPullKeeps, AnswersKeep DEF FallbackStep
<1>5. ASSUME NEW s \in Slot, DeviceStarted(s) \/ DeviceApproved(s) \/ Fail(s) PROVE IInv'
  BY <1>5, LoginKeeps, AnswersKeep
<1>6. CASE Shutdown \/ Restart \/ OtherPush \/ EditWorkspace
  BY <1>6, EndingKeeps, OtherPushKeeps
<1>7. CASE UNCHANGED vars
  <2>1. UNCHANGED Commits
    BY <1>7 DEF Commits, vars, remoteVars
  <2>2. TypeOK'
    BY <1>7 DEF IInv, TypeOK, vars, remoteVars, memoryVars
  <2>3. UNCHANGED <<branch, made, sideCommits, previews, job, pendingUpdate,
                    pendingFallbackCommit>>
    BY <1>7 DEF vars, remoteVars, memoryVars
  <2>4. BranchFits' /\ OneHolder'
    BY <2>1, <2>3 DEF IInv, BranchFits, FromReview, Reviews, OneHolder
  <2>5. ASSUME NEW c, Offered(c) PROVE Offered(c)'
    BY <2>1, <2>3, <2>5 DEF Offered, OffBranch, FromReview, Reviews
  <2>6. ASSUME NEW k, JobFits(k) PROVE JobFits(k)'
    BY <2>1, <2>3, <2>5, <2>6 DEF JobFits, FromReview, Ready, Reviews, OffBranch
  <2>7. (pendingUpdate = NoUpdate \/ Ready(pendingUpdate))'
    BY <2>1, <2>3 DEF IInv, Ready, Reviews
  <2>8. (\E base \in [1..previews -> 1..made] : NumbersFit(base))'
    BY <2>1, <2>3 DEF IInv, NumbersFit, Numbered, HasBase
  <2> QED
    BY <2>2, <2>3, <2>4, <2>5, <2>6, <2>7, <2>8 DEF IInv
<1> QED
  BY <1>1, <1>2, <1>3, <1>4, <1>5, <1>6, <1>7 DEF Next

\* The handlers, the branch and what is pending fit together, in every state: what
\* lands, is offered or is about to be made comes from one review of a commit of the
\* branch, and a number of an update stands for one base.
THEOREM InductiveInvariant == Spec => []IInv
BY InitFits, StepKeeps, PTL DEF Spec

\* Every variable has its type.
THEOREM TypeCorrect == Spec => []TypeOK
<1>1. IInv => TypeOK
  BY DEF IInv
<1> QED
  BY <1>1, InductiveInvariant, PTL

\* No commit that is offered for a pull request, or has an update branch, is on the
\* target branch or on its way there.
THEOREM OfferedCommitsWereRefused == Spec => []OfferedWasRefused
<1>1. IInv => OfferedWasRefused
  <2> SUFFICES ASSUME IInv, NEW c \in sideCommits \union {pendingFallbackCommit}
               PROVE  c \notin Commits
                      /\ \A s \in Slot : job[s].phase \in {"patch", "moved"} => job[s].commit # c
    BY DEF OfferedWasRefused
  <2>1. made \in Nat /\ \A d \in Commits : d.sha \in 1..made
    BY DEF IInv, TypeOK, BranchFits, Commits
  <2>2. CASE c = NoCommit
    <3>1. c.sha = 0
      BY <2>2 DEF NoCommit
    <3>2. \A s \in Slot : job[s].phase \in {"patch", "moved"} => job[s].commit.sha \in 1..made
      BY DEF IInv, JobFits, Holding
    <3> QED
      BY <2>1, <3>1, <3>2
  <2>3. CASE c # NoCommit
    <3>1. Offered(c)
      BY <2>3 DEF IInv
    <3> QED
      BY <3>1 DEF Offered, OffBranch, Holding
  <2> QED
    BY <2>2, <2>3
<1> QED
  BY <1>1, InductiveInvariant, PTL

\* Two commits of the branch with one name are one.
LEMMA NamesAreUnique ==
    ASSUME BranchFits, NEW c \in Commits, NEW d \in Commits, c.sha = d.sha
    PROVE  c = d
BY DEF BranchFits, Commits

\* Whatever preview wrote the environment last, an update is sealed with the password
\* of the vault it was made from, before it lands and after.
THEOREM UpdatesAreSealedWithTheirKey == Spec => []SealedWithItsKey
<1>1. IInv => SealedWithItsKey
  <2> SUFFICES ASSUME IInv PROVE SealedWithItsKey
    OBVIOUS
  <2>1. pendingUpdate.pw = pendingUpdate.base.pw
    BY DEF IInv, Ready, Reviews, NoUpdate, NoCommit
  <2>2. \A s \in Slot : job[s].phase = "verify" => job[s].upd.pw = job[s].upd.base.pw
    BY DEF IInv, JobFits
  <2>3. ASSUME NEW c \in Commits \union sideCommits, c.upd # 0, NEW d \in Commits,
               d.sha = c.parent
        PROVE  c.pw = d.pw
    <3>1. FromReview(c)
      <4>1. CASE c \in Commits
        BY <2>3, <4>1 DEF IInv, BranchFits
      <4>2. CASE c \in sideCommits
        BY <4>2 DEF IInv, Offered
      <4> QED
        BY <4>1, <4>2
    <3>2. PICK base \in Commits : base.sha = c.parent /\ c.pw = base.pw
      BY <3>1 DEF FromReview, Reviews
    <3>3. base = d
      BY <2>3, <3>2, NamesAreUnique DEF IInv
    <3> QED
      BY <3>2, <3>3
  <2> QED
    BY <2>1, <2>2, <2>3 DEF SealedWithItsKey
<1> QED
  BY <1>1, InductiveInvariant, PTL

\* A commit that the branch takes is a push by others or a reviewed update, on its own
\* base and for the first time.
LEMMA LandingIsReviewed ==
    ASSUME IInv, IInv', NEW c \in MadeCommits, branch' = Append(branch, c)
    PROVE  Reviewed!Next
<1> DEFINE n == Len(branch)
<1>1. branch \in Seq(MadeCommits) /\ n \in Nat \ {0} /\ DOMAIN branch = 1..n
  BY TipFits DEF IInv, TypeOK
<1>2. /\ Len(branch') = n + 1 /\ branch'[n + 1] = c
      /\ \A i \in 1..n : branch'[i] = branch[i]
      /\ branch' \in Seq(MadeCommits)
  BY <1>1, AppendProperties
<1>3. DOMAIN branch' = 1..(n + 1)
  BY <1>2, LenProperties
<1>4. SubSeq(branch', 1, n) = branch
  <2>1. \A i \in 1..n : branch'[i] \in MadeCommits
    BY <1>1, <1>2, ElementOfSeq
  <2>2. /\ SubSeq(branch', 1, n) \in Seq(MadeCommits) /\ Len(SubSeq(branch', 1, n)) = n
        /\ \A i \in 1..n : SubSeq(branch', 1, n)[i] = branch'[i]
    BY <1>1, <2>1, SubSeqProperties
  <2> QED
    BY <1>1, <1>2, <2>2, SeqEqual
<1>5. /\ n + 1 \in DOMAIN branch' /\ n \in DOMAIN branch' /\ n \in 1..n
      /\ n + 1 # 1 /\ (n + 1) - 1 = n
  BY <1>1, <1>3
<1>6. Commits' = {branch'[i] : i \in DOMAIN branch'}
  BY DEF Commits
<1>7. c \in Commits' /\ branch'[n] \in Commits' /\ branch'[n] = branch[n]
  BY <1>2, <1>5, <1>6
<1>8. c.parent = branch'[n].sha
  <2>1. \A i \in DOMAIN branch' : i # 1 => branch'[i].parent = branch'[i - 1].sha
    BY DEF IInv, BranchFits
  <2>2. branch'[n + 1].parent = branch'[(n + 1) - 1].sha
    BY <1>5, <2>1
  <2> QED
    BY <1>2, <1>5, <2>2
<1>9. Reviewed!Tip(branch') = c /\ Reviewed!Tip(branch) = branch[n]
  BY <1>2 DEF Reviewed!Tip
<1>10. ASSUME Reviewed!Push(c) \/ Reviewed!Land(c) PROVE Reviewed!Next
  BY <1>2, <1>4, <1>7, <1>8, <1>9, <1>10 DEF Reviewed!Next
<1>11. CASE c.upd = 0
  BY <1>11, <1>10 DEF Reviewed!Push
<1>12. CASE c.upd # 0
  <2>1. Reviewed!Differ(branch[n].files, c.files) = Reviewed!Named(c.plan)
    <3>1. PICK base \in Commits' :
              /\ base.sha = c.parent
              /\ Reviewed!Differ(base.files, c.files) = Reviewed!Named(c.plan)
      BY <1>12, <1>7 DEF IInv, BranchFits, FromReview, Reviews
    <3>2. PICK i \in DOMAIN branch' : base = branch'[i]
      BY <3>1 DEF Commits
    <3>3. n \in DOMAIN branch' /\ branch'[i].sha = branch'[n].sha
      <4>1. n \in DOMAIN branch'
        BY <1>1, <1>3
      <4> QED
        BY <1>8, <3>1, <3>2, <4>1
    <3>4. i = n
      <4>1. (\A m, k \in DOMAIN branch : branch[m].sha = branch[k].sha => m = k)'
        BY DEF IInv, BranchFits
      <4> QED
        BY <3>2, <3>3, <4>1
    <3> QED
      BY <1>7, <3>1, <3>2, <3>4
  <2>2. ASSUME NEW i \in 1..n, branch[i].upd = c.upd PROVE FALSE
    <3>1. i \in DOMAIN branch' /\ branch'[i].upd = c.upd /\ branch'[i] \in Commits'
      BY <1>1, <1>2, <1>3, <1>6, <2>2
    <3>2. i # 1 /\ branch'[i].parent = branch'[i - 1].sha
      BY <1>12, <3>1 DEF IInv, BranchFits
    <3>3. branch'[i].parent = c.parent
      BY <1>12, <1>7, <3>1 DEF IInv, NumbersFit, HasBase
    <3>4. i - 1 \in DOMAIN branch' /\ i - 1 # n
      BY <1>1, <1>3, <3>2
    <3> QED
      BY <1>5, <1>8, <3>2, <3>3, <3>4 DEF IInv, BranchFits
  <2>3. Reviewed!Land(c)
    BY <1>1, <1>9, <2>1, <2>2 DEF Reviewed!Land
  <2> QED
    BY <1>10, <2>3
<1> QED
  BY <1>11, <1>12

\* Whatever requests overlap, get lost or are tried again: the target branch behaves as
\* ReviewedBranch says.
THEOREM UpdaterImplementsReviewedBranch == Spec => ImplementsReviewedBranch
<1>1. Init => Reviewed!Init
  BY DEF Init, Reviewed!Init
<1>2. IInv /\ IInv' /\ [Next]_vars => [Reviewed!Next]_branch
  <2> SUFFICES ASSUME IInv, IInv', [Next]_vars
               PROVE  Reviewed!Next \/ UNCHANGED branch
    OBVIOUS
  <2>1. CASE OtherPush
    <3>1. PICK v \in OtherVaults : branch' = Append(branch, Foreign(made + 1, Tip.sha, v))
      BY <2>1 DEF OtherPush
    <3>2. made + 1 \in Nat /\ Tip.sha \in Nat
      <4>1. made \in Nat /\ Tip \in MadeCommits
        BY TipFits DEF IInv, TypeOK
      <4> QED
        BY <4>1 DEF MadeCommits
    <3>3. PICK c \in MadeCommits : c = Foreign(made + 1, Tip.sha, v)
      BY <3>2, FirstVaultFits
    <3> QED
      BY <3>1, <3>3, LandingIsReviewed
  <2>2. ASSUME NEW s \in Slot, UpdateRef(s) PROVE Reviewed!Next \/ UNCHANGED branch
    <3>1. PICK c \in MadeCommits : c = job[s].commit
      BY HandlerFits
    <3>2. CASE branch' = Append(branch, job[s].commit)
      BY <3>1, <3>2, LandingIsReviewed
    <3> QED
      BY <2>2, <3>2 DEF UpdateRef
  <2>3. CASE UNCHANGED vars
    BY <2>3 DEF vars, remoteVars
  <2>4. ASSUME NEW s \in Slot, Start(s) \/ PreviewStep(s) \/ FallbackStep(s) \/ DeviceStarted(s)
                               \/ DeviceApproved(s) \/ Fail(s)
        PROVE  UNCHANGED branch
    BY <2>4 DEF Start, StartPreview, StartApply, StartFallback, StartDevice, StartPoll,
         PreviewStep, FetchSnapshot, Unlock, ReadPassphrase, Encrypt, PreviewReady,
         FallbackStep, CreateBranch, OpenPull, FallbackPublished, DeviceStarted,
         DeviceApproved, Fail, remoteVars
  <2>5. ASSUME NEW s \in Slot, ApplyStep(s), ~ UpdateRef(s) PROVE UNCHANGED branch
    BY <2>5 DEF ApplyStep, RecheckBase, CreateCommit, ApplySucceeded, ApplyConflicted,
         ApplyBlocked, remoteVars
  <2>6. CASE Shutdown \/ Restart \/ EditWorkspace
    BY <2>6 DEF Shutdown, Restart, EditWorkspace, remoteVars
  <2> QED
    BY <2>1, <2>2, <2>3, <2>4, <2>5, <2>6 DEF Next
<1> QED
  BY <1>1, <1>2, InductiveInvariant, PTL DEF Spec, ImplementsReviewedBranch, Reviewed!Spec
=================================================================================
