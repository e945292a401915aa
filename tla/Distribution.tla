------------------------------- MODULE Distribution -------------------------------
(***************************************************************************)
(* The build of the Pages artifact: scripts/build_dist.mjs, check_dist.mjs,*)
(* dist_contract.mjs and public_files_guard.mjs.                           *)
(*                                                                         *)
(* A build inspects the encrypted output, collects the browser's modules,  *)
(* copies both into a directory of its own, checks the copy, and puts it   *)
(* in the place of dist with two renames.  It takes no lock: a vault       *)
(* writer, the watcher's git merge, an editor and another build may work   *)
(* beside it, and it may be killed at any point.                           *)
(*                                                                         *)
(* Blobs are numbered in the order of their names.  A blob's contents are  *)
(* whole, or partial while git writes them; a whole one has the size and   *)
(* the hash that every manifest which refers to it gives.                  *)
(***************************************************************************)
EXTENDS Naturals, FiniteSets, FiniteSetsExt

CONSTANTS
    Builder,
    Blob,
    None,
    Targets,        \* manifests that writers leave: [index, refs]
    FirstManifests, \* manifests that the output may have at first
    Version,        \* versions of the browser's sources
    Imports,        \* for a version, its modules, and for each one what it imports
    Entry,          \* the modules that index.html names
    MaxBuilds,      \* bound: builds
    MaxWrites,      \* bound: writes of the vault
    MaxEdits,       \* bound: edits of the browser's sources
    MaxFaults       \* bound: failed calls and kills

ASSUME DistributionAssumption ==
    /\ Blob \subseteq Nat /\ IsFiniteSet(Blob)
    /\ \A m \in Targets \union FirstManifests : m.index \in BOOLEAN /\ m.refs \subseteq Blob
    /\ MaxBuilds \in Nat /\ MaxWrites \in Nat /\ MaxEdits \in Nat /\ MaxFaults \in Nat

VARIABLES
    manifest,   \* the manifest in the output directory: [index, refs, gen]
    blobs,      \* the state of each blob there
    writing,    \* the write under way: [to, how]
    writes,
    version,    \* the browser's sources in the project root
    edits,
    dist,       \* the dist directory, or None
    job,        \* each builder
    abandoned,  \* previous dists left whole in work directories that were not removed
    builds,
    faults,
    lastBuilt,  \* history: the artifact that was put in place last
    quiet,      \* history: builders beside which nothing has changed so far
    astray      \* history: a dist was moved aside while another one waited there, or one
                \* that was to be put back is nowhere

outputVars == <<manifest, blobs, writing, writes>>
sourceVars == <<version, edits>>
histories == <<lastBuilt, quiet, astray>>
buildVars == <<dist, job, abandoned, builds, lastBuilt, astray>>
vars == <<outputVars, sourceVars, buildVars, faults, quiet>>

NoStage == [assets |-> {}, shell |-> None, id |-> None, manifest |-> None,
            blobs |-> [o \in {} |-> "whole"]]

NoJob == [pc |-> "idle", seen |-> None, names |-> {}, todo |-> {}, had |-> FALSE,
          stage |-> NoStage, backup |-> None]

Names == {o \in Blob : blobs[o] # "absent"}

---------------------------------------------------------------------------------
(* Algorithms. *)

\* Mutant: the modules that a module imports are not looked into.
DirectAssets(v) == Entry \union UNION {Imports[v][m] : m \in Entry}

Imported(v) == UNION {Imports[v][m] : m \in DOMAIN Imports[v]}

Modules == Entry \union UNION {DOMAIN Imports[v] \union Imported(v) : v \in Version}

\* collectModuleGraph looks into every module that it has found.
Closed(found, v) == \A m \in found \intersect DOMAIN Imports[v] : Imports[v][m] \subseteq found

\* From the scripts that index.html names it finds what it has to, and nothing else.
BrowserAssets(v) ==
    {m \in Modules : \A found \in SUBSET Modules :
                        Entry \subseteq found /\ Closed(found, v) => m \in found}

\* Mutant: objects that nothing refers to are let through.
VerifiedPresent(stage) ==
    stage.manifest.index =>
        /\ stage.manifest.refs \subseteq DOMAIN stage.blobs
        /\ \A o \in stage.manifest.refs : stage.blobs[o] = "whole"

\* assertDistClean, inspectPublicFiles of the copy.  A legacy manifest names no objects.
Verified(stage) ==
    stage.manifest.index =>
        /\ DOMAIN stage.blobs = stage.manifest.refs
        /\ \A o \in stage.manifest.refs : stage.blobs[o] = "whole"

---------------------------------------------------------------------------------
(* inspectPublicFiles of the output directory, one look after the other. *)

Go(b, pc) == job' = [job EXCEPT ![b].pc = pc]

\* The finally clause removes the work directory, the backup in it included.
End(b) == job' = [job EXCEPT ![b] = NoJob]

\* The removal of the backup does not get through: it may have begun, or not.
LeaveBackup(b) == abandoned' \in {abandoned, abandoned \union ({job[b].backup} \ {None})}

Fault == faults < MaxFaults /\ faults' = faults + 1

StartBuild(b) ==
    /\ job[b].pc = "idle"
    /\ builds < MaxBuilds
    /\ builds' = builds + 1
    /\ Go(b, "list")
    /\ quiet' = IF writing = None THEN quiet \union {b} ELSE quiet \ {b}
    /\ UNCHANGED <<outputVars, sourceVars, dist, abandoned, faults, lastBuilt, astray>>

List(b) ==
    /\ job[b].pc = "list"
    /\ job' = [job EXCEPT ![b].pc = "envelope", ![b].names = Names]
    /\ UNCHANGED <<outputVars, sourceVars, dist, abandoned, builds, faults, histories>>

\* A legacy manifest has every blob deployed that is there.
ReadEnvelope(b) ==
    /\ job[b].pc = "envelope"
    /\ job' = IF manifest.index
                THEN [job EXCEPT ![b].pc = "objects", ![b].seen = manifest,
                                 ![b].todo = manifest.refs]
                ELSE [job EXCEPT ![b].pc = "assets",
                                 ![b].seen = [manifest EXCEPT !.refs = job[b].names]]
    /\ UNCHANGED <<outputVars, sourceVars, dist, abandoned, builds, faults, histories>>

CheckObject(b) ==
    /\ job[b].pc = "objects"
    /\ job[b].todo # {}
    /\ LET o == Min(job[b].todo)
       IN  IF blobs[o] = "whole" THEN job' = [job EXCEPT ![b].todo = @ \ {o}] ELSE End(b)
    /\ UNCHANGED <<outputVars, sourceVars, dist, abandoned, builds, faults, histories>>

CheckStrays(b) ==
    /\ job[b].pc = "objects"
    /\ job[b].todo = {}
    /\ IF job[b].names \subseteq job[b].seen.refs THEN Go(b, "assets") ELSE End(b)
    /\ UNCHANGED <<outputVars, sourceVars, dist, abandoned, builds, faults, histories>>

---------------------------------------------------------------------------------
(* buildDist: assets, identity, and the copy. *)

CollectAssets(b) ==
    /\ job[b].pc = "assets"
    /\ LET assets == BrowserAssets(version)
       IN  IF assets \subseteq DOMAIN Imports[version]
             THEN job' = [job EXCEPT ![b].pc = "identity", ![b].stage.assets = assets]
             ELSE End(b)
    /\ UNCHANGED <<outputVars, sourceVars, dist, abandoned, builds, faults, histories>>

\* Copying and hashing read what is there now.
Present(b) == job[b].stage.assets \subseteq DOMAIN Imports[version]

\* createBuildIdentity reads the assets and the manifest once more.
Identify(b) ==
    /\ job[b].pc = "identity"
    /\ IF Present(b)
         THEN job' = [job EXCEPT ![b].pc = "shell", ![b].stage.id = <<version, manifest>>]
         ELSE End(b)
    /\ UNCHANGED <<outputVars, sourceVars, dist, abandoned, builds, faults, histories>>

\* The identity is put into index.html, sw.js and build-meta.json of the copy.
CopyShell(b) ==
    /\ job[b].pc = "shell"
    /\ IF Present(b)
         THEN job' = [job EXCEPT ![b].pc = "manifest", ![b].stage.shell = version]
         ELSE End(b)
    /\ UNCHANGED <<outputVars, sourceVars, dist, abandoned, builds, faults, histories>>

CopyManifest(b) ==
    /\ job[b].pc = "manifest"
    /\ job' = [job EXCEPT ![b].pc = "blobs", ![b].stage.manifest = manifest,
                          ![b].todo = job[b].seen.refs]
    /\ UNCHANGED <<outputVars, sourceVars, dist, abandoned, builds, faults, histories>>

CopyBlob(b) ==
    /\ job[b].pc = "blobs"
    /\ job[b].todo # {}
    /\ LET o == Min(job[b].todo)
           copied == DOMAIN job[b].stage.blobs \union {o}
           copy == [p \in copied |-> IF p = o THEN blobs[o] ELSE job[b].stage.blobs[p]]
       IN  IF blobs[o] = "absent"
             THEN End(b)
             ELSE job' = [job EXCEPT ![b].todo = @ \ {o}, ![b].stage.blobs = copy]
    /\ UNCHANGED <<outputVars, sourceVars, dist, abandoned, builds, faults, histories>>

CheckStage(b) ==
    /\ job[b].pc = "blobs"
    /\ job[b].todo = {}
    /\ IF Verified(job[b].stage) THEN Go(b, "look") ELSE End(b)
    /\ UNCHANGED <<outputVars, sourceVars, dist, abandoned, builds, faults, histories>>

---------------------------------------------------------------------------------
(* replaceDistAtomically *)

LookAtDist(b) ==
    /\ job[b].pc = "look"
    /\ job' = [job EXCEPT ![b].had = dist # None,
                          ![b].pc = IF dist # None THEN "aside" ELSE "in"]
    /\ UNCHANGED <<outputVars, sourceVars, dist, abandoned, builds, faults, histories>>

\* The build is between its renames, and the previous dist is in its work directory.
HasAside(b) == job[b].pc \in {"in", "restore"} /\ job[b].backup # None

\* Mutant: the previous dist is removed instead of renamed.
MoveAsideByRemoval(b) ==
    /\ job[b].pc = "aside"
    /\ IF dist = None THEN End(b) ELSE Go(b, "in")
    /\ dist' = None
    /\ UNCHANGED <<outputVars, sourceVars, abandoned, builds, faults, histories>>

\* Another build may have moved it meanwhile: the rename finds nothing.
MoveAside(b) ==
    /\ job[b].pc = "aside"
    /\ IF dist = None
         THEN End(b) /\ UNCHANGED <<dist, astray>>
         ELSE /\ job' = [job EXCEPT ![b].pc = "in", ![b].backup = dist]
              /\ dist' = None
              /\ astray' = (astray \/ \E other \in Builder : HasAside(other))
    /\ UNCHANGED <<outputVars, sourceVars, abandoned, builds, faults, lastBuilt, quiet>>

\* A directory is not renamed onto one that has files: another build was quicker.
MoveIn(b) ==
    /\ job[b].pc = "in"
    /\ dist = None
    /\ dist' = job[b].stage
    /\ lastBuilt' = job[b].stage
    /\ Go(b, "clean")
    /\ UNCHANGED <<outputVars, sourceVars, abandoned, builds, faults, quiet, astray>>

\* Mutant: an error of the second rename just ends the build.
MoveInFailsForGood(b) ==
    /\ job[b].pc = "in"
    /\ IF dist # None THEN UNCHANGED faults ELSE Fault
    /\ End(b)
    /\ UNCHANGED <<outputVars, sourceVars, dist, abandoned, builds, histories>>

MoveInFails(b) ==
    /\ job[b].pc = "in"
    /\ IF dist # None THEN UNCHANGED faults ELSE Fault
    /\ IF job[b].had THEN Go(b, "restore") ELSE End(b)
    /\ UNCHANGED <<outputVars, sourceVars, dist, abandoned, builds, histories>>

Restore(b) ==
    /\ job[b].pc = "restore"
    /\ dist = None
    /\ dist' = job[b].backup
    /\ End(b)
    /\ UNCHANGED <<outputVars, sourceVars, abandoned, builds, faults, histories>>

\* The third rename fails as the second one may, and the finally clause removes the
\* backup all the same, unless it fails too.
RestoreFails(b) ==
    /\ job[b].pc = "restore"
    /\ IF dist # None THEN UNCHANGED faults ELSE Fault
    /\ LeaveBackup(b)
    /\ astray' = (astray \/ (dist = None /\ job[b].backup \notin abandoned'))
    /\ End(b)
    /\ UNCHANGED <<outputVars, sourceVars, dist, builds, lastBuilt, quiet>>

\* The backup is removed, and then the work directory.
CleanUp(b) ==
    /\ job[b].pc = "clean"
    /\ End(b)
    /\ UNCHANGED <<outputVars, sourceVars, dist, abandoned, builds, faults, histories>>

\* One of these removals fails: so does the build, which has replaced dist by then.
CleanUpFails(b) ==
    /\ job[b].pc = "clean"
    /\ Fault
    /\ LeaveBackup(b)
    /\ End(b)
    /\ UNCHANGED <<outputVars, sourceVars, dist, builds, histories>>

\* Any other call fails.  There is no backup yet.
Fail(b) ==
    /\ job[b].pc \notin {"idle", "in", "restore", "clean"}
    /\ Fault
    /\ End(b)
    /\ UNCHANGED <<outputVars, sourceVars, dist, abandoned, builds, histories>>

\* Nothing runs any more: the work directory stays, with what is in it at that moment.
Kill(b) ==
    /\ job[b].pc # "idle"
    /\ Fault
    /\ IF job[b].pc = "clean" THEN LeaveBackup(b)
                               ELSE abandoned' = abandoned \union ({job[b].backup} \ {None})
    /\ End(b)
    /\ UNCHANGED <<outputVars, sourceVars, dist, builds, histories>>

---------------------------------------------------------------------------------
(* What works beside a build. *)

Disturb == quiet' = {} /\ UNCHANGED <<sourceVars, buildVars>>

Strays == Names \ writing.to.refs

\* A vault writer links whole blobs, replaces the manifest, and removes orphans; git
\* removes files, writes blobs bit by bit, and writes the manifest last.
StartWrite ==
    /\ writing = None
    /\ writes < MaxWrites
    /\ writes' = writes + 1
    /\ \E t \in Targets, how \in {"writer", "git"} :
          writing' = [to |-> [index |-> t.index, refs |-> t.refs, gen |-> writes + 1],
                      how |-> how]
    /\ Disturb
    /\ UNCHANGED <<manifest, blobs, faults>>

WriteBlob ==
    /\ writing # None
    /\ \E o \in writing.to.refs :
          /\ blobs[o] # "whole"
          /\ writing.how = "git" => Strays = {}
          /\ blobs' = [blobs EXCEPT ![o] = IF writing.how = "git" /\ blobs[o] = "absent"
                                             THEN "partial" ELSE "whole"]
    /\ Disturb
    /\ UNCHANGED <<manifest, writing, writes, faults>>

ReplaceManifest ==
    /\ writing # None
    /\ manifest # writing.to
    /\ \A o \in writing.to.refs : blobs[o] = "whole"
    /\ writing.how = "git" => Strays = {}
    /\ manifest' = writing.to
    /\ Disturb
    /\ UNCHANGED <<blobs, writing, writes, faults>>

RemoveBlob ==
    /\ writing # None
    /\ writing.how = "writer" => manifest = writing.to
    /\ \E o \in Strays : blobs' = [blobs EXCEPT ![o] = "absent"]
    /\ Disturb
    /\ UNCHANGED <<manifest, writing, writes, faults>>

\* The write is done, or it is interrupted and leaves what it has written.
EndWrite ==
    /\ writing # None
    /\ IF manifest = writing.to /\ Strays = {} THEN UNCHANGED faults ELSE Fault
    /\ writing' = None
    /\ Disturb
    /\ UNCHANGED <<manifest, blobs, writes>>

Edit ==
    /\ edits < MaxEdits
    /\ edits' = edits + 1
    /\ version' \in Version \ {version}
    /\ quiet' = {}
    /\ UNCHANGED <<outputVars, buildVars, faults>>

---------------------------------------------------------------------------------
(* The specification. *)

\* What a build makes of the sources and the vault that are there.
Exact == [assets |-> BrowserAssets(version), shell |-> version, id |-> <<version, manifest>>,
          manifest |-> manifest, blobs |-> [o \in manifest.refs |-> "whole"]]

Init ==
    /\ \E m \in FirstManifests :
          /\ manifest = [index |-> m.index, refs |-> m.refs, gen |-> 0]
          /\ blobs = [o \in Blob |-> IF o \in m.refs THEN "whole" ELSE "absent"]
    /\ writing = None
    /\ writes = 0
    /\ version \in Version
    /\ edits = 0
    /\ dist \in {None} \union {a \in {Exact} : a.assets \subseteq DOMAIN Imports[version]}
    /\ lastBuilt = dist
    /\ job = [b \in Builder |-> NoJob]
    /\ abandoned = {}
    /\ builds = 0
    /\ faults = 0
    /\ quiet = {}
    /\ astray = FALSE

Inspect(b) == List(b) \/ ReadEnvelope(b) \/ CheckObject(b) \/ CheckStrays(b)

Copy(b) == CollectAssets(b) \/ Identify(b) \/ CopyShell(b) \/ CopyManifest(b) \/ CopyBlob(b)
           \/ CheckStage(b)

Replace(b) == LookAtDist(b) \/ MoveAside(b) \/ MoveIn(b) \/ MoveInFails(b) \/ Restore(b)
              \/ RestoreFails(b) \/ CleanUp(b) \/ CleanUpFails(b)

Write == StartWrite \/ WriteBlob \/ ReplaceManifest \/ RemoveBlob \/ EndWrite

Next ==
    \/ \E b \in Builder : StartBuild(b) \/ Inspect(b) \/ Copy(b) \/ Replace(b) \/ Fail(b) \/ Kill(b)
    \/ Write
    \/ Edit

Spec == Init /\ [][Next]_vars

---------------------------------------------------------------------------------
(* Properties. *)

Manifests == [index : BOOLEAN, refs : SUBSET Blob, gen : Nat]

Stages == [assets : SUBSET Modules,
           shell : Version \union {None},
           id : (Version \X Manifests) \union {None},
           manifest : Manifests \union {None},
           blobs : UNION {[some -> {"partial", "whole"}] : some \in SUBSET Blob}]

Jobs == [pc : {"idle", "list", "envelope", "objects", "assets", "identity", "shell", "manifest",
               "blobs", "look", "aside", "in", "restore", "clean"},
         seen : Manifests \union {None}, names : SUBSET Blob, todo : SUBSET Blob,
         had : BOOLEAN, stage : Stages, backup : Stages \union {None}]

ASSUME NoneAssumption == None \notin Stages

TypeOK ==
    /\ manifest \in Manifests
    /\ blobs \in [Blob -> {"absent", "partial", "whole"}]
    /\ writing \in [to : Manifests, how : {"writer", "git"}] \union {None}
    /\ version \in Version
    /\ writes \in Nat /\ edits \in Nat /\ builds \in Nat /\ faults \in Nat
    /\ dist \in Stages \union {None} /\ lastBuilt \in Stages \union {None}
    /\ abandoned \subseteq Stages
    /\ job \in [Builder -> Jobs]
    /\ quiet \subseteq Builder /\ astray \in BOOLEAN

\* docs/ARCHITECTURE.md:25.  Whatever is written beside the builds, a dist with an
\* object index has the objects of its own manifest, whole, and no other ones: the
\* looks that a build takes at the output need not agree, the copy must.
DistIsWhole ==
    \A a \in abandoned \union ({dist} \ {None}) :
        a.manifest.index => a.blobs = [o \in a.manifest.refs |-> "whole"]

\* docs/OPERATIONS.md:125: a build that fails does not replace dist.  That is so of one
\* that fails before its second rename has succeeded: with no build between its renames,
\* dist is what was put in place last; or dist is missing, because a build was killed
\* there or could not put it back, and is in its work directory.  (A build whose clean-up
\* fails has replaced it.)  It holds as long as no build moves the new dist aside while
\* another one still has the old one aside, where the restoration of the one brings the old
\* dist back and the clean-up of the other removes the new one, and no dist that was to be
\* put back has been removed instead.
EarlyFailureKeepsDist ==
    ~astray /\ (\A b \in Builder : job[b].pc \notin {"in", "restore"}) =>
        dist = lastBuilt \/ (dist = None /\ lastBuilt \in abandoned)

\* Whatever fails and whoever is killed, the artifact that was put in place last is
\* still somewhere: in dist, with a build that may put it back, or in a work directory.
LastBuildSurvives ==
    ~astray /\ lastBuilt # None =>
        lastBuilt \in {dist} \union abandoned \union {job[b].backup : b \in Builder}

\* A build that nothing disturbs, as in CI, publishes the sources and the vault that
\* are there, with every module that one of its modules imports, under an identity
\* taken from the same bytes.
QuietBuildIsExact ==
    [][\A b \in Builder : MoveIn(b) /\ b \in quiet =>
         LET a == dist'
         IN  /\ a.shell = version /\ a.manifest = manifest /\ a.id = <<version, manifest>>
             /\ DOMAIN a.blobs = Names
             /\ \A m \in a.assets : Imports[version][m] \subseteq a.assets]_vars

---------------------------------------------------------------------------------
(* The inductive invariant. *)

\* What passed assertDistClean: its modules are those of the sources that it was copied
\* from, and its objects are the ones that its manifest names.
Artifact(a) ==
    /\ a \in Stages
    /\ a.shell \in Version /\ a.assets \subseteq DOMAIN Imports[a.shell]
    /\ a.manifest \in Manifests
    /\ a.manifest.index => a.blobs = [o \in a.manifest.refs |-> "whole"]

\* What a build knows, by how far it has got.
KnowsManifest(j) ==
    j.pc \in {"objects", "assets", "identity", "shell", "manifest"} => j.seen \in Manifests

HasShell(j) ==
    j.pc \in {"manifest", "blobs"} =>
        j.stage.shell \in Version /\ j.stage.assets \subseteq DOMAIN Imports[j.stage.shell]

HasManifest(j) == j.pc = "blobs" => j.stage.manifest \in Manifests

IsChecked(j) == j.pc \in {"look", "aside", "in", "restore"} => Artifact(j.stage)

\* The previous dist is in the work directory from the one rename to the clean-up, and
\* a build whose second rename fails knows whether it is there.
KeepsBackup(j) ==
    /\ j.backup # None => j.pc \in {"in", "restore", "clean"} /\ Artifact(j.backup)
    /\ j.pc = "aside" => j.had
    /\ j.pc = "in" => (j.had <=> j.backup # None)
    /\ j.pc = "restore" => j.backup # None

JobFits(j) ==
    KnowsManifest(j) /\ HasShell(j) /\ HasManifest(j) /\ IsChecked(j) /\ KeepsBackup(j)

\* There is one place where the last artifact is, and one build that may put it back.
OneHolder == \A b, c \in Builder : HasAside(b) /\ HasAside(c) => b = c

LastIsSomewhere ==
    /\ dist # None => dist = lastBuilt
    /\ \A b \in Builder : HasAside(b) /\ dist = None => lastBuilt = job[b].backup
    /\ dist = None /\ lastBuilt # None /\ (\A b \in Builder : ~HasAside(b)) =>
          lastBuilt \in abandoned

IInv ==
    /\ TypeOK
    /\ \A a \in abandoned \union ({dist, lastBuilt} \ {None}) : Artifact(a)
    /\ \A b \in Builder : JobFits(job[b])
    /\ ~astray => OneHolder /\ LastIsSomewhere

\* What a build beside which nothing has changed knows of what is there.
QuietFits(j) ==
    /\ j.pc \notin {"idle", "list"} => j.names = Names
    /\ j.pc = "objects" => /\ manifest.index /\ j.seen = manifest
                           /\ \A o \in manifest.refs \ j.todo : blobs[o] = "whole"
    /\ j.pc \in {"assets", "identity", "shell", "manifest"} => j.seen.refs = Names
    /\ j.pc \in {"identity", "shell", "manifest", "blobs", "look", "aside", "in"} =>
          /\ j.stage.assets = BrowserAssets(version)
          /\ j.stage.assets \subseteq DOMAIN Imports[version]
    /\ j.pc \in {"shell", "manifest", "blobs", "look", "aside", "in"} =>
          j.stage.id = <<version, manifest>>
    /\ j.pc \in {"manifest", "blobs", "look", "aside", "in"} => j.stage.shell = version
    /\ j.pc \in {"blobs", "look", "aside", "in"} => j.stage.manifest = manifest
    /\ j.pc = "blobs" => DOMAIN j.stage.blobs \union j.todo = Names
    /\ j.pc \in {"look", "aside", "in"} => DOMAIN j.stage.blobs = Names

\* No blob is in the copy before its manifest is.
CopyIsEmpty(j) ==
    j.pc \in {"idle", "list", "envelope", "objects", "assets", "identity", "shell", "manifest"} =>
        DOMAIN j.stage.blobs = {}

QuietInv ==
    /\ \A b \in Builder : CopyIsEmpty(job[b])
    /\ quiet # {} => writing = None
    /\ \A b \in quiet : QuietFits(job[b])
=================================================================================
