------------------------------ MODULE DistributionProofs ------------------------------
(***************************************************************************)
(* Proofs about Distribution, for every set of builders and blobs, every   *)
(* graph of modules, and however many builds, writes, edits and faults     *)
(* there are.                                                              *)
(*                                                                         *)
(* Every step of a build replaces one record of job.  What the record says *)
(* (JobFits) is about that record alone, so what the others do cannot      *)
(* spoil it: this is what keeps a dist whole beside any writer.  What is   *)
(* said about several builds (OneHolder, LastIsSomewhere) is only touched  *)
(* by a build that has the previous dist aside: LocalStep deals with all   *)
(* the other steps at once.                                                *)
(***************************************************************************)
EXTENDS Distribution, WellFoundedInduction, TLAPS

---------------------------------------------------------------------------------
(* Lemmas about the data. *)

\* The first of some blobs, in the order of their names, is one of them.
LEMMA MinIsMember ==
    ASSUME NEW some \in SUBSET Blob, some # {}
    PROVE  Min(some) \in some
<1>1. some \subseteq Nat
  BY DistributionAssumption
<1> DEFINE Less == {pair \in Nat \X Nat : pair[1] < pair[2]}
<1>2. IsWellFoundedOn(Less, Nat)
  BY NatLessThanWellFounded DEF OpToRel
<1>3. PICK o \in some : \A p \in some : ~ (<<p, o>> \in Less)
  <2> HIDE DEF Less
  <2> QED
    BY <1>1, <1>2, WFMin
<1>4. ASSUME NEW p \in some PROVE o =< p
  <2>1. p \in Nat /\ o \in Nat /\ <<p, o>>[1] = p /\ <<p, o>>[2] = o
    BY <1>1
  <2>2. p < o => <<p, o>> \in Less
    BY <2>1
  <2> QED
    BY <1>3, <2>1, <2>2
<1> QED
  BY <1>4 DEF Min

\* Whoever imports a module that the walk has found has its other modules found as well.
LEMMA WalkIsComplete ==
    ASSUME NEW v \in Version, BrowserAssets(v) \subseteq DOMAIN Imports[v],
           NEW m \in BrowserAssets(v)
    PROVE  Imports[v][m] \subseteq BrowserAssets(v)
<1>1. Imports[v][m] \subseteq Modules
  BY DEF Modules, Imported
<1>2. ASSUME NEW found \in SUBSET Modules, Entry \subseteq found, Closed(found, v)
      PROVE  Imports[v][m] \subseteq found
  BY <1>2 DEF BrowserAssets, Closed
<1> QED
  BY <1>1, <1>2 DEF BrowserAssets

LEMMA NoJobFits == NoJob \in Jobs /\ JobFits(NoJob)
<1>1. NoStage.blobs \in [{} -> {"partial", "whole"}]
  BY DEF NoStage
<1>2. NoStage.blobs \in UNION {[some -> {"partial", "whole"}] : some \in SUBSET Blob}
  BY <1>1
<1>3. NoStage \in Stages
  BY <1>2 DEF NoStage, Stages
<1>4. NoJob \in Jobs
  BY <1>3 DEF NoJob, Jobs
<1> QED
  BY <1>4 DEF NoJob, JobFits, KnowsManifest, HasShell, HasManifest, IsChecked, KeepsBackup

---------------------------------------------------------------------------------
(* A step of a build that has no previous dist aside, before or after it. *)

LEMMA LocalStep ==
    ASSUME IInv, NEW b \in Builder, NEW j \in Jobs, JobFits(j),
           job' = [job EXCEPT ![b] = j],
           ~ HasAside(b), ~ (j.pc \in {"in", "restore"} /\ j.backup # None),
           UNCHANGED <<outputVars, sourceVars, dist, abandoned, lastBuilt, astray>>,
           builds' \in Nat, faults' \in Nat, quiet' \subseteq Builder
    PROVE  IInv'
<1> USE DEF IInv
<1>1. job' \in [Builder -> Jobs] /\ job'[b] = j /\ \A c \in Builder : c # b => job'[c] = job[c]
  BY DEF TypeOK
<1>2. TypeOK'
  BY <1>1 DEF TypeOK, outputVars, sourceVars
<1>3. (\A c \in Builder : JobFits(job[c]))'
  BY <1>1
<1>4. \A c \in Builder : /\ HasAside(c)' <=> HasAside(c)
                         /\ HasAside(c) => job'[c].backup = job[c].backup
  BY <1>1 DEF HasAside
<1>5. (~astray => OneHolder /\ LastIsSomewhere)'
  BY <1>4 DEF OneHolder, LastIsSomewhere
<1> QED
  BY <1>2, <1>3, <1>5

\* The step leaves everything but the record of the build, and perhaps a count.
LEMMA EndIsLocal ==
    ASSUME IInv, NEW b \in Builder, End(b), ~ HasAside(b),
           UNCHANGED <<outputVars, sourceVars, dist, abandoned, lastBuilt, astray>>,
           builds' \in Nat, faults' \in Nat, quiet' \subseteq Builder
    PROVE  IInv'
<1>1. ~ (NoJob.pc \in {"in", "restore"} /\ NoJob.backup # None)
  BY DEF NoJob
<1>2. job' = [job EXCEPT ![b] = NoJob]
  BY DEF End
<1> QED
  BY <1>1, <1>2, NoJobFits, LocalStep

LEMMA FaultIsCounted ==
    ASSUME IInv, Fault
    PROVE  faults' \in Nat
BY DEF IInv, TypeOK, Fault

LEMMA StartBuildKeeps ==
    ASSUME IInv, NEW b \in Builder, StartBuild(b)
    PROVE  IInv'
<1>1. /\ job[b] \in Jobs /\ JobFits(job[b])
      /\ builds \in Nat /\ faults \in Nat /\ quiet \subseteq Builder
  BY DEF IInv, TypeOK
<1> DEFINE new == [job[b] EXCEPT !.pc = "list"]
<1>2. new \in Jobs /\ new.pc = "list" /\ new.backup = None
  BY <1>1 DEF Jobs, StartBuild, JobFits, KeepsBackup
<1>3. JobFits(new)
  BY <1>2 DEF JobFits, KnowsManifest, HasShell, HasManifest, IsChecked, KeepsBackup
<1>4. job' = [job EXCEPT ![b] = new]
  BY <1>1 DEF StartBuild, Go, IInv, TypeOK
<1>5. /\ UNCHANGED <<outputVars, sourceVars, dist, abandoned, lastBuilt, astray>>
      /\ builds' \in Nat /\ faults' \in Nat /\ quiet' \subseteq Builder /\ ~ HasAside(b)
  BY <1>1 DEF StartBuild, HasAside
<1> HIDE DEF new
<1> QED
  BY <1>2, <1>3, <1>4, <1>5, LocalStep

---------------------------------------------------------------------------------
(* inspectPublicFiles and the copy. *)

\* What a build that is not between the renames does, as long as it does not end there.
LEMMA WorkStep ==
    ASSUME IInv, NEW b \in Builder, NEW j \in Jobs, JobFits(j), j.backup = None,
           job[b].pc \notin {"in", "restore"}, job' = [job EXCEPT ![b] = j],
           UNCHANGED <<outputVars, sourceVars, dist, abandoned, builds, faults, histories>>
    PROVE  IInv'
<1>1. /\ UNCHANGED <<outputVars, sourceVars, dist, abandoned, lastBuilt, astray>>
      /\ builds' \in Nat /\ faults' \in Nat /\ quiet' \subseteq Builder /\ ~ HasAside(b)
  BY DEF histories, HasAside, IInv, TypeOK
<1> QED
  BY <1>1, LocalStep

LEMMA WorkEnds ==
    ASSUME IInv, NEW b \in Builder, End(b), job[b].pc \notin {"in", "restore"},
           UNCHANGED <<outputVars, sourceVars, dist, abandoned, builds, faults, histories>>
    PROVE  IInv'
<1>1. job' = [job EXCEPT ![b] = NoJob] /\ NoJob.backup = None
  BY DEF End, NoJob
<1> QED
  BY <1>1, NoJobFits, WorkStep

\* What the invariant says of the record of a build that is at work.
LEMMA AtWork ==
    ASSUME IInv, NEW b \in Builder, job[b].pc \notin {"in", "restore", "clean"}
    PROVE  /\ job \in [Builder -> Jobs] /\ job[b] \in Jobs /\ JobFits(job[b])
           /\ job[b].backup = None
           /\ manifest \in Manifests /\ version \in Version
BY DEF IInv, TypeOK, JobFits, KeepsBackup

LEMMA ListKeeps ==
    ASSUME IInv, NEW b \in Builder, List(b)
    PROVE  IInv'
<1>1. job[b].pc = "list"
  BY DEF List
<1>2. job \in [Builder -> Jobs] /\ job[b] \in Jobs /\ job[b].backup = None
  BY <1>1, AtWork
<1> DEFINE new == [job[b] EXCEPT !.pc = "envelope", !.names = Names]
<1>3. new \in Jobs /\ new.pc = "envelope" /\ new.backup = None
  BY <1>2 DEF Jobs, Names
<1>4. JobFits(new)
  BY <1>3 DEF JobFits, KnowsManifest, HasShell, HasManifest, IsChecked, KeepsBackup
<1>5. job' = [job EXCEPT ![b] = new]
  BY <1>2 DEF List
<1> HIDE DEF new
<1> QED
  BY <1>1, <1>3, <1>4, <1>5, WorkStep DEF List

LEMMA ReadEnvelopeKeeps ==
    ASSUME IInv, NEW b \in Builder, ReadEnvelope(b)
    PROVE  IInv'
<1>1. job[b].pc = "envelope"
  BY DEF ReadEnvelope
<1>2. /\ job \in [Builder -> Jobs] /\ job[b] \in Jobs /\ job[b].backup = None
      /\ manifest \in Manifests
  BY <1>1, AtWork
<1>3. CASE manifest.index
  <2> DEFINE new == [job[b] EXCEPT !.pc = "objects", !.seen = manifest, !.todo = manifest.refs]
  <2>1. new \in Jobs /\ new.pc = "objects" /\ new.seen \in Manifests /\ new.backup = None
    BY <1>2 DEF Jobs, Manifests
  <2>2. JobFits(new)
    BY <2>1 DEF JobFits, KnowsManifest, HasShell, HasManifest, IsChecked, KeepsBackup
  <2>3. job' = [job EXCEPT ![b] = new]
    BY <1>2, <1>3 DEF ReadEnvelope
  <2> HIDE DEF new
  <2> QED
    BY <1>1, <2>1, <2>2, <2>3, WorkStep DEF ReadEnvelope
<1>4. CASE ~ manifest.index
  <2> DEFINE seen == [manifest EXCEPT !.refs = job[b].names]
             new == [job[b] EXCEPT !.pc = "assets", !.seen = seen]
  <2>1. seen \in Manifests
    BY <1>2 DEF Jobs, Manifests
  <2>2. new \in Jobs /\ new.pc = "assets" /\ new.seen \in Manifests /\ new.backup = None
    BY <1>2, <2>1 DEF Jobs
  <2>3. JobFits(new)
    BY <2>2 DEF JobFits, KnowsManifest, HasShell, HasManifest, IsChecked, KeepsBackup
  <2>4. job' = [job EXCEPT ![b] = new]
    BY <1>2, <1>4 DEF ReadEnvelope
  <2> HIDE DEF new
  <2> QED
    BY <1>1, <2>2, <2>3, <2>4, WorkStep DEF ReadEnvelope
<1> QED
  BY <1>3, <1>4

LEMMA CheckObjectKeeps ==
    ASSUME IInv, NEW b \in Builder, CheckObject(b)
    PROVE  IInv'
<1>1. job[b].pc = "objects"
  BY DEF CheckObject
<1>2. /\ job \in [Builder -> Jobs] /\ job[b] \in Jobs /\ job[b].backup = None
      /\ job[b].seen \in Manifests
  BY <1>1, AtWork DEF JobFits, KnowsManifest
<1> DEFINE o == Min(job[b].todo)
<1>3. CASE blobs[o] = "whole"
  <2> DEFINE new == [job[b] EXCEPT !.todo = @ \ {o}]
  <2>1. /\ new \in Jobs /\ new.pc = "objects" /\ new.seen \in Manifests
        /\ new.backup = None
    BY <1>1, <1>2 DEF Jobs
  <2>2. JobFits(new)
    BY <2>1 DEF JobFits, KnowsManifest, HasShell, HasManifest, IsChecked, KeepsBackup
  <2>3. job' = [job EXCEPT ![b] = new]
    BY <1>2, <1>3 DEF CheckObject
  <2> HIDE DEF new
  <2> QED
    BY <1>1, <2>1, <2>2, <2>3, WorkStep DEF CheckObject
<1>4. CASE blobs[o] # "whole"
  BY <1>1, <1>4, WorkEnds DEF CheckObject
<1> QED
  BY <1>3, <1>4

LEMMA CheckStraysKeeps ==
    ASSUME IInv, NEW b \in Builder, CheckStrays(b)
    PROVE  IInv'
<1>1. job[b].pc = "objects"
  BY DEF CheckStrays
<1>2. /\ job \in [Builder -> Jobs] /\ job[b] \in Jobs /\ job[b].backup = None
      /\ job[b].seen \in Manifests
  BY <1>1, AtWork DEF JobFits, KnowsManifest
<1>3. CASE job[b].names \subseteq job[b].seen.refs
  <2> DEFINE new == [job[b] EXCEPT !.pc = "assets"]
  <2>1. new \in Jobs /\ new.pc = "assets" /\ new.seen \in Manifests /\ new.backup = None
    BY <1>2 DEF Jobs
  <2>2. JobFits(new)
    BY <2>1 DEF JobFits, KnowsManifest, HasShell, HasManifest, IsChecked, KeepsBackup
  <2>3. job' = [job EXCEPT ![b] = new]
    BY <1>2, <1>3 DEF CheckStrays, Go
  <2> HIDE DEF new
  <2> QED
    BY <1>1, <2>1, <2>2, <2>3, WorkStep DEF CheckStrays
<1>4. CASE ~ (job[b].names \subseteq job[b].seen.refs)
  BY <1>1, <1>4, WorkEnds DEF CheckStrays
<1> QED
  BY <1>3, <1>4

LEMMA CollectAssetsKeeps ==
    ASSUME IInv, NEW b \in Builder, CollectAssets(b)
    PROVE  IInv'
<1> DEFINE assets == BrowserAssets(version)
<1>1. job[b].pc = "assets"
  BY DEF CollectAssets
<1>2. /\ job \in [Builder -> Jobs] /\ job[b] \in Jobs /\ job[b].backup = None
      /\ job[b].seen \in Manifests /\ version \in Version
  BY <1>1, AtWork DEF JobFits, KnowsManifest
<1>3. CASE assets \subseteq DOMAIN Imports[version]
  <2> DEFINE stage == [job[b].stage EXCEPT !.assets = assets]
             new == [job[b] EXCEPT !.pc = "identity", !.stage = stage]
  <2>1. assets \in SUBSET Modules
    BY DEF BrowserAssets
  <2>2. job[b].stage \in Stages
    BY <1>2 DEF Jobs
  <2> HIDE DEF assets
  <2>3. stage \in Stages
    BY <2>1, <2>2 DEF Stages
  <2>4. /\ new \in Jobs /\ new.pc = "identity" /\ new.seen \in Manifests
        /\ new.backup = None
    BY <1>2, <2>3 DEF Jobs
  <2>5. JobFits(new)
    BY <2>4 DEF JobFits, KnowsManifest, HasShell, HasManifest, IsChecked, KeepsBackup
  <2>6. job' = [job EXCEPT ![b] = new]
    <3>1. job' = [job EXCEPT ![b].pc = "identity", ![b].stage.assets = assets]
      BY <1>3 DEF CollectAssets, assets
    <3> QED
      BY <1>2, <3>1
  <2> HIDE DEF new
  <2> QED
    BY <1>1, <2>4, <2>5, <2>6, WorkStep DEF CollectAssets
<1>4. CASE ~ (assets \subseteq DOMAIN Imports[version])
  BY <1>1, <1>4, WorkEnds DEF CollectAssets
<1> QED
  BY <1>3, <1>4

LEMMA IdentifyKeeps ==
    ASSUME IInv, NEW b \in Builder, Identify(b)
    PROVE  IInv'
<1>1. job[b].pc = "identity"
  BY DEF Identify
<1>2. /\ job \in [Builder -> Jobs] /\ job[b] \in Jobs /\ job[b].backup = None
      /\ job[b].seen \in Manifests /\ version \in Version /\ manifest \in Manifests
  BY <1>1, AtWork DEF JobFits, KnowsManifest
<1>3. CASE Present(b)
  <2> DEFINE stage == [job[b].stage EXCEPT !.id = <<version, manifest>>]
             new == [job[b] EXCEPT !.pc = "shell", !.stage = stage]
  <2>1. job[b].stage \in Stages
    BY <1>2 DEF Jobs
  <2>2. stage \in Stages
    BY <1>2, <2>1 DEF Stages
  <2>3. new \in Jobs /\ new.pc = "shell" /\ new.seen \in Manifests /\ new.backup = None
    BY <1>2, <2>2 DEF Jobs
  <2>4. JobFits(new)
    BY <2>3 DEF JobFits, KnowsManifest, HasShell, HasManifest, IsChecked, KeepsBackup
  <2>5. job' = [job EXCEPT ![b] = new]
    <3>1. job' = [job EXCEPT ![b].pc = "shell", ![b].stage.id = <<version, manifest>>]
      BY <1>3 DEF Identify
    <3> QED
      BY <1>2, <3>1
  <2> HIDE DEF new
  <2> QED
    BY <1>1, <2>3, <2>4, <2>5, WorkStep DEF Identify
<1>4. CASE ~ Present(b)
  BY <1>1, <1>4, WorkEnds DEF Identify
<1> QED
  BY <1>3, <1>4

LEMMA CopyShellKeeps ==
    ASSUME IInv, NEW b \in Builder, CopyShell(b)
    PROVE  IInv'
<1>1. job[b].pc = "shell"
  BY DEF CopyShell
<1>2. /\ job \in [Builder -> Jobs] /\ job[b] \in Jobs /\ job[b].backup = None
      /\ job[b].seen \in Manifests /\ version \in Version
  BY <1>1, AtWork DEF JobFits, KnowsManifest
<1>3. CASE Present(b)
  <2> DEFINE stage == [job[b].stage EXCEPT !.shell = version]
             new == [job[b] EXCEPT !.pc = "manifest", !.stage = stage]
  <2>1. job[b].stage \in Stages
    BY <1>2 DEF Jobs
  <2>2. stage \in Stages /\ stage.shell = version /\ stage.assets = job[b].stage.assets
    BY <1>2, <2>1 DEF Stages
  <2>3. /\ new \in Jobs /\ new.pc = "manifest" /\ new.seen \in Manifests
        /\ new.backup = None /\ new.stage = stage
    BY <1>2, <2>2 DEF Jobs
  <2>4. new.stage.shell \in Version /\ new.stage.assets \subseteq DOMAIN Imports[new.stage.shell]
    BY <1>2, <1>3, <2>2, <2>3 DEF Present
  <2>5. job' = [job EXCEPT ![b] = new]
    <3>1. job' = [job EXCEPT ![b].pc = "manifest", ![b].stage.shell = version]
      BY <1>3 DEF CopyShell
    <3> QED
      BY <1>2, <3>1
  <2> HIDE DEF new
  <2>6. JobFits(new)
    BY <2>3, <2>4 DEF JobFits, KnowsManifest, HasShell, HasManifest, IsChecked, KeepsBackup
  <2> QED
    BY <1>1, <2>3, <2>5, <2>6, WorkStep DEF CopyShell
<1>4. CASE ~ Present(b)
  BY <1>1, <1>4, WorkEnds DEF CopyShell
<1> QED
  BY <1>3, <1>4

LEMMA CopyManifestKeeps ==
    ASSUME IInv, NEW b \in Builder, CopyManifest(b)
    PROVE  IInv'
<1>1. job[b].pc = "manifest"
  BY DEF CopyManifest
<1>2. /\ job \in [Builder -> Jobs] /\ job[b] \in Jobs /\ job[b].backup = None
      /\ job[b].seen \in Manifests /\ manifest \in Manifests
      /\ job[b].stage.shell \in Version
      /\ job[b].stage.assets \subseteq DOMAIN Imports[job[b].stage.shell]
  BY <1>1, AtWork DEF JobFits, KnowsManifest, HasShell
<1> DEFINE stage == [job[b].stage EXCEPT !.manifest = manifest]
           new == [job[b] EXCEPT !.pc = "blobs", !.stage = stage, !.todo = job[b].seen.refs]
<1>3. job[b].stage \in Stages /\ job[b].seen.refs \subseteq Blob
  BY <1>2 DEF Jobs, Manifests
<1>4. /\ stage \in Stages /\ stage.manifest = manifest
      /\ stage.shell = job[b].stage.shell /\ stage.assets = job[b].stage.assets
  BY <1>2, <1>3 DEF Stages
<1>5. new \in Jobs /\ new.pc = "blobs" /\ new.backup = None /\ new.stage = stage
  BY <1>2, <1>3, <1>4 DEF Jobs
<1>6. job' = [job EXCEPT ![b] = new]
  BY <1>2 DEF CopyManifest
<1> HIDE DEF new, stage
<1>7. JobFits(new)
  BY <1>2, <1>4, <1>5 DEF JobFits, KnowsManifest, HasShell, HasManifest, IsChecked, KeepsBackup
<1> QED
  BY <1>1, <1>5, <1>6, <1>7, WorkStep DEF CopyManifest

LEMMA CopyBlobKeeps ==
    ASSUME IInv, NEW b \in Builder, CopyBlob(b)
    PROVE  IInv'
<1> DEFINE o == Min(job[b].todo)
<1>1. job[b].pc = "blobs" /\ job[b].todo # {}
  BY DEF CopyBlob
<1>2. /\ job \in [Builder -> Jobs] /\ job[b] \in Jobs /\ job[b].backup = None
      /\ job[b].stage.shell \in Version /\ job[b].stage.manifest \in Manifests
      /\ job[b].stage.assets \subseteq DOMAIN Imports[job[b].stage.shell]
  BY <1>1, AtWork DEF JobFits, HasManifest, HasShell
<1>3. job[b].stage \in Stages /\ job[b].todo \subseteq Blob /\ o \in Blob
  BY <1>1, <1>2, MinIsMember DEF Jobs
<1>4. blobs \in [Blob -> {"absent", "partial", "whole"}]
  BY DEF IInv, TypeOK
<1>5. CASE blobs[o] # "absent"
  <2> DEFINE before == job[b].stage.blobs
             copied == DOMAIN before \union {o}
             copy == [p \in copied |-> IF p = o THEN blobs[o] ELSE before[p]]
             stage == [job[b].stage EXCEPT !.blobs = copy]
             new == [job[b] EXCEPT !.todo = @ \ {o}, !.stage = stage]
  <2>1. PICK some \in SUBSET Blob : before \in [some -> {"partial", "whole"}]
    BY <1>3 DEF Stages
  <2>2. copied \in SUBSET Blob /\ copy \in [copied -> {"partial", "whole"}]
    BY <1>3, <1>4, <1>5, <2>1
  <2> HIDE DEF copied, copy
  <2>3. copy \in UNION {[rest -> {"partial", "whole"}] : rest \in SUBSET Blob}
    BY <2>2
  <2>4. /\ stage \in Stages /\ stage.manifest = job[b].stage.manifest
        /\ stage.shell = job[b].stage.shell /\ stage.assets = job[b].stage.assets
    BY <1>3, <2>3 DEF Stages
  <2>5. new \in Jobs /\ new.pc = "blobs" /\ new.backup = None /\ new.stage = stage
    BY <1>1, <1>2, <2>4 DEF Jobs
  <2>6. job' = [job EXCEPT ![b] = new]
    <3>1. job' = [job EXCEPT ![b].todo = @ \ {o}, ![b].stage.blobs = copy]
      BY <1>5 DEF CopyBlob, copy, copied
    <3> QED
      BY <1>2, <3>1
  <2> HIDE DEF new, stage
  <2>7. JobFits(new)
    BY <1>2, <2>4, <2>5
       DEF JobFits, KnowsManifest, HasShell, HasManifest, IsChecked, KeepsBackup
  <2> QED
    BY <1>1, <2>5, <2>6, <2>7, WorkStep DEF CopyBlob
<1>6. CASE blobs[o] = "absent"
  BY <1>1, <1>6, WorkEnds DEF CopyBlob
<1> QED
  BY <1>5, <1>6

\* assertDistClean lets a copy through only if it has the objects of its own manifest.
LEMMA VerifiedIsWhole ==
    ASSUME NEW stage \in Stages, stage.manifest \in Manifests, stage.manifest.index,
           Verified(stage)
    PROVE  stage.blobs = [o \in stage.manifest.refs |-> "whole"]
<1>1. PICK some \in SUBSET Blob : stage.blobs \in [some -> {"partial", "whole"}]
  BY DEF Stages
<1>2. /\ some = stage.manifest.refs
      /\ \A o \in some : stage.blobs[o] = "whole"
  BY <1>1 DEF Verified
<1> QED
  BY <1>1, <1>2

LEMMA CheckStageKeeps ==
    ASSUME IInv, NEW b \in Builder, CheckStage(b)
    PROVE  IInv'
<1>1. job[b].pc = "blobs"
  BY DEF CheckStage
<1>2. /\ job \in [Builder -> Jobs] /\ job[b] \in Jobs /\ job[b].backup = None
      /\ job[b].stage.shell \in Version /\ job[b].stage.manifest \in Manifests
      /\ job[b].stage.assets \subseteq DOMAIN Imports[job[b].stage.shell]
  BY <1>1, AtWork DEF JobFits, HasManifest, HasShell
<1>3. job[b].stage \in Stages
  BY <1>2 DEF Jobs
<1>4. CASE Verified(job[b].stage)
  <2> DEFINE new == [job[b] EXCEPT !.pc = "look"]
  <2>1. Artifact(job[b].stage)
    BY <1>2, <1>3, <1>4, VerifiedIsWhole DEF Artifact
  <2>2. new \in Jobs /\ new.pc = "look" /\ new.backup = None /\ new.stage = job[b].stage
    BY <1>2 DEF Jobs
  <2>3. job' = [job EXCEPT ![b] = new]
    BY <1>2, <1>4 DEF CheckStage, Go
  <2> HIDE DEF new
  <2>4. JobFits(new)
    BY <2>1, <2>2 DEF JobFits, KnowsManifest, HasShell, HasManifest, IsChecked, KeepsBackup
  <2> QED
    BY <1>1, <2>2, <2>3, <2>4, WorkStep DEF CheckStage
<1>5. CASE ~ Verified(job[b].stage)
  BY <1>1, <1>5, WorkEnds DEF CheckStage
<1> QED
  BY <1>4, <1>5

---------------------------------------------------------------------------------
(* replaceDistAtomically: the steps between the renames. *)

LEMMA LookAtDistKeeps ==
    ASSUME IInv, NEW b \in Builder, LookAtDist(b)
    PROVE  IInv'
<1>1. job[b].pc = "look"
  BY DEF LookAtDist
<1>2. /\ job \in [Builder -> Jobs] /\ job[b] \in Jobs /\ job[b].backup = None
      /\ Artifact(job[b].stage)
  BY <1>1, AtWork DEF JobFits, IsChecked
<1> DEFINE had == dist # None
           new == [job[b] EXCEPT !.had = had, !.pc = IF had THEN "aside" ELSE "in"]
<1>3. /\ new \in Jobs /\ new.pc = (IF had THEN "aside" ELSE "in") /\ new.had = had
      /\ new.backup = None /\ new.stage = job[b].stage
  BY <1>2 DEF Jobs
<1>4. job' = [job EXCEPT ![b] = new]
  BY <1>2 DEF LookAtDist
<1> HIDE DEF new
<1>5. JobFits(new)
  BY <1>2, <1>3 DEF JobFits, KnowsManifest, HasShell, HasManifest, IsChecked, KeepsBackup
<1> QED
  BY <1>1, <1>3, <1>4, <1>5, WorkStep DEF LookAtDist

LEMMA FailKeeps ==
    ASSUME IInv, NEW b \in Builder, Fail(b)
    PROVE  IInv'
<1>1. /\ UNCHANGED <<outputVars, sourceVars, dist, abandoned, lastBuilt, astray>>
      /\ builds' \in Nat /\ faults' \in Nat /\ quiet' \subseteq Builder
      /\ ~ HasAside(b) /\ End(b)
  BY FaultIsCounted DEF Fail, histories, HasAside, IInv, TypeOK
<1> QED
  BY <1>1, EndIsLocal

LEMMA CleanUpKeeps ==
    ASSUME IInv, NEW b \in Builder, CleanUp(b)
    PROVE  IInv'
<1> QED
  BY WorkEnds DEF CleanUp

\* What a step of one build that changes dist, or who has the previous dist, must keep.
LEMMA ReplacingStep ==
    ASSUME IInv, NEW b \in Builder, NEW j \in Jobs, JobFits(j),
           job' = [job EXCEPT ![b] = j],
           UNCHANGED <<outputVars, sourceVars, builds>>,
           faults' \in Nat, quiet' \subseteq Builder, astray' \in BOOLEAN,
           dist' = None \/ Artifact(dist'), lastBuilt' = None \/ Artifact(lastBuilt'),
           \A a \in abandoned' : Artifact(a),
           (~astray => OneHolder /\ LastIsSomewhere)'
    PROVE  IInv'
<1>1. job' \in [Builder -> Jobs] /\ job'[b] = j /\ \A c \in Builder : c # b => job'[c] = job[c]
  BY DEF IInv, TypeOK
<1>2. /\ dist' \in Stages \union {None} /\ lastBuilt' \in Stages \union {None}
      /\ abandoned' \subseteq Stages
  BY DEF Artifact
<1>3. TypeOK'
  BY <1>1, <1>2 DEF TypeOK, outputVars, sourceVars, IInv
<1>4. (\A c \in Builder : JobFits(job[c]))'
  BY <1>1 DEF IInv
<1>5. (\A a \in abandoned \union ({dist, lastBuilt} \ {None}) : Artifact(a))'
  OBVIOUS
<1> QED
  BY <1>3, <1>4, <1>5 DEF IInv

\* Nobody else has a dist aside, so the one that is moved is the last one that was built.
LEMMA MoveAsideKeeps ==
    ASSUME IInv, NEW b \in Builder, MoveAside(b)
    PROVE  IInv'
<1>1. job[b].pc = "aside"
  BY DEF MoveAside
<1>2. /\ job \in [Builder -> Jobs] /\ job[b] \in Jobs /\ job[b].backup = None
      /\ Artifact(job[b].stage) /\ job[b].had
  BY <1>1, AtWork DEF JobFits, IsChecked, KeepsBackup
<1>3. CASE dist = None
  <2>1. UNCHANGED <<outputVars, sourceVars, dist, abandoned, builds, faults, histories>>
    BY <1>3 DEF MoveAside, histories
  <2> QED
    BY <1>1, <1>3, <2>1, WorkEnds DEF MoveAside
<1>4. CASE dist # None
  <2> DEFINE new == [job[b] EXCEPT !.pc = "in", !.backup = dist]
  <2>1. Artifact(dist)
    BY <1>4 DEF IInv
  <2>2. /\ new \in Jobs /\ new.pc = "in" /\ new.had /\ new.backup = dist
        /\ new.stage = job[b].stage
    BY <1>2, <2>1 DEF Jobs, Artifact
  <2>3. job' = [job EXCEPT ![b] = new]
    BY <1>2, <1>4 DEF MoveAside
  <2> HIDE DEF new
  <2>4. JobFits(new)
    BY <1>2, <1>4, <2>1, <2>2
       DEF JobFits, KnowsManifest, HasShell, HasManifest, IsChecked, KeepsBackup
  <2>5. /\ UNCHANGED <<outputVars, sourceVars, builds, abandoned, lastBuilt>>
        /\ faults' \in Nat /\ quiet' \subseteq Builder /\ dist' = None
        /\ astray' = (astray \/ \E other \in Builder : HasAside(other))
    BY <1>4 DEF MoveAside, IInv, TypeOK
  <2>6. astray' \in BOOLEAN
    BY <2>5 DEF IInv, TypeOK
  <2>7. (~astray => OneHolder /\ LastIsSomewhere)'
    <3> SUFFICES ASSUME ~ astray'
                 PROVE  OneHolder' /\ LastIsSomewhere'
      OBVIOUS
    <3>1. ~ astray /\ \A c \in Builder : ~ HasAside(c)
      BY <2>5
    <3>2. dist = lastBuilt
      BY <1>4, <3>1 DEF IInv, LastIsSomewhere
    <3>3. HasAside(b)' /\ job'[b].backup = lastBuilt' /\ \A c \in Builder : c # b => ~ HasAside(c)'
      BY <1>2, <1>4, <2>2, <2>3, <2>5, <3>1, <3>2 DEF HasAside
    <3> QED
      BY <2>5, <3>3 DEF OneHolder, LastIsSomewhere
  <2>8. /\ dist' = None \/ Artifact(dist')
        /\ lastBuilt' = None \/ Artifact(lastBuilt')
        /\ \A a \in abandoned' : Artifact(a)
    BY <2>5 DEF IInv
  <2> QED
    BY <2>2, <2>3, <2>4, <2>5, <2>6, <2>7, <2>8, ReplacingStep
<1> QED
  BY <1>3, <1>4

LEMMA MoveInKeeps ==
    ASSUME IInv, NEW b \in Builder, MoveIn(b)
    PROVE  IInv'
<1>1. job[b].pc = "in" /\ dist = None
  BY DEF MoveIn
<1>2. /\ job \in [Builder -> Jobs] /\ job[b] \in Jobs /\ JobFits(job[b])
      /\ Artifact(job[b].stage)
  BY <1>1 DEF IInv, TypeOK, JobFits, IsChecked
<1> DEFINE new == [job[b] EXCEPT !.pc = "clean"]
<1>3. new \in Jobs /\ new.pc = "clean" /\ new.backup = job[b].backup
  BY <1>2 DEF Jobs
<1>4. job' = [job EXCEPT ![b] = new]
  BY <1>2 DEF MoveIn, Go
<1> HIDE DEF new
<1>5. JobFits(new)
  BY <1>1, <1>2, <1>3 DEF JobFits, KnowsManifest, HasShell, HasManifest, IsChecked, KeepsBackup
<1>6. /\ UNCHANGED <<outputVars, sourceVars, builds, abandoned, astray>>
      /\ faults' \in Nat /\ quiet' \subseteq Builder /\ astray' \in BOOLEAN
      /\ dist' = job[b].stage /\ lastBuilt' = job[b].stage
  BY DEF MoveIn, IInv, TypeOK
<1>7. job[b].stage # None
  BY <1>2, NoneAssumption DEF Artifact
<1>8. \A c \in Builder : HasAside(c)' => HasAside(c)
  BY <1>2, <1>3, <1>4 DEF HasAside
<1>9. (~astray => OneHolder /\ LastIsSomewhere)'
  BY <1>6, <1>7, <1>8 DEF IInv, OneHolder, LastIsSomewhere
<1> QED
  BY <1>2, <1>3, <1>4, <1>5, <1>6, <1>9, ReplacingStep DEF IInv

\* A build that has nothing to put back ends; one that has, still has it.
LEMMA MoveInFailsKeeps ==
    ASSUME IInv, NEW b \in Builder, MoveInFails(b)
    PROVE  IInv'
<1>1. job[b].pc = "in"
  BY DEF MoveInFails
<1>2. /\ job \in [Builder -> Jobs] /\ job[b] \in Jobs /\ JobFits(job[b])
      /\ Artifact(job[b].stage) /\ (job[b].had <=> job[b].backup # None)
  BY <1>1 DEF IInv, TypeOK, JobFits, IsChecked, KeepsBackup
<1>3. /\ UNCHANGED <<outputVars, sourceVars, dist, abandoned, builds, lastBuilt, astray>>
      /\ builds' \in Nat /\ quiet' \subseteq Builder /\ astray' \in BOOLEAN
  BY DEF MoveInFails, histories, IInv, TypeOK
<1>4. faults' \in Nat
  BY FaultIsCounted DEF MoveInFails, IInv, TypeOK
<1>5. CASE job[b].had
  <2> DEFINE new == [job[b] EXCEPT !.pc = "restore"]
  <2>1. /\ new \in Jobs /\ new.pc = "restore" /\ new.backup = job[b].backup
        /\ new.stage = job[b].stage
    BY <1>2 DEF Jobs
  <2>2. job' = [job EXCEPT ![b] = new]
    BY <1>2, <1>5 DEF MoveInFails, Go
  <2> HIDE DEF new
  <2>3. JobFits(new)
    BY <1>1, <1>2, <1>5, <2>1
       DEF JobFits, KnowsManifest, HasShell, HasManifest, IsChecked, KeepsBackup
  <2>4. \A c \in Builder : /\ HasAside(c)' <=> HasAside(c)
                           /\ job'[c].backup = job[c].backup
    BY <1>1, <1>2, <2>1, <2>2 DEF HasAside
  <2>5. (~astray => OneHolder /\ LastIsSomewhere)'
    BY <1>3, <2>4 DEF IInv, OneHolder, LastIsSomewhere
  <2> QED
    BY <1>3, <1>4, <2>1, <2>2, <2>3, <2>5, ReplacingStep DEF IInv
<1>6. CASE ~ job[b].had
  <2>1. End(b) /\ ~ HasAside(b)
    BY <1>2, <1>6 DEF MoveInFails, HasAside
  <2> QED
    BY <1>3, <1>4, <2>1, EndIsLocal
<1> QED
  BY <1>5, <1>6

\* What the build had moved aside is dist again.
LEMMA RestoreKeeps ==
    ASSUME IInv, NEW b \in Builder, Restore(b)
    PROVE  IInv'
<1>1. job[b].pc = "restore" /\ dist = None
  BY DEF Restore
<1>2. /\ job \in [Builder -> Jobs] /\ JobFits(job[b])
      /\ job[b].backup # None /\ Artifact(job[b].backup) /\ HasAside(b)
  BY <1>1 DEF IInv, TypeOK, JobFits, KeepsBackup, HasAside
<1>3. /\ UNCHANGED <<outputVars, sourceVars, abandoned, builds, lastBuilt, astray>>
      /\ faults' \in Nat /\ quiet' \subseteq Builder /\ astray' \in BOOLEAN
      /\ dist' = job[b].backup
  BY DEF Restore, histories, IInv, TypeOK
<1>4. job' = [job EXCEPT ![b] = NoJob]
  BY DEF Restore, End
<1>5. ~ HasAside(b)' /\ \A c \in Builder : c # b => job'[c] = job[c]
  BY <1>2, <1>4 DEF HasAside, NoJob
<1>6. (~astray => OneHolder /\ LastIsSomewhere)'
  <2> SUFFICES ASSUME ~ astray'
               PROVE  OneHolder' /\ LastIsSomewhere'
    OBVIOUS
  <2>1. OneHolder /\ LastIsSomewhere
    BY <1>3 DEF IInv
  <2>2. \A c \in Builder : ~ HasAside(c)'
    BY <1>2, <1>5, <2>1 DEF OneHolder, HasAside
  <2>3. dist' = lastBuilt' /\ dist' # None
    BY <1>1, <1>2, <1>3, <2>1 DEF LastIsSomewhere
  <2> QED
    BY <2>2, <2>3 DEF OneHolder, LastIsSomewhere
<1> QED
  BY <1>2, <1>3, <1>4, <1>6, NoJobFits, ReplacingStep DEF IInv

\* A build ends and may leave what it had aside in its work directory.  The last artifact
\* is not lost by that, unless it was the one that had it and says so.
LEMMA LeavingStep ==
    ASSUME IInv, NEW b \in Builder, End(b),
           UNCHANGED <<outputVars, sourceVars, dist, builds, lastBuilt>>,
           faults' \in Nat, quiet' \subseteq Builder,
           astray' \in BOOLEAN, astray => astray',
           abandoned \subseteq abandoned',
           abandoned' \subseteq abandoned \union ({job[b].backup} \ {None}),
           HasAside(b) /\ dist = None => astray' \/ job[b].backup \in abandoned'
    PROVE  IInv'
<1>1. job \in [Builder -> Jobs] /\ JobFits(job[b])
  BY DEF IInv, TypeOK
<1>2. job' = [job EXCEPT ![b] = NoJob]
  BY DEF End
<1>3. ~ HasAside(b)' /\ \A c \in Builder : c # b => job'[c] = job[c]
  BY <1>1, <1>2 DEF HasAside, NoJob
<1>4. (~astray => OneHolder /\ LastIsSomewhere)'
  <2> SUFFICES ASSUME ~ astray'
               PROVE  OneHolder' /\ LastIsSomewhere'
    OBVIOUS
  <2>1. OneHolder /\ LastIsSomewhere
    BY DEF IInv
  <2>2. \A c \in Builder : HasAside(c)' => HasAside(c) /\ c # b /\ job'[c].backup = job[c].backup
    BY <1>3 DEF HasAside
  <2>3. ASSUME dist' = None, lastBuilt' # None, \A c \in Builder : ~ HasAside(c)'
        PROVE  lastBuilt' \in abandoned'
    <3>1. CASE HasAside(b)
      BY <2>1, <2>3, <3>1 DEF LastIsSomewhere
    <3>2. CASE ~ HasAside(b)
      <4>1. \A c \in Builder : ~ HasAside(c)
        BY <1>3, <2>3, <3>2 DEF HasAside
      <4> QED
        BY <2>1, <2>3, <4>1 DEF LastIsSomewhere
    <3> QED
      BY <3>1, <3>2
  <2>4. OneHolder'
    BY <2>1, <2>2 DEF OneHolder
  <2> QED
    BY <2>1, <2>2, <2>3, <2>4 DEF LastIsSomewhere
<1>5. \A a \in abandoned' : Artifact(a)
  BY <1>1 DEF IInv, JobFits, KeepsBackup
<1> QED
  BY <1>2, <1>4, <1>5, NoJobFits, ReplacingStep DEF IInv

\* The dist that cannot be put back is in the work directory, or it is astray.
LEMMA RestoreFailsKeeps ==
    ASSUME IInv, NEW b \in Builder, RestoreFails(b)
    PROVE  IInv'
<1>1. /\ UNCHANGED <<outputVars, sourceVars, dist, builds, lastBuilt>>
      /\ quiet' \subseteq Builder /\ astray \in BOOLEAN /\ End(b)
      /\ astray' = (astray \/ (dist = None /\ job[b].backup \notin abandoned'))
      /\ abandoned' \in {abandoned, abandoned \union ({job[b].backup} \ {None})}
  BY DEF RestoreFails, LeaveBackup, IInv, TypeOK
<1>2. faults' \in Nat
  BY FaultIsCounted DEF RestoreFails, IInv, TypeOK
<1>3. astray' \in BOOLEAN /\ (astray => astray')
  BY <1>1
<1>4. /\ abandoned \subseteq abandoned'
      /\ abandoned' \subseteq abandoned \union ({job[b].backup} \ {None})
  BY <1>1
<1>5. dist = None => astray' \/ job[b].backup \in abandoned'
  BY <1>1
<1> QED
  BY <1>1, <1>2, <1>3, <1>4, <1>5, LeavingStep

\* By the clean-up the build has put its own artifact in place.
LEMMA CleanUpFailsKeeps ==
    ASSUME IInv, NEW b \in Builder, CleanUpFails(b)
    PROVE  IInv'
<1>1. /\ UNCHANGED <<outputVars, sourceVars, dist, builds, lastBuilt, astray>>
      /\ quiet' \subseteq Builder /\ astray' \in BOOLEAN /\ End(b) /\ ~ HasAside(b)
      /\ abandoned' \in {abandoned, abandoned \union ({job[b].backup} \ {None})}
  BY DEF CleanUpFails, LeaveBackup, HasAside, histories, IInv, TypeOK
<1>2. faults' \in Nat
  BY FaultIsCounted DEF CleanUpFails
<1>3. /\ abandoned \subseteq abandoned'
      /\ abandoned' \subseteq abandoned \union ({job[b].backup} \ {None})
  BY <1>1
<1> QED
  BY <1>1, <1>2, <1>3, LeavingStep

\* What the killed build had aside stays in its work directory.
LEMMA KillKeeps ==
    ASSUME IInv, NEW b \in Builder, Kill(b)
    PROVE  IInv'
<1>1. /\ UNCHANGED <<outputVars, sourceVars, dist, builds, lastBuilt, astray>>
      /\ quiet' \subseteq Builder /\ astray' \in BOOLEAN /\ End(b)
  BY DEF Kill, histories, IInv, TypeOK
<1>2. faults' \in Nat
  BY FaultIsCounted DEF Kill
<1>3. /\ abandoned \subseteq abandoned'
      /\ abandoned' \subseteq abandoned \union ({job[b].backup} \ {None})
  BY DEF Kill, LeaveBackup
<1>4. HasAside(b) => job[b].backup \in abandoned'
  BY DEF Kill, HasAside
<1> QED
  BY <1>1, <1>2, <1>3, <1>4, LeavingStep

---------------------------------------------------------------------------------
(* Writers and editors, and the steps together. *)

\* What is written beside the builds is not what the invariant is about.
LEMMA BuildsUndisturbed ==
    ASSUME IInv, UNCHANGED buildVars, TypeOK'
    PROVE  IInv'
<1>1. UNCHANGED <<dist, job, abandoned, lastBuilt, astray>>
  BY DEF buildVars
<1>2. \A b \in Builder : HasAside(b)' <=> HasAside(b)
  BY <1>1 DEF HasAside
<1>3. (~astray => OneHolder /\ LastIsSomewhere)'
  BY <1>1, <1>2 DEF IInv, OneHolder, LastIsSomewhere
<1> QED
  BY <1>1, <1>3 DEF IInv

LEMMA StartWriteKeeps == IInv /\ StartWrite => IInv'
<1> SUFFICES ASSUME IInv, StartWrite PROVE IInv'
  OBVIOUS
<1>1. PICK t \in Targets, how \in {"writer", "git"} :
          writing' = [to |-> [index |-> t.index, refs |-> t.refs, gen |-> writes + 1],
                      how |-> how]
  BY DEF StartWrite
<1>2. writes \in Nat
  BY DEF IInv, TypeOK
<1>3. [index |-> t.index, refs |-> t.refs, gen |-> writes + 1] \in Manifests
  BY <1>2, DistributionAssumption DEF Manifests
<1>4. writing' \in [to : Manifests, how : {"writer", "git"}]
  BY <1>1, <1>3
<1>5. TypeOK'
  BY <1>4 DEF StartWrite, Disturb, sourceVars, buildVars, IInv, TypeOK
<1> QED
  BY <1>5, BuildsUndisturbed DEF StartWrite, Disturb

LEMMA WriteKeeps == IInv /\ Write => IInv'
<1> SUFFICES ASSUME IInv, Write PROVE IInv'
  OBVIOUS
<1>1. CASE StartWrite
  BY <1>1, StartWriteKeeps
<1>2. CASE WriteBlob
  <2>1. TypeOK'
    BY <1>2 DEF WriteBlob, Disturb, sourceVars, buildVars, IInv, TypeOK
  <2> QED
    BY <1>2, <2>1, BuildsUndisturbed DEF WriteBlob, Disturb
<1>3. CASE ReplaceManifest
  <2>1. manifest' \in Manifests
    BY <1>3 DEF ReplaceManifest, IInv, TypeOK
  <2>2. TypeOK'
    BY <1>3, <2>1 DEF ReplaceManifest, Disturb, sourceVars, buildVars, IInv, TypeOK
  <2> QED
    BY <1>3, <2>2, BuildsUndisturbed DEF ReplaceManifest, Disturb
<1>4. CASE RemoveBlob
  <2>1. TypeOK'
    BY <1>4 DEF RemoveBlob, Disturb, sourceVars, buildVars, IInv, TypeOK
  <2> QED
    BY <1>4, <2>1, BuildsUndisturbed DEF RemoveBlob, Disturb
<1>5. CASE EndWrite
  <2>1. faults' \in Nat
    BY <1>5, FaultIsCounted DEF EndWrite, IInv, TypeOK
  <2>2. TypeOK'
    BY <1>5, <2>1 DEF EndWrite, Disturb, sourceVars, buildVars, IInv, TypeOK
  <2> QED
    BY <1>5, <2>2, BuildsUndisturbed DEF EndWrite, Disturb
<1> QED
  BY <1>1, <1>2, <1>3, <1>4, <1>5 DEF Write

LEMMA EditKeeps == IInv /\ Edit => IInv'
<1> SUFFICES ASSUME IInv, Edit PROVE IInv'
  OBVIOUS
<1>1. TypeOK'
  BY DEF Edit, outputVars, buildVars, IInv, TypeOK
<1> QED
  BY <1>1, BuildsUndisturbed DEF Edit

---------------------------------------------------------------------------------
(* The inductive invariant. *)

LEMMA InitFits == Init => IInv
<1> SUFFICES ASSUME Init PROVE IInv
  OBVIOUS
<1>1. PICK m \in FirstManifests :
          /\ manifest = [index |-> m.index, refs |-> m.refs, gen |-> 0]
          /\ blobs = [o \in Blob |-> IF o \in m.refs THEN "whole" ELSE "absent"]
  BY DEF Init
<1>2. manifest \in Manifests /\ blobs \in [Blob -> {"absent", "partial", "whole"}]
  BY <1>1, DistributionAssumption DEF Manifests
<1>3. ASSUME dist # None
      PROVE  Artifact(dist)
  <2> DEFINE whole == [o \in manifest.refs |-> "whole"]
  <2>1. dist = Exact /\ Exact.assets \subseteq DOMAIN Imports[version] /\ version \in Version
    BY <1>3 DEF Init
  <2>2. whole \in UNION {[some -> {"partial", "whole"}] : some \in SUBSET Blob}
    BY <1>2 DEF Manifests
  <2> HIDE DEF whole
  <2>3. Exact = [assets |-> BrowserAssets(version), shell |-> version,
                 id |-> <<version, manifest>>, manifest |-> manifest, blobs |-> whole]
    BY DEF Exact, whole
  <2>4. BrowserAssets(version) \in SUBSET Modules
    BY DEF BrowserAssets
  <2>5. Exact \in Stages
    BY <1>2, <2>1, <2>2, <2>3, <2>4 DEF Stages
  <2> QED
    BY <1>2, <2>1, <2>3, <2>5 DEF Artifact, whole
<1>4. /\ writing = None /\ writes = 0 /\ version \in Version /\ edits = 0 /\ lastBuilt = dist
      /\ job = [b \in Builder |-> NoJob] /\ abandoned = {} /\ builds = 0 /\ faults = 0
      /\ quiet = {} /\ astray = FALSE
  BY DEF Init
<1>5. TypeOK
  BY <1>2, <1>3, <1>4, NoJobFits DEF TypeOK, Artifact
<1>6. \A b \in Builder : JobFits(job[b]) /\ ~ HasAside(b)
  BY <1>4, NoJobFits DEF HasAside, NoJob
<1> QED
  BY <1>3, <1>4, <1>5, <1>6 DEF IInv, OneHolder, LastIsSomewhere

LEMMA NextKeeps == IInv /\ [Next]_vars => IInv'
<1> SUFFICES ASSUME IInv, [Next]_vars PROVE IInv'
  OBVIOUS
<1>1. ASSUME NEW b \in Builder, StartBuild(b) PROVE IInv'
  BY <1>1, StartBuildKeeps
<1>2. ASSUME NEW b \in Builder, Inspect(b) PROVE IInv'
  BY <1>2, ListKeeps, ReadEnvelopeKeeps, CheckObjectKeeps, CheckStraysKeeps DEF Inspect
<1>3. ASSUME NEW b \in Builder, Copy(b) PROVE IInv'
  BY <1>3, CollectAssetsKeeps, IdentifyKeeps, CopyShellKeeps, CopyManifestKeeps, CopyBlobKeeps,
     CheckStageKeeps DEF Copy
<1>4. ASSUME NEW b \in Builder, Replace(b) PROVE IInv'
  BY <1>4, LookAtDistKeeps, MoveAsideKeeps, MoveInKeeps, MoveInFailsKeeps, RestoreKeeps,
     RestoreFailsKeeps, CleanUpKeeps, CleanUpFailsKeeps DEF Replace
<1>5. ASSUME NEW b \in Builder, Fail(b) \/ Kill(b) PROVE IInv'
  BY <1>5, FailKeeps, KillKeeps
<1>6. CASE Write
  BY <1>6, WriteKeeps
<1>7. CASE Edit
  BY <1>7, EditKeeps
<1>8. CASE UNCHANGED vars
  <2>1. UNCHANGED buildVars /\ TypeOK'
    BY <1>8 DEF vars, outputVars, sourceVars, buildVars, IInv, TypeOK
  <2> QED
    BY <2>1, BuildsUndisturbed
<1> QED
  BY <1>1, <1>2, <1>3, <1>4, <1>5, <1>6, <1>7, <1>8 DEF Next

\* The invariant from which the others follow: what a build that has got so far knows of
\* its copy, and where the last artifact is while no two builds cross and whatever is moved
\* aside can be put back, or is left where it is.
THEOREM InductiveInvariant == Spec => []IInv
BY InitFits, NextKeeps, PTL DEF Spec

\* Every variable keeps its type, the copies that the builds make included.
THEOREM TypeCorrect == Spec => []TypeOK
<1>1. IInv => TypeOK
  BY DEF IInv
<1> QED
  BY <1>1, InductiveInvariant, PTL

\* docs/ARCHITECTURE.md:25.  A dist with an object index has exactly the objects of its
\* own manifest, whole, whatever vault writers, git and other builds do meanwhile, and so
\* has every dist that a killed build leaves behind.
THEOREM PublishedDistIsWhole == Spec => []DistIsWhole
<1>1. IInv => DistIsWhole
  BY DEF IInv, DistIsWhole, Artifact
<1> QED
  BY <1>1, InductiveInvariant, PTL

\* docs/OPERATIONS.md:125, of builds that fail before their second rename has succeeded.
\* However many of them overlap, fail, are killed, or fail in the clean-up, dist is what was
\* put in place last, or it is missing and in the work directory of a build that stopped
\* between its renames.  The proviso is `astray': no build has moved a dist aside while
\* another one had one aside, and none has removed the dist that it could not put back.
THEOREM EarlyFailuresKeepDist == Spec => []EarlyFailureKeepsDist
<1>1. ASSUME IInv
      PROVE  EarlyFailureKeepsDist
  <2> SUFFICES ASSUME ~ astray, \A b \in Builder : job[b].pc \notin {"in", "restore"}
               PROVE  dist = lastBuilt \/ (dist = None /\ lastBuilt \in abandoned)
    BY DEF EarlyFailureKeepsDist
  <2>1. LastIsSomewhere /\ \A b \in Builder : ~ HasAside(b)
    BY <1>1 DEF IInv, HasAside
  <2> QED
    BY <2>1 DEF LastIsSomewhere
<1> QED
  BY <1>1, InductiveInvariant, PTL

\* With the same proviso, whatever fails and whoever is killed, the artifact that was put
\* in place last is somewhere at every moment: in dist, or with a build that moved it aside,
\* or in the work directory of one that was killed or could not put it back.
THEOREM LastArtifactSurvives == Spec => []LastBuildSurvives
<1>1. IInv => LastBuildSurvives
  BY DEF IInv, LastBuildSurvives, LastIsSomewhere, HasAside
<1> QED
  BY <1>1, InductiveInvariant, PTL

---------------------------------------------------------------------------------
(* A build that nothing disturbs. *)

\* A step of one build changes nothing of what a quiet build has read.
LEMMA QuietStep ==
    ASSUME IInv, QuietInv, NEW b \in Builder, NEW j \in Jobs, job' = [job EXCEPT ![b] = j],
           CopyIsEmpty(j), b \in quiet' => QuietFits(j),
           UNCHANGED <<outputVars, sourceVars>>,
           quiet' \subseteq quiet \union {b}, quiet' # {} => writing = None
    PROVE  QuietInv'
<1>1. job' \in [Builder -> Jobs] /\ job'[b] = j /\ \A c \in Builder : c # b => job'[c] = job[c]
  BY DEF IInv, TypeOK
<1>2. UNCHANGED <<manifest, blobs, writing, version>> /\ UNCHANGED Names
  BY DEF outputVars, sourceVars, Names
<1>3. BrowserAssets(version)' = BrowserAssets(version)
  BY <1>2
<1>4. \A k \in Jobs : QuietFits(k)' <=> QuietFits(k)
  BY <1>2, <1>3 DEF QuietFits
<1>5. \A c \in quiet' : job'[c] = j \/ (c \in quiet /\ job'[c] = job[c])
  BY <1>1 DEF IInv, TypeOK
<1>6. \A c \in quiet' : QuietFits(job[c])'
  BY <1>1, <1>4, <1>5 DEF QuietInv, IInv, TypeOK
<1> QED
  BY <1>1, <1>2, <1>6 DEF QuietInv, CopyIsEmpty

LEMMA EndIsQuiet ==
    ASSUME IInv, QuietInv, NEW b \in Builder, End(b),
           UNCHANGED <<outputVars, sourceVars, quiet>>
    PROVE  QuietInv'
<1>1. CopyIsEmpty(NoJob) /\ QuietFits(NoJob)
  BY DEF CopyIsEmpty, QuietFits, NoJob, NoStage
<1>2. job' = [job EXCEPT ![b] = NoJob] /\ (quiet' # {} => writing = None)
  BY DEF End, QuietInv
<1> QED
  BY <1>1, <1>2, NoJobFits, QuietStep

\* What is known of the record of a build, before it takes a step.
LEMMA QuietBefore ==
    ASSUME IInv, QuietInv, NEW b \in Builder
    PROVE  /\ job \in [Builder -> Jobs] /\ job[b] \in Jobs /\ JobFits(job[b])
           /\ CopyIsEmpty(job[b]) /\ (b \in quiet => QuietFits(job[b]))
           /\ quiet # {} => writing = None
           /\ manifest \in Manifests /\ version \in Version
           /\ blobs \in [Blob -> {"absent", "partial", "whole"}]
BY DEF IInv, TypeOK, QuietInv

LEMMA StartBuildIsQuiet ==
    ASSUME IInv, QuietInv, NEW b \in Builder, StartBuild(b)
    PROVE  QuietInv'
<1>1. job \in [Builder -> Jobs] /\ job[b] \in Jobs /\ CopyIsEmpty(job[b])
  BY QuietBefore
<1> DEFINE new == [job[b] EXCEPT !.pc = "list"]
<1>2. new \in Jobs /\ new.pc = "list" /\ new.stage = job[b].stage
  BY <1>1 DEF Jobs
<1>3. job' = [job EXCEPT ![b] = new]
  BY <1>1 DEF StartBuild, Go
<1> HIDE DEF new
<1>4. CopyIsEmpty(new) /\ QuietFits(new)
  BY <1>1, <1>2 DEF CopyIsEmpty, QuietFits, StartBuild
<1>5. /\ UNCHANGED <<outputVars, sourceVars>>
      /\ quiet' \subseteq quiet \union {b} /\ (quiet' # {} => writing = None)
  BY DEF StartBuild, QuietInv
<1> QED
  BY <1>2, <1>3, <1>4, <1>5, QuietStep

LEMMA InspectIsQuiet ==
    ASSUME IInv, QuietInv, NEW b \in Builder, Inspect(b)
    PROVE  QuietInv'
<1>1. /\ job \in [Builder -> Jobs] /\ job[b] \in Jobs /\ JobFits(job[b])
      /\ CopyIsEmpty(job[b]) /\ (b \in quiet => QuietFits(job[b]))
      /\ quiet # {} => writing = None
      /\ manifest \in Manifests /\ blobs \in [Blob -> {"absent", "partial", "whole"}]
  BY QuietBefore
<1>2. UNCHANGED <<outputVars, sourceVars, quiet>>
  BY DEF Inspect, List, ReadEnvelope, CheckObject, CheckStrays, histories
<1>3. CASE List(b)
  <2> DEFINE new == [job[b] EXCEPT !.pc = "envelope", !.names = Names]
  <2>1. /\ new \in Jobs /\ new.pc = "envelope" /\ new.names = Names
        /\ new.stage = job[b].stage
    BY <1>1 DEF Jobs, Names
  <2>2. job' = [job EXCEPT ![b] = new]
    BY <1>1, <1>3 DEF List
  <2> HIDE DEF new
  <2>3. CopyIsEmpty(new) /\ QuietFits(new)
    BY <1>1, <1>3, <2>1 DEF CopyIsEmpty, QuietFits, List
  <2> QED
    BY <1>1, <1>2, <2>1, <2>2, <2>3, QuietStep
<1>4. CASE ReadEnvelope(b)
  <2>1. job[b].pc = "envelope"
    BY <1>4 DEF ReadEnvelope
  <2>2. CASE manifest.index
    <3> DEFINE new == [job[b] EXCEPT !.pc = "objects", !.seen = manifest,
                                     !.todo = manifest.refs]
    <3>1. /\ new \in Jobs /\ new.pc = "objects" /\ new.seen = manifest
          /\ new.todo = manifest.refs /\ new.names = job[b].names /\ new.stage = job[b].stage
      BY <1>1 DEF Jobs, Manifests
    <3>2. job' = [job EXCEPT ![b] = new]
      BY <1>1, <1>4, <2>2 DEF ReadEnvelope
    <3> HIDE DEF new
    <3>3. CopyIsEmpty(new) /\ (b \in quiet => QuietFits(new))
      BY <1>1, <2>1, <2>2, <3>1 DEF CopyIsEmpty, QuietFits
    <3> QED
      BY <1>1, <1>2, <3>1, <3>2, <3>3, QuietStep
  <2>3. CASE ~ manifest.index
    <3> DEFINE seen == [manifest EXCEPT !.refs = job[b].names]
               new == [job[b] EXCEPT !.pc = "assets", !.seen = seen]
    <3>1. seen \in Manifests /\ seen.refs = job[b].names
      BY <1>1 DEF Jobs, Manifests
    <3>2. /\ new \in Jobs /\ new.pc = "assets" /\ new.seen = seen
          /\ new.names = job[b].names /\ new.stage = job[b].stage
      BY <1>1, <3>1 DEF Jobs
    <3>3. job' = [job EXCEPT ![b] = new]
      BY <1>1, <1>4, <2>3 DEF ReadEnvelope
    <3> HIDE DEF new, seen
    <3>4. CopyIsEmpty(new) /\ (b \in quiet => QuietFits(new))
      BY <1>1, <2>1, <3>1, <3>2 DEF CopyIsEmpty, QuietFits
    <3> QED
      BY <1>1, <1>2, <3>2, <3>3, <3>4, QuietStep
  <2> QED
    BY <2>2, <2>3
<1>5. CASE CheckObject(b)
  <2> DEFINE o == Min(job[b].todo)
  <2>1. job[b].pc = "objects"
    BY <1>5 DEF CheckObject
  <2>2. CASE blobs[o] = "whole"
    <3> DEFINE new == [job[b] EXCEPT !.todo = @ \ {o}]
    <3>1. /\ new \in Jobs /\ new.pc = "objects" /\ new.seen = job[b].seen
          /\ new.todo = job[b].todo \ {o} /\ new.names = job[b].names
          /\ new.stage = job[b].stage
      BY <1>1, <2>1 DEF Jobs
    <3>2. job' = [job EXCEPT ![b] = new]
      BY <1>1, <1>5, <2>2 DEF CheckObject
    <3> HIDE DEF new, o
    <3>3. CopyIsEmpty(new) /\ (b \in quiet => QuietFits(new))
      BY <1>1, <2>1, <2>2, <3>1 DEF CopyIsEmpty, QuietFits
    <3> QED
      BY <1>1, <1>2, <3>1, <3>2, <3>3, QuietStep
  <2>3. CASE blobs[o] # "whole"
    BY <1>2, <1>5, <2>3, EndIsQuiet DEF CheckObject
  <2> QED
    BY <2>2, <2>3
<1>6. CASE CheckStrays(b)
  <2>1. job[b].pc = "objects" /\ job[b].todo = {}
    BY <1>6 DEF CheckStrays
  <2>2. CASE job[b].names \subseteq job[b].seen.refs
    <3> DEFINE new == [job[b] EXCEPT !.pc = "assets"]
    <3>1. /\ new \in Jobs /\ new.pc = "assets" /\ new.seen = job[b].seen
          /\ new.names = job[b].names /\ new.stage = job[b].stage
      BY <1>1 DEF Jobs
    <3>2. job' = [job EXCEPT ![b] = new]
      BY <1>1, <1>6, <2>2 DEF CheckStrays, Go
    <3> HIDE DEF new
    <3>3. ASSUME b \in quiet PROVE job[b].seen.refs = Names
      <4>1. /\ job[b].seen = manifest /\ job[b].names = Names
            /\ \A o \in manifest.refs : blobs[o] = "whole"
        BY <1>1, <2>1, <3>3 DEF QuietFits
      <4>2. manifest.refs \subseteq Names
        BY <1>1, <4>1 DEF Names, Manifests
      <4> QED
        BY <2>2, <4>1, <4>2
    <3>4. CopyIsEmpty(new) /\ (b \in quiet => QuietFits(new))
      BY <1>1, <2>1, <3>1, <3>3 DEF CopyIsEmpty, QuietFits
    <3> QED
      BY <1>1, <1>2, <3>1, <3>2, <3>4, QuietStep
  <2>3. CASE ~ (job[b].names \subseteq job[b].seen.refs)
    BY <1>2, <1>6, <2>3, EndIsQuiet DEF CheckStrays
  <2> QED
    BY <2>2, <2>3
<1> QED
  BY <1>3, <1>4, <1>5, <1>6 DEF Inspect

LEMMA CopyIsQuiet ==
    ASSUME IInv, QuietInv, NEW b \in Builder, Copy(b)
    PROVE  QuietInv'
<1>1. /\ job \in [Builder -> Jobs] /\ job[b] \in Jobs /\ JobFits(job[b])
      /\ CopyIsEmpty(job[b]) /\ (b \in quiet => QuietFits(job[b]))
      /\ quiet # {} => writing = None
      /\ manifest \in Manifests /\ version \in Version
      /\ blobs \in [Blob -> {"absent", "partial", "whole"}]
  BY QuietBefore
<1>2. UNCHANGED <<outputVars, sourceVars, quiet>>
  BY DEF Copy, CollectAssets, Identify, CopyShell, CopyManifest, CopyBlob, CheckStage, histories
<1>3. job[b].stage \in Stages
  BY <1>1 DEF Jobs
<1>4. CASE CollectAssets(b)
  <2> DEFINE assets == BrowserAssets(version)
  <2>1. job[b].pc = "assets"
    BY <1>4 DEF CollectAssets
  <2>2. CASE assets \subseteq DOMAIN Imports[version]
    <3> DEFINE stage == [job[b].stage EXCEPT !.assets = assets]
               new == [job[b] EXCEPT !.pc = "identity", !.stage = stage]
    <3>1. assets \in SUBSET Modules
      BY DEF BrowserAssets
    <3> HIDE DEF assets
    <3>2. stage \in Stages /\ stage.assets = assets /\ stage.blobs = job[b].stage.blobs
      BY <1>3, <3>1 DEF Stages
    <3>3. /\ new \in Jobs /\ new.pc = "identity" /\ new.seen = job[b].seen
          /\ new.names = job[b].names /\ new.stage = stage
      BY <1>1, <3>2 DEF Jobs
    <3>4. job' = [job EXCEPT ![b] = new]
      <4>1. job' = [job EXCEPT ![b].pc = "identity", ![b].stage.assets = assets]
        BY <1>4, <2>2 DEF CollectAssets, assets
      <4> QED
        BY <1>1, <4>1
    <3> HIDE DEF new, stage
    <3>5. CopyIsEmpty(new) /\ (b \in quiet => QuietFits(new))
      BY <1>1, <2>1, <2>2, <3>2, <3>3 DEF CopyIsEmpty, QuietFits, assets
    <3> QED
      BY <1>1, <1>2, <3>3, <3>4, <3>5, QuietStep
  <2>3. CASE ~ (assets \subseteq DOMAIN Imports[version])
    BY <1>2, <1>4, <2>3, EndIsQuiet DEF CollectAssets
  <2> QED
    BY <2>2, <2>3
<1>5. CASE Identify(b)
  <2>1. job[b].pc = "identity"
    BY <1>5 DEF Identify
  <2>2. CASE Present(b)
    <3> DEFINE stage == [job[b].stage EXCEPT !.id = <<version, manifest>>]
               new == [job[b] EXCEPT !.pc = "shell", !.stage = stage]
    <3>1. /\ stage \in Stages /\ stage.id = <<version, manifest>>
          /\ stage.assets = job[b].stage.assets /\ stage.blobs = job[b].stage.blobs
      BY <1>1, <1>3 DEF Stages
    <3>2. /\ new \in Jobs /\ new.pc = "shell" /\ new.seen = job[b].seen
          /\ new.names = job[b].names /\ new.stage = stage
      BY <1>1, <3>1 DEF Jobs
    <3>3. job' = [job EXCEPT ![b] = new]
      <4>1. job' = [job EXCEPT ![b].pc = "shell", ![b].stage.id = <<version, manifest>>]
        BY <1>5, <2>2 DEF Identify
      <4> QED
        BY <1>1, <4>1
    <3> HIDE DEF new, stage
    <3>4. CopyIsEmpty(new) /\ (b \in quiet => QuietFits(new))
      BY <1>1, <2>1, <3>1, <3>2 DEF CopyIsEmpty, QuietFits
    <3> QED
      BY <1>1, <1>2, <3>2, <3>3, <3>4, QuietStep
  <2>3. CASE ~ Present(b)
    BY <1>2, <1>5, <2>3, EndIsQuiet DEF Identify
  <2> QED
    BY <2>2, <2>3
<1>6. CASE CopyShell(b)
  <2>1. job[b].pc = "shell"
    BY <1>6 DEF CopyShell
  <2>2. CASE Present(b)
    <3> DEFINE stage == [job[b].stage EXCEPT !.shell = version]
               new == [job[b] EXCEPT !.pc = "manifest", !.stage = stage]
    <3>1. /\ stage \in Stages /\ stage.id = job[b].stage.id /\ stage.shell = version
          /\ stage.assets = job[b].stage.assets /\ stage.blobs = job[b].stage.blobs
      BY <1>1, <1>3 DEF Stages
    <3>2. /\ new \in Jobs /\ new.pc = "manifest" /\ new.seen = job[b].seen
          /\ new.names = job[b].names /\ new.stage = stage
      BY <1>1, <3>1 DEF Jobs
    <3>3. job' = [job EXCEPT ![b] = new]
      <4>1. job' = [job EXCEPT ![b].pc = "manifest", ![b].stage.shell = version]
        BY <1>6, <2>2 DEF CopyShell
      <4> QED
        BY <1>1, <4>1
    <3> HIDE DEF new, stage
    <3>4. CopyIsEmpty(new) /\ (b \in quiet => QuietFits(new))
      BY <1>1, <2>1, <3>1, <3>2 DEF CopyIsEmpty, QuietFits
    <3> QED
      BY <1>1, <1>2, <3>2, <3>3, <3>4, QuietStep
  <2>3. CASE ~ Present(b)
    BY <1>2, <1>6, <2>3, EndIsQuiet DEF CopyShell
  <2> QED
    BY <2>2, <2>3
<1>7. CASE CopyManifest(b)
  <2> DEFINE stage == [job[b].stage EXCEPT !.manifest = manifest]
             new == [job[b] EXCEPT !.pc = "blobs", !.stage = stage, !.todo = job[b].seen.refs]
  <2>1. job[b].pc = "manifest"
    BY <1>7 DEF CopyManifest
  <2>2. /\ stage \in Stages /\ stage.id = job[b].stage.id /\ stage.manifest = manifest
        /\ stage.shell = job[b].stage.shell
        /\ stage.assets = job[b].stage.assets /\ stage.blobs = job[b].stage.blobs
    BY <1>1, <1>3 DEF Stages
  <2>3. job[b].seen.refs \subseteq Blob
    BY <1>1, <2>1 DEF JobFits, KnowsManifest, Manifests
  <2>4. /\ new \in Jobs /\ new.pc = "blobs" /\ new.todo = job[b].seen.refs
        /\ new.names = job[b].names /\ new.stage = stage
    BY <1>1, <2>2, <2>3 DEF Jobs
  <2>5. job' = [job EXCEPT ![b] = new]
    BY <1>1, <1>7 DEF CopyManifest
  <2> HIDE DEF new, stage
  <2>6. CopyIsEmpty(new) /\ (b \in quiet => QuietFits(new))
    BY <1>1, <2>1, <2>2, <2>4 DEF CopyIsEmpty, QuietFits
  <2> QED
    BY <1>1, <1>2, <2>4, <2>5, <2>6, QuietStep
<1>8. CASE CopyBlob(b)
  <2> DEFINE o == Min(job[b].todo)
  <2>1. job[b].pc = "blobs" /\ o \in job[b].todo /\ o \in Blob
    BY <1>1, <1>8, MinIsMember DEF CopyBlob, Jobs
  <2>2. CASE blobs[o] # "absent"
    <3> DEFINE before == job[b].stage.blobs
               copied == DOMAIN before \union {o}
               copy == [p \in copied |-> IF p = o THEN blobs[o] ELSE before[p]]
               stage == [job[b].stage EXCEPT !.blobs = copy]
               new == [job[b] EXCEPT !.todo = @ \ {o}, !.stage = stage]
    <3>1. PICK some \in SUBSET Blob : before \in [some -> {"partial", "whole"}]
      BY <1>3 DEF Stages
    <3>2. /\ copied \in SUBSET Blob /\ copy \in [copied -> {"partial", "whole"}]
          /\ DOMAIN copy = DOMAIN before \union {o}
      BY <1>1, <2>1, <2>2, <3>1
    <3> HIDE DEF copied, copy
    <3>3. copy \in UNION {[rest -> {"partial", "whole"}] : rest \in SUBSET Blob}
      BY <3>2
    <3>4. /\ stage \in Stages /\ stage.id = job[b].stage.id /\ stage.blobs = copy
          /\ stage.manifest = job[b].stage.manifest
          /\ stage.shell = job[b].stage.shell /\ stage.assets = job[b].stage.assets
      BY <1>3, <3>3 DEF Stages
    <3>5. /\ new \in Jobs /\ new.pc = "blobs" /\ new.todo = job[b].todo \ {o}
          /\ new.names = job[b].names /\ new.stage = stage
      BY <1>1, <2>1, <3>4 DEF Jobs
    <3>6. job' = [job EXCEPT ![b] = new]
      <4>1. job' = [job EXCEPT ![b].todo = @ \ {o}, ![b].stage.blobs = copy]
        BY <1>8, <2>2 DEF CopyBlob, copy, copied
      <4> QED
        BY <1>1, <4>1
    <3> HIDE DEF new, stage, o
    <3>7. CopyIsEmpty(new) /\ (b \in quiet => QuietFits(new))
      BY <1>1, <2>1, <3>2, <3>4, <3>5 DEF CopyIsEmpty, QuietFits
    <3> QED
      BY <1>1, <1>2, <3>5, <3>6, <3>7, QuietStep
  <2>3. CASE blobs[o] = "absent"
    BY <1>2, <1>8, <2>3, EndIsQuiet DEF CopyBlob
  <2> QED
    BY <2>2, <2>3
<1>9. CASE CheckStage(b)
  <2>1. job[b].pc = "blobs" /\ job[b].todo = {}
    BY <1>9 DEF CheckStage
  <2>2. CASE Verified(job[b].stage)
    <3> DEFINE new == [job[b] EXCEPT !.pc = "look"]
    <3>1. /\ new \in Jobs /\ new.pc = "look" /\ new.names = job[b].names
          /\ new.stage = job[b].stage
      BY <1>1 DEF Jobs
    <3>2. job' = [job EXCEPT ![b] = new]
      BY <1>1, <1>9, <2>2 DEF CheckStage, Go
    <3> HIDE DEF new
    <3>3. CopyIsEmpty(new) /\ (b \in quiet => QuietFits(new))
      BY <1>1, <2>1, <3>1 DEF CopyIsEmpty, QuietFits
    <3> QED
      BY <1>1, <1>2, <3>1, <3>2, <3>3, QuietStep
  <2>3. CASE ~ Verified(job[b].stage)
    BY <1>2, <1>9, <2>3, EndIsQuiet DEF CheckStage
  <2> QED
    BY <2>2, <2>3
<1> QED
  BY <1>4, <1>5, <1>6, <1>7, <1>8, <1>9 DEF Copy

LEMMA ReplaceIsQuiet ==
    ASSUME IInv, QuietInv, NEW b \in Builder, Replace(b)
    PROVE  QuietInv'
<1>1. /\ job \in [Builder -> Jobs] /\ job[b] \in Jobs /\ JobFits(job[b])
      /\ CopyIsEmpty(job[b]) /\ (b \in quiet => QuietFits(job[b]))
      /\ quiet # {} => writing = None
  BY QuietBefore
<1>2. UNCHANGED <<outputVars, sourceVars, quiet>>
  BY DEF Replace, LookAtDist, MoveAside, MoveIn, MoveInFails, Restore, RestoreFails, CleanUp,
         CleanUpFails, histories
<1>3. CASE LookAtDist(b)
  <2> DEFINE had == dist # None
             new == [job[b] EXCEPT !.had = had, !.pc = IF had THEN "aside" ELSE "in"]
  <2>1. /\ new \in Jobs /\ new.pc \in {"aside", "in"}
        /\ new.names = job[b].names /\ new.stage = job[b].stage
    BY <1>1 DEF Jobs
  <2>2. job' = [job EXCEPT ![b] = new]
    BY <1>1, <1>3 DEF LookAtDist
  <2> HIDE DEF new
  <2>3. CopyIsEmpty(new) /\ (b \in quiet => QuietFits(new))
    BY <1>1, <1>3, <2>1 DEF CopyIsEmpty, QuietFits, LookAtDist
  <2> QED
    BY <1>1, <1>2, <2>1, <2>2, <2>3, QuietStep
<1>4. CASE MoveAside(b)
  <2>1. CASE dist = None
    BY <1>2, <1>4, <2>1, EndIsQuiet DEF MoveAside
  <2>2. CASE dist # None
    <3> DEFINE new == [job[b] EXCEPT !.pc = "in", !.backup = dist]
    <3>1. dist \in Stages
      BY <2>2 DEF IInv, TypeOK
    <3>2. new \in Jobs /\ new.pc = "in" /\ new.names = job[b].names /\ new.stage = job[b].stage
      BY <1>1, <3>1 DEF Jobs
    <3>3. job' = [job EXCEPT ![b] = new]
      BY <1>1, <1>4, <2>2 DEF MoveAside
    <3> HIDE DEF new
    <3>4. CopyIsEmpty(new) /\ (b \in quiet => QuietFits(new))
      BY <1>1, <1>4, <3>2 DEF CopyIsEmpty, QuietFits, MoveAside
    <3> QED
      BY <1>1, <1>2, <3>2, <3>3, <3>4, QuietStep
  <2> QED
    BY <2>1, <2>2
<1>5. ASSUME Go(b, "clean") \/ Go(b, "restore"), job[b].pc = "in"
      PROVE  QuietInv'
  <2>1. PICK pc \in {"clean", "restore"} : Go(b, pc)
    BY <1>5
  <2> DEFINE new == [job[b] EXCEPT !.pc = pc]
  <2>2. new \in Jobs /\ new.pc = pc /\ new.names = job[b].names
    BY <1>1 DEF Jobs
  <2>3. job' = [job EXCEPT ![b] = new]
    BY <1>1, <2>1 DEF Go
  <2> HIDE DEF new
  <2>4. CopyIsEmpty(new) /\ (b \in quiet => QuietFits(new))
    BY <1>1, <1>5, <2>2 DEF CopyIsEmpty, QuietFits
  <2> QED
    BY <1>1, <1>2, <2>2, <2>3, <2>4, QuietStep
<1>6. CASE MoveIn(b) \/ MoveInFails(b)
  BY <1>2, <1>5, <1>6, EndIsQuiet DEF MoveIn, MoveInFails
<1>7. CASE Restore(b) \/ RestoreFails(b) \/ CleanUp(b) \/ CleanUpFails(b)
  BY <1>2, <1>7, EndIsQuiet DEF Restore, RestoreFails, CleanUp, CleanUpFails
<1> QED
  BY <1>3, <1>4, <1>6, <1>7 DEF Replace

\* Writers and editors leave nobody undisturbed.
LEMMA DisturbedIsQuiet ==
    ASSUME QuietInv, UNCHANGED job, quiet' = {}
    PROVE  QuietInv'
BY DEF QuietInv, CopyIsEmpty

LEMMA NextIsQuiet == IInv /\ QuietInv /\ [Next]_vars => QuietInv'
<1> SUFFICES ASSUME IInv, QuietInv, [Next]_vars PROVE QuietInv'
  OBVIOUS
<1>1. ASSUME NEW b \in Builder, StartBuild(b) \/ Inspect(b) \/ Copy(b) \/ Replace(b)
      PROVE  QuietInv'
  BY <1>1, StartBuildIsQuiet, InspectIsQuiet, CopyIsQuiet, ReplaceIsQuiet
<1>2. ASSUME NEW b \in Builder, Fail(b) \/ Kill(b)
      PROVE  QuietInv'
  BY <1>2, EndIsQuiet DEF Fail, Kill, histories
<1>3. CASE Write \/ Edit
  BY <1>3, DisturbedIsQuiet DEF Write, StartWrite, WriteBlob, ReplaceManifest, RemoveBlob, EndWrite,
     Disturb, buildVars, Edit
<1>4. CASE UNCHANGED vars
  <2>1. UNCHANGED <<job, quiet, writing, manifest, blobs, version>>
    BY <1>4 DEF vars, outputVars, sourceVars, buildVars
  <2>2. UNCHANGED Names /\ BrowserAssets(version)' = BrowserAssets(version)
    BY <2>1 DEF Names
  <2> QED
    BY <2>1, <2>2 DEF QuietInv, CopyIsEmpty, QuietFits
<1> QED
  BY <1>1, <1>2, <1>3, <1>4 DEF Next

\* What a build has read is what is there, as long as nothing has changed since it began.
THEOREM QuietInvariant == Spec => []QuietInv
<1>1. Init => QuietInv
  BY DEF Init, QuietInv, CopyIsEmpty, NoJob, NoStage
<1> QED
  BY <1>1, NextIsQuiet, InductiveInvariant, PTL DEF Spec

\* A build that nothing disturbs, as in CI, publishes the sources and the vault that are
\* there, under an identity that was taken from the same bytes.
THEOREM UndisturbedBuildIsExact == Spec => QuietBuildIsExact
<1>1. ASSUME IInv, QuietInv, NEW b \in Builder, MoveIn(b), b \in quiet
      PROVE  LET a == dist'
             IN  /\ a.shell = version /\ a.manifest = manifest /\ a.id = <<version, manifest>>
                 /\ DOMAIN a.blobs = Names
                 /\ \A m \in a.assets : Imports[version][m] \subseteq a.assets
  <2>1. dist' = job[b].stage /\ job[b].pc = "in" /\ version \in Version
    BY <1>1 DEF MoveIn, IInv, TypeOK
  <2>2. /\ job[b].stage.shell = version /\ job[b].stage.manifest = manifest
        /\ job[b].stage.id = <<version, manifest>> /\ DOMAIN job[b].stage.blobs = Names
        /\ job[b].stage.assets = BrowserAssets(version)
        /\ BrowserAssets(version) \subseteq DOMAIN Imports[version]
    BY <1>1, <2>1 DEF QuietInv, QuietFits
  <2>3. \A m \in BrowserAssets(version) : Imports[version][m] \subseteq BrowserAssets(version)
    BY <2>1, <2>2, WalkIsComplete
  <2> QED
    BY <2>1, <2>2, <2>3
<1>2. IInv /\ QuietInv /\ [Next]_vars =>
        [\A b \in Builder : MoveIn(b) /\ b \in quiet =>
           LET a == dist'
           IN  /\ a.shell = version /\ a.manifest = manifest /\ a.id = <<version, manifest>>
               /\ DOMAIN a.blobs = Names
               /\ \A m \in a.assets : Imports[version][m] \subseteq a.assets]_vars
  BY <1>1
<1> QED
  BY <1>2, InductiveInvariant, QuietInvariant, PTL DEF Spec, QuietBuildIsExact
=================================================================================
