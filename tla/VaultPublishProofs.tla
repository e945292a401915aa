---------------------------- MODULE VaultPublishProofs ----------------------------
(***************************************************************************)
(* Proofs about VaultPublish, for every set of writers, blobs and manifest *)
(* identities and for every value of the bounds.                           *)
(***************************************************************************)
EXTENDS VaultPublish, FiniteSetTheorems, TLAPS

---------------------------------------------------------------------------------
(* Typing. *)

\* A fresh manifest identity is one of the identities there are.
LEMMA FreshIdsAreIds == FreshIds \subseteq ManifestId
<1>1. CASE UnusedIds = {}
  BY <1>1 DEF FreshIds
<1>2. CASE UnusedIds # {}
  <2>1. (CHOOSE id \in UnusedIds : TRUE) \in UnusedIds
    BY <1>2
  <2>2. UnusedIds \subseteq ManifestId
    BY DEF UnusedIds
  <2>. QED
    BY <1>2, <2>1, <2>2 DEF FreshIds
<1>. QED
  BY <1>1, <1>2

\* The blobs a run makes are blobs.
LEMMA NewBlobsAreBlobs == \A N \in NewBlobSets : N \subseteq Blob
  BY DEF NewBlobSets, FreshBlobs

\* A v2 manifest made of an identity, a revision and blobs has its type.
LEMMA V2IsManifest ==
  ASSUME NEW id \in ManifestId, NEW rev \in Nat, NEW refs \in SUBSET Blob
  PROVE  V2(id, rev, refs) \in Manifest
  BY DEF V2, Manifest

\* The local state of a writer at rest has the type of a run.
LEMMA NoRunIsRun == NoRun \in Run
  BY DEF NoRun, Run, NoManifest, Manifest

\* Publishing begins with a well-typed run when what it was planned from is well typed.
LEMMA BeginPublishType ==
  ASSUME TypeOK, NEW w \in Writer,
         NEW base \in Manifest, NEW target \in Manifest,
         NEW add \in SUBSET Blob, NEW remove \in SUBSET Blob,
         NEW committed \in BOOLEAN,
         BeginPublish(w, base, target, add, remove, committed)
  PROVE  TypeOK'
<1>1. run' \in [Writer -> Run]
  BY DEF BeginPublish, TypeOK, Run
<1>2. pc' \in [Writer -> Phase]
  BY DEF BeginPublish, TypeOK, Phase
<1>. QED
  BY <1>1, <1>2 DEF BeginPublish, TypeOK

\* A refusal keeps the types.
LEMMA RefuseType ==
  ASSUME TypeOK, NEW w \in Writer, Refuse(w)
  PROVE  TypeOK'
  BY DEF Refuse, TypeOK, Phase

\* Every directory a first run may find is well typed.
LEMMA InitType == Init => TypeOK
<1>. SUFFICES ASSUME Init PROVE TypeOK
  OBVIOUS
<1>1. (CHOOSE id \in ManifestId : TRUE) \in ManifestId
  BY VaultAssumption
<1>2. manifest \in Manifest
  BY <1>1 DEF Init, Manifest, NoManifest, V1, V2
<1>3. run \in [Writer -> Run]
  BY NoRunIsRun DEF Init
<1>4. pc \in [Writer -> Phase]
  BY DEF Init, Phase
<1>5. blobs \subseteq Blob
  BY <1>2 DEF Init, Manifest
<1>. QED
  BY <1>2, <1>3, <1>4, <1>5 DEF Init, InitLock, TypeOK, LockStates

\* The steps of encrypt_files keep the types.
LEMMA EncryptStepType ==
  ASSUME TypeOK, NEW w \in Writer, EncryptStep(w)
  PROVE  TypeOK'
<1>. run[w] \in Run /\ run[w].base \in Manifest
  BY DEF TypeOK, Run
<1>1. CASE LoadVault(w)
  <2>1. run' \in [Writer -> Run]
    BY <1>1 DEF LoadVault, TypeOK, Run
  <2>2. pc' \in [Writer -> Phase]
    BY <1>1 DEF LoadVault, TypeOK, Phase
  <2>. QED
    BY <1>1, <2>1, <2>2 DEF LoadVault, TypeOK
<1>2. CASE Recovered(w)
  BY <1>2 DEF Recovered, TypeOK, Phase
<1>3. CASE PlanInitial(w)
  <2>1. CASE Refuse(w)
    BY <2>1, RefuseType
  <2>2. ASSUME NEW N \in NewBlobSets, NEW id \in FreshIds,
               BeginPublish(w, run[w].base, V2(id, 1, N), N, {}, FALSE)
        PROVE  TypeOK'
    <3>1. V2(id, 1, N) \in Manifest
      BY V2IsManifest, FreshIdsAreIds, NewBlobsAreBlobs
    <3>. QED
      BY <2>2, <3>1, BeginPublishType, NewBlobsAreBlobs
  <2>. QED
    BY <1>3, <2>1, <2>2 DEF PlanInitial
<1>4. CASE PlanMigration(w)
  <2>1. CASE Refuse(w)
    BY <2>1, RefuseType
  <2>2. ASSUME NEW N \in NewBlobSets, NEW id \in FreshIds,
               BeginPublish(w, run[w].base, V2(id, 1, N), N, {}, FALSE)
        PROVE  TypeOK'
    <3>1. V2(id, 1, N) \in Manifest
      BY V2IsManifest, FreshIdsAreIds, NewBlobsAreBlobs
    <3>. QED
      BY <2>2, <3>1, BeginPublishType, NewBlobsAreBlobs
  <2>. QED
    BY <1>4, <2>1, <2>2 DEF PlanMigration
<1>5. CASE PlanUpdate(w)
  <2>1. CASE Refuse(w)
    BY <2>1, RefuseType
  <2>2. ASSUME NEW R \in SUBSET run[w].base.refs, NEW N \in NewBlobSets, NEW id \in FreshIds,
               BeginPublish(w, run[w].base, V2(id, run[w].base.rev + 1, R \union N),
                            N, {}, FALSE)
        PROVE  TypeOK'
    <3>1. R \union N \subseteq Blob /\ run[w].base.rev + 1 \in Nat
      BY NewBlobsAreBlobs DEF Manifest
    <3>2. V2(id, run[w].base.rev + 1, R \union N) \in Manifest
      BY <3>1, V2IsManifest, FreshIdsAreIds
    <3>. QED
      BY <2>2, <3>2, BeginPublishType, NewBlobsAreBlobs
  <2>. QED
    BY <1>5, <2>1, <2>2 DEF PlanUpdate
<1>. QED
  BY <1>1, <1>2, <1>3, <1>4, <1>5 DEF EncryptStep

\* The validation of a package keeps the types.
LEMMA ApplyStepType ==
  ASSUME TypeOK, NEW w \in Writer, ApplyStep(w)
  PROVE  TypeOK'
<1>1. CASE Refuse(w)
  BY <1>1, RefuseType
<1>2. ASSUME NEW p \in packages,
             BeginPublish(w, manifest, p.target, p.add, p.remove, IsRecovery(p))
      PROVE  TypeOK'
  <2>1. p \in Package
    BY DEF TypeOK
  <2>2. /\ p.target \in Manifest
        /\ p.add \in SUBSET Blob
        /\ p.remove \in SUBSET Blob
        /\ manifest \in Manifest
    BY <2>1 DEF Package, TypeOK
  <2>3. IsRecovery(p) \in BOOLEAN
    BY DEF IsRecovery
  <2>. QED
    BY <1>2, <2>2, <2>3, BeginPublishType
<1>. QED
  BY <1>1, <1>2 DEF ApplyStep, ValidatePackage

\* The link, record, commit, delete, rollback and release steps keep the types.
LEMMA PublishStepType ==
  ASSUME TypeOK, NEW w \in Writer, PublishStep(w)
  PROVE  TypeOK'
<1>. run[w] \in Run /\ run[w].target \in Manifest
  BY DEF TypeOK, Run
<1>1. ASSUME NEW b \in Blob, LinkBlob(w, b)
      PROVE  TypeOK'
  <2>1. run' \in [Writer -> Run]
    BY <1>1 DEF LinkBlob, TypeOK, Run
  <2>2. pc' \in [Writer -> Phase] /\ blobs' \subseteq Blob
    BY <1>1 DEF LinkBlob, TypeOK, Phase
  <2>. QED
    BY <1>1, <2>1, <2>2 DEF LinkBlob, TypeOK
<1>2. ASSUME NEW b \in Blob, DeleteBlob(w, b)
      PROVE  TypeOK'
  <2>1. run' \in [Writer -> Run]
    BY <1>2 DEF DeleteBlob, TypeOK, Run
  <2>. QED
    BY <1>2, <2>1 DEF DeleteBlob, TypeOK
<1>3. ASSUME NEW b \in Blob, RollbackBlob(w, b)
      PROVE  TypeOK'
  <2>1. run' \in [Writer -> Run]
    BY <1>3 DEF RollbackBlob, TypeOK, Run
  <2>. QED
    BY <1>3, <2>1 DEF RollbackBlob, TypeOK
<1>4. CASE RecordBlob(w)
  <2>1. run' \in [Writer -> Run]
    BY <1>4 DEF RecordBlob, TypeOK, Run
  <2>2. pc' \in [Writer -> Phase]
    BY <1>4 DEF RecordBlob, TypeOK, Phase
  <2>. QED
    BY <1>4, <2>1, <2>2 DEF RecordBlob, TypeOK
<1>5. CASE Commit(w)
  <2>1. run[w].remove \in SUBSET Blob /\ blobs \ run[w].target.refs \in SUBSET Blob
    BY DEF TypeOK, Run
  <2>2. run' \in [Writer -> Run]
    BY <1>5, <2>1 DEF Commit, TypeOK, Run
  <2>3. pc' \in [Writer -> Phase] /\ manifest' \in Manifest
    BY <1>5 DEF Commit, TypeOK, Phase
  <2>. QED
    BY <1>5, <2>2, <2>3 DEF Commit, TypeOK
<1>6. CASE Finish(w)
  BY <1>6 DEF Finish, TypeOK, Phase
<1>7. CASE RolledBack(w)
  BY <1>7 DEF RolledBack, TypeOK, Phase
<1>8. CASE Release(w)
  <2>1. run' \in [Writer -> Run]
    BY <1>8, NoRunIsRun DEF Release, TypeOK
  <2>. QED
    BY <1>8, <2>1 DEF Release, ReleaseLock, LockStates, TypeOK, Phase
<1>. QED
  BY <1>1, <1>2, <1>3, <1>4, <1>5, <1>6, <1>7, <1>8 DEF PublishStep

\* Starts, packages, exceptions, kills and the cleared lock keep the types.
LEMMA OtherStepType ==
  ASSUME TypeOK,
         \/ \E w \in Writer : StartEncrypt(w) \/ StartApply(w) \/ Fail(w) \/ Kill(w)
         \/ MakePackage
         \/ ClearAbandonedLock
  PROVE  TypeOK'
<1>1. ASSUME NEW w \in Writer, StartEncrypt(w)
      PROVE  TypeOK'
  <2>1. [NoRun EXCEPT !.op = "encrypt"] \in Run
    BY NoRunIsRun DEF Run
  <2>. QED
    BY <1>1, <2>1 DEF StartEncrypt, AcquireLock, LockStates, TypeOK, Phase
<1>2. ASSUME NEW w \in Writer, StartApply(w)
      PROVE  TypeOK'
  <2>1. [NoRun EXCEPT !.op = "apply"] \in Run
    BY NoRunIsRun DEF Run
  <2>. QED
    BY <1>2, <2>1 DEF StartApply, AcquireLock, LockStates, TypeOK, Phase
<1>3. ASSUME NEW w \in Writer, Fail(w)
      PROVE  TypeOK'
  BY <1>3 DEF Fail, TypeOK, Phase
<1>4. ASSUME NEW w \in Writer, Kill(w)
      PROVE  TypeOK'
  BY <1>4, NoRunIsRun DEF Kill, AbandonLock, LockStates, TypeOK, Phase
<1>5. ASSUME MakePackage
      PROVE  TypeOK'
  <2>1. PICK R \in SUBSET manifest.refs, N \in NewBlobSets \ {{}}, id \in FreshIds :
          packages' = packages \union
              {[base |-> manifest.id, baseRev |-> manifest.rev,
                target |-> V2(id, manifest.rev + 1, R \union N),
                add |-> N, remove |-> manifest.refs \ R]}
    BY <1>5 DEF MakePackage
  <2>2. manifest.rev \in Nat /\ manifest.refs \in SUBSET Blob
        /\ manifest.id \in ManifestId \union {NoId}
    BY DEF TypeOK, Manifest
  <2>3. N \in SUBSET Blob /\ R \union N \in SUBSET Blob /\ manifest.rev + 1 \in Nat
    BY <2>2, NewBlobsAreBlobs
  <2>4. V2(id, manifest.rev + 1, R \union N) \in Manifest
    BY <2>3, V2IsManifest, FreshIdsAreIds
  <2>5. packages' \subseteq Package
    BY <2>1, <2>2, <2>3, <2>4 DEF TypeOK, Package
  <2>. QED
    BY <1>5, <2>5 DEF MakePackage, TypeOK
<1>6. ASSUME ClearAbandonedLock
      PROVE  TypeOK'
  BY <1>6 DEF ClearAbandonedLock, RemoveAbandonedLock, LockStates, TypeOK
<1>. QED
  BY <1>1, <1>2, <1>3, <1>4, <1>5, <1>6

\* TypeOK is inductive by itself.
LEMMA NextType == TypeOK /\ [Next]_vars => TypeOK'
<1>. SUFFICES ASSUME TypeOK, [Next]_vars PROVE TypeOK'
  OBVIOUS
<1>1. CASE UNCHANGED vars
  BY <1>1 DEF vars, TypeOK
<1>2. ASSUME NEW w \in Writer, RunStep(w) PROVE TypeOK'
  BY <1>2, EncryptStepType, ApplyStepType, PublishStepType DEF RunStep
<1>. QED
  BY <1>1, <1>2, OtherStepType DEF Next

\* Every variable keeps its type.
THEOREM TypeCorrect == Spec => []TypeOK
  BY InitType, NextType, PTL DEF Spec

---------------------------------------------------------------------------------
(* The inductive invariant. *)

\* A writer between runs satisfies its part of the invariant.
LEMMA RestingRunInv ==
  ASSUME NEW v \in Writer, pc'[v] = "idle", run'[v] = NoRun
  PROVE  RunInv(v)'
  BY DEF RunInv, Reading, Publishing, Cleaning, Uncommitted, Resting, NoRun

\* While one writer is in a run, or the lock is not held, all others rest.
LEMMA OthersRest ==
  ASSUME IInv, NEW w \in Writer, NEW v \in Writer, v # w,
         pc[w] # "idle" \/ lock \notin Writer
  PROVE  pc[v] = "idle" /\ run[v] = NoRun
  BY DEF IInv, LockHeld, RunInv, Resting

\* A step inside the run of w: it is enough to look at w and at the directory.
LEMMA StepOfOneRun ==
  ASSUME IInv, NEW w \in Writer, pc[w] # "idle", TypeOK',
         lock' = lock, packages' = packages,
         pc' = [pc EXCEPT ![w] = pc'[w]],
         run' = [run EXCEPT ![w] = run'[w]],
         manifest' = manifest \/ Succeeds(manifest', manifest),
         ReferencedBlobsPresent',
         RunInv(w)'
  PROVE  IInv'
<1>1. ASSUME NEW v \in Writer, v # w
      PROVE  pc'[v] = "idle" /\ run'[v] = NoRun
  BY <1>1, OthersRest DEF IInv, TypeOK
<1>2. LockHeld'
  BY <1>1 DEF IInv, LockHeld
<1>3. PackagesConsistent'
  BY DEF IInv, PackagesConsistent
<1>4. PackageBases'
  <2>1. CASE manifest' = manifest
    BY <2>1 DEF IInv, PackageBases
  <2>2. CASE Succeeds(manifest', manifest)
    <3>1. \A p \in packages : p.baseRev \in Nat
      BY DEF IInv, TypeOK, Package
    <3>2. manifest.rev \in Nat
      BY DEF IInv, TypeOK, Manifest
    <3>. QED
      BY <2>2, <3>1, <3>2 DEF Succeeds, IInv, PackageBases
  <2>. QED
    BY <2>1, <2>2
<1>5. \A v \in Writer : RunInv(v)'
  BY <1>1, RestingRunInv
<1>. QED
  BY <1>2, <1>3, <1>4, <1>5 DEF IInv

\* When publishing begins, the target is covered by the directory and the staged blobs.
LEMMA BeginPublishInv ==
  ASSUME IInv, NEW w \in Writer, pc[w] # "idle", TypeOK',
         NEW target \in Manifest,
         NEW add \in SUBSET Blob, NEW remove \in SUBSET Blob, NEW committed \in BOOLEAN,
         BeginPublish(w, manifest, target, add, remove, committed),
         remove \intersect target.refs = {},
         target.refs \subseteq blobs \union add,
         run[w].op = "apply" => blobs \union add \subseteq target.refs \union remove,
         committed => run[w].op = "apply" /\ target = manifest,
         ~committed => Succeeds(target, manifest),
         ~committed /\ run[w].op = "apply" =>
             \E p \in packages : p.target = target /\ p.baseRev = manifest.rev
  PROVE  IInv'
<1>1. pc' = [pc EXCEPT ![w] = pc'[w]] /\ pc'[w] = "publish"
  BY DEF BeginPublish, IInv, TypeOK
<1>2. /\ run' = [run EXCEPT ![w] = run'[w]]
      /\ run'[w] = [op |-> run[w].op, base |-> manifest, target |-> target, todo |-> add,
                    remove |-> remove, published |-> {}, pending |-> {},
                    committed |-> committed, built |-> TRUE, before |-> blobs]
  BY DEF BeginPublish, IInv, TypeOK
<1>3. ReferencedBlobsPresent'
  BY DEF BeginPublish, IInv, ReferencedBlobsPresent
<1>4. RunInv(w)'
  <2>. USE <1>1, <1>2 DEF BeginPublish
  <2>1. Reading(w)'
    BY DEF Reading
  <2>2. Publishing(w)'
    BY DEF RunInv, Publishing, IInv, ReferencedBlobsPresent
  <2>3. Cleaning(w)'
    BY DEF RunInv, Cleaning, IInv, ReferencedBlobsPresent
  <2>4. Uncommitted(w)'
    BY DEF RunInv, Uncommitted, IInv, ReferencedBlobsPresent
  <2>5. Resting(w)'
    BY DEF RunInv, Resting
  <2>. QED
    BY <2>1, <2>2, <2>3, <2>4, <2>5 DEF RunInv
<1>. QED
  BY <1>1, <1>2, <1>3, <1>4, StepOfOneRun DEF BeginPublish

\* A run that refuses to go on has changed nothing.
LEMMA RefuseInv ==
  ASSUME IInv, NEW w \in Writer, pc[w] \in {"plan", "validate"}, TypeOK', Refuse(w)
  PROVE  IInv'
<1>1. pc' = [pc EXCEPT ![w] = pc'[w]] /\ pc'[w] = "release"
  BY DEF Refuse, IInv, TypeOK
<1>2. run' = [run EXCEPT ![w] = run'[w]] /\ run'[w] = run[w]
  BY DEF Refuse, IInv, TypeOK
<1>3. ReferencedBlobsPresent'
  BY DEF Refuse, IInv, ReferencedBlobsPresent
<1>4. RunInv(w)'
  <2>. USE <1>1, <1>2 DEF Refuse
  <2>1. Reading(w)'
    BY DEF RunInv, Reading, IInv
  <2>2. Publishing(w)'
    BY DEF RunInv, Publishing, IInv
  <2>3. Cleaning(w)'
    BY DEF RunInv, Cleaning, IInv
  <2>4. Uncommitted(w)'
    BY DEF RunInv, Uncommitted, IInv
  <2>5. Resting(w)'
    BY DEF RunInv, Resting
  <2>. QED
    BY <2>1, <2>2, <2>3, <2>4, <2>5 DEF RunInv
<1>. QED
  BY <1>1, <1>2, <1>3, <1>4, StepOfOneRun DEF Refuse

\* Every step of encrypt_files before its staged generation is complete.
LEMMA EncryptStepInv ==
  ASSUME IInv, NEW w \in Writer, EncryptStep(w), TypeOK'
  PROVE  IInv'
<1>. TypeOK /\ RunInv(w) /\ run[w] \in Run /\ run[w].base \in Manifest
  BY DEF IInv, TypeOK, Run
<1>1. CASE LoadVault(w)
  <2>1. pc' = [pc EXCEPT ![w] = pc'[w]]
        /\ pc'[w] = IF manifest.kind = "v2" THEN "recover" ELSE "plan"
    BY <1>1 DEF LoadVault, TypeOK
  <2>2. /\ run' = [run EXCEPT ![w] = run'[w]]
        /\ run'[w] = [run[w] EXCEPT !.base = manifest,
                          !.todo = IF manifest.kind = "v2" THEN blobs \ manifest.refs ELSE {}]
    BY <1>1 DEF LoadVault, TypeOK
  <2>3. ReferencedBlobsPresent'
    BY <1>1 DEF LoadVault, IInv, ReferencedBlobsPresent
  <2>4. RunInv(w)'
    <3>. USE <1>1, <2>1, <2>2 DEF LoadVault, TypeOK, Run
    <3>1. Reading(w)'
      BY DEF RunInv, Reading
    <3>2. Publishing(w)'
      BY DEF RunInv, Publishing
    <3>3. Cleaning(w)'
      BY DEF RunInv, Cleaning
    <3>4. Uncommitted(w)'
      BY DEF RunInv, Uncommitted
    <3>5. Resting(w)'
      BY DEF RunInv, Resting
    <3>. QED
      BY <3>1, <3>2, <3>3, <3>4, <3>5 DEF RunInv
  <2>. QED
    BY <1>1, <2>1, <2>2, <2>3, <2>4, StepOfOneRun DEF LoadVault
<1>2. CASE Recovered(w)
  <2>1. pc' = [pc EXCEPT ![w] = pc'[w]] /\ pc'[w] \in {"plan", "release"}
    BY <1>2 DEF Recovered, TypeOK
  <2>2. run' = [run EXCEPT ![w] = run'[w]] /\ run'[w] = run[w]
    BY <1>2 DEF Recovered, TypeOK
  <2>3. ReferencedBlobsPresent'
    BY <1>2 DEF Recovered, IInv, ReferencedBlobsPresent
  <2>4. RunInv(w)'
    <3>. USE <1>2, <2>1, <2>2 DEF Recovered
    <3>1. Reading(w)'
      BY DEF RunInv, Reading
    <3>2. Publishing(w)'
      BY DEF RunInv, Publishing
    <3>3. Cleaning(w)'
      BY DEF RunInv, Cleaning
    <3>4. Uncommitted(w)'
      BY DEF RunInv, Uncommitted
    <3>5. Resting(w)'
      BY DEF RunInv, Resting
    <3>. QED
      BY <3>1, <3>2, <3>3, <3>4, <3>5 DEF RunInv
  <2>. QED
    BY <1>2, <2>1, <2>2, <2>3, <2>4, StepOfOneRun DEF Recovered
<1>3. CASE PlanInitial(w)
  <2>1. pc[w] = "plan" /\ run[w].base = manifest /\ run[w].op = "encrypt"
    BY <1>3 DEF PlanInitial, RunInv, Reading
  <2>2. CASE Refuse(w)
    BY <2>1, <2>2, RefuseInv
  <2>3. ASSUME NEW N \in NewBlobSets, NEW id \in FreshIds, blobs = {},
               BeginPublish(w, run[w].base, V2(id, 1, N), N, {}, FALSE)
        PROVE  IInv'
    <3>1. V2(id, 1, N) \in Manifest /\ N \in SUBSET Blob
      BY V2IsManifest, FreshIdsAreIds, NewBlobsAreBlobs
    <3>2. V2(id, 1, N).refs = N
      BY DEF V2
    <3>3. Succeeds(V2(id, 1, N), manifest)
      BY <1>3, <2>1 DEF PlanInitial, Succeeds, V2
    <3>. QED
      BY <2>1, <2>3, <3>1, <3>2, <3>3, BeginPublishInv
  <2>. QED
    BY <1>3, <2>2, <2>3 DEF PlanInitial
<1>4. CASE PlanMigration(w)
  <2>1. pc[w] = "plan" /\ run[w].base = manifest /\ run[w].op = "encrypt"
    BY <1>4 DEF PlanMigration, RunInv, Reading
  <2>2. CASE Refuse(w)
    BY <2>1, <2>2, RefuseInv
  <2>3. ASSUME NEW N \in NewBlobSets, NEW id \in FreshIds,
               Cardinality(N) = Cardinality(run[w].base.refs),
               BeginPublish(w, run[w].base, V2(id, 1, N), N, {}, FALSE)
        PROVE  IInv'
    <3>1. V2(id, 1, N) \in Manifest /\ N \in SUBSET Blob
      BY V2IsManifest, FreshIdsAreIds, NewBlobsAreBlobs
    <3>2. V2(id, 1, N).refs = N
      BY DEF V2
    <3>3. N \intersect manifest.refs = {}
      BY DEF NewBlobSets, FreshBlobs
    <3>4. Succeeds(V2(id, 1, N), manifest)
      BY <1>4, <2>1, <2>3, <3>3 DEF PlanMigration, Succeeds, V2
    <3>. QED
      BY <2>1, <2>3, <3>1, <3>2, <3>4, BeginPublishInv
  <2>. QED
    BY <1>4, <2>2, <2>3 DEF PlanMigration
<1>5. CASE PlanUpdate(w)
  <2>1. pc[w] = "plan" /\ run[w].base = manifest /\ run[w].op = "encrypt"
    BY <1>5 DEF PlanUpdate, RunInv, Reading
  <2>2. CASE Refuse(w)
    BY <2>1, <2>2, RefuseInv
  <2>3. ASSUME NEW R \in SUBSET run[w].base.refs, NEW N \in NewBlobSets, NEW id \in FreshIds,
               R \subseteq blobs,
               BeginPublish(w, run[w].base, V2(id, run[w].base.rev + 1, R \union N),
                            N, {}, FALSE)
        PROVE  IInv'
    <3>. DEFINE t == V2(id, run[w].base.rev + 1, R \union N)
    <3>1. R \union N \in SUBSET Blob /\ N \in SUBSET Blob /\ run[w].base.rev + 1 \in Nat
      BY NewBlobsAreBlobs DEF Manifest
    <3>2. t \in Manifest
      BY <3>1, V2IsManifest, FreshIdsAreIds
    <3>3. t.refs = R \union N
      BY DEF V2
    <3>4. BeginPublish(w, manifest, t, N, {}, FALSE)
      BY <2>1, <2>3
    <3>5. t.refs \subseteq blobs \union N
      BY <2>3, <3>3
    <3>6. Succeeds(t, manifest)
      BY <1>5, <2>1 DEF PlanUpdate, Succeeds, V2
    <3>. HIDE DEF t
    <3>. QED
      BY <2>1, <3>1, <3>2, <3>4, <3>5, <3>6, BeginPublishInv
  <2>. QED
    BY <1>5, <2>2, <2>3 DEF PlanUpdate
<1>. QED
  BY <1>1, <1>2, <1>3, <1>4, <1>5 DEF EncryptStep

\* The checks of apply_update: a package that passes them names every blob of
\* the directory.
LEMMA ApplyStepInv ==
  ASSUME IInv, NEW w \in Writer, ApplyStep(w), TypeOK'
  PROVE  IInv'
<1>1. pc[w] = "validate"
  BY DEF ApplyStep, ValidatePackage
<1>2. CASE Refuse(w)
  BY <1>1, <1>2, RefuseInv
<1>3. ASSUME NEW p \in packages, Applicable(p),
             BeginPublish(w, manifest, p.target, p.add, p.remove, IsRecovery(p))
      PROVE  IInv'
  <2>1. /\ p.target \in Manifest
        /\ p.add \in SUBSET Blob
        /\ p.remove \in SUBSET Blob
    BY DEF IInv, TypeOK, Package
  <2>2. manifest.refs \subseteq blobs /\ blobs \subseteq manifest.refs \union p.add \union p.remove
    BY <1>3 DEF Applicable
  <2>3. p.remove \intersect p.target.refs = {}
    BY DEF IInv, PackagesConsistent
  <2>4. run[w].op = "apply"
    BY <1>1 DEF IInv, RunInv, Reading
  <2>5. CASE IsRecovery(p)
    <3>1. p.target = manifest /\ p.add \subseteq p.target.refs
      BY <1>3, <2>5 DEF Applicable, IsRecovery
    <3>2. /\ p.target.refs \subseteq blobs \union p.add
          /\ blobs \union p.add \subseteq p.target.refs \union p.remove
      BY <2>2, <3>1
    <3>3. BeginPublish(w, manifest, p.target, p.add, p.remove, TRUE)
      BY <1>3, <2>5
    <3>. QED
      BY <1>1, <2>1, <2>3, <2>4, <3>1, <3>2, <3>3, BeginPublishInv
  <2>6. CASE ~IsRecovery(p)
    <3>1. p.add = p.target.refs \ manifest.refs /\ p.remove = manifest.refs \ p.target.refs
      BY <1>3, <2>6 DEF Applicable
    <3>2. /\ p.target.refs \subseteq blobs \union p.add
          /\ blobs \union p.add \subseteq p.target.refs \union p.remove
      BY <2>2, <3>1
    <3>3. BeginPublish(w, manifest, p.target, p.add, p.remove, FALSE)
      BY <1>3, <2>6 DEF IsRecovery
    <3>4. Succeeds(p.target, manifest)
      BY <1>3, <2>6 DEF Applicable, Succeeds, IInv, PackagesConsistent
    <3>5. p.baseRev = manifest.rev
      BY <1>3, <2>6 DEF Applicable
    <3>. QED
      BY <1>1, <2>1, <2>3, <2>4, <3>2, <3>3, <3>4, <3>5, BeginPublishInv
  <2>. QED
    BY <2>5, <2>6
<1>. QED
  BY <1>2, <1>3 DEF ApplyStep, ValidatePackage

\* The link, record, commit, delete and rollback steps: what is linked is
\* accounted for, what is deleted is not referenced.
LEMMA PublishStepInv ==
  ASSUME IInv, NEW w \in Writer, PublishStep(w), ~Release(w), TypeOK'
  PROVE  IInv'
<1>. TypeOK /\ RunInv(w) /\ run[w] \in Run
  BY DEF IInv, TypeOK
<1>1. ASSUME NEW b \in Blob, LinkBlob(w, b)
      PROVE  IInv'
  <2>1. pc' = [pc EXCEPT ![w] = pc'[w]] /\ pc'[w] = IF b \in blobs THEN "publish" ELSE "sync"
    BY <1>1 DEF LinkBlob, TypeOK
  <2>2. /\ run' = [run EXCEPT ![w] = run'[w]]
        /\ run'[w] = IF b \in blobs THEN [run[w] EXCEPT !.todo = @ \ {b}]
                    ELSE [run[w] EXCEPT !.todo = @ \ {b}, !.pending = {b}]
    BY <1>1 DEF LinkBlob, TypeOK
  <2>3. ReferencedBlobsPresent'
    BY <1>1 DEF LinkBlob, RunInv, Reading, Publishing, Cleaning, Uncommitted, Resting,
             IInv, ReferencedBlobsPresent
  <2>4. RunInv(w)'
    <3>. USE <1>1, <2>1, <2>2 DEF LinkBlob, TypeOK, Run
    <3>1. Reading(w)'
      BY DEF RunInv, Reading, IInv, ReferencedBlobsPresent
    <3>2. Publishing(w)'
      BY DEF RunInv, Publishing, IInv, ReferencedBlobsPresent
    <3>3. Cleaning(w)'
      BY DEF RunInv, Cleaning, IInv, ReferencedBlobsPresent
    <3>4. Uncommitted(w)'
      BY DEF RunInv, Uncommitted, IInv, ReferencedBlobsPresent
    <3>5. Resting(w)'
      BY DEF RunInv, Resting
    <3>. QED
      BY <3>1, <3>2, <3>3, <3>4, <3>5 DEF RunInv
  <2>. QED
    BY <1>1, <2>1, <2>2, <2>3, <2>4, StepOfOneRun DEF LinkBlob
<1>2. ASSUME NEW b \in Blob, DeleteBlob(w, b)
      PROVE  IInv'
  <2>1. pc' = [pc EXCEPT ![w] = pc'[w]] /\ pc'[w] = pc[w]
    BY <1>2 DEF DeleteBlob, TypeOK
  <2>2. /\ run' = [run EXCEPT ![w] = run'[w]]
        /\ run'[w] = [run[w] EXCEPT !.todo = @ \ {b}]
    BY <1>2 DEF DeleteBlob, TypeOK
  <2>3. ReferencedBlobsPresent'
    BY <1>2 DEF DeleteBlob, RunInv, Reading, Publishing, Cleaning, Uncommitted, Resting,
             IInv, ReferencedBlobsPresent
  <2>4. RunInv(w)'
    <3>6. /\ run'[w].op = run[w].op /\ run'[w].base = run[w].base
          /\ run'[w].target = run[w].target /\ run'[w].remove = run[w].remove
          /\ run'[w].committed = run[w].committed /\ run'[w].built = run[w].built
          /\ run'[w].before = run[w].before /\ run'[w].published = run[w].published
          /\ run'[w].pending = run[w].pending
          /\ run'[w].todo = run[w].todo \ {b}
      BY <2>2 DEF Run
    <3>7. /\ manifest' = manifest /\ blobs' = blobs \ {b} /\ packages' = packages
          /\ pc[w] \in {"clean", "recover"} /\ ~(run[w].built /\ ~run[w].committed)
      BY <1>2 DEF DeleteBlob, RunInv, Reading, Cleaning, Publishing
    <3>1. Reading(w)'
      BY <2>1, <3>6, <3>7 DEF RunInv, Reading
    <3>2. Publishing(w)'
      BY <2>1, <3>6, <3>7 DEF RunInv, Publishing
    <3>3. Cleaning(w)'
      BY <2>1, <3>6, <3>7 DEF RunInv, Cleaning
    <3>4. Uncommitted(w)'
      BY <2>1, <3>6, <3>7 DEF RunInv, Uncommitted
    <3>5. Resting(w)'
      BY <2>1, <3>6, <3>7 DEF RunInv, Resting
    <3>. QED
      BY <3>1, <3>2, <3>3, <3>4, <3>5 DEF RunInv
  <2>. QED
    BY <1>2, <2>1, <2>2, <2>3, <2>4, StepOfOneRun DEF DeleteBlob
<1>3. ASSUME NEW b \in Blob, RollbackBlob(w, b)
      PROVE  IInv'
  <2>1. pc' = [pc EXCEPT ![w] = pc'[w]] /\ pc'[w] = "rollback"
    BY <1>3 DEF RollbackBlob, TypeOK
  <2>2. /\ run' = [run EXCEPT ![w] = run'[w]]
        /\ run'[w] = [run[w] EXCEPT !.published = @ \ {b}]
    BY <1>3 DEF RollbackBlob, TypeOK
  <2>3. ReferencedBlobsPresent'
    BY <1>3 DEF RollbackBlob, RunInv, Reading, Publishing, Cleaning, Uncommitted, Resting,
             IInv, ReferencedBlobsPresent
  <2>4. RunInv(w)'
    <3>. USE <1>3, <2>1, <2>2 DEF RollbackBlob, TypeOK, Run
    <3>1. Reading(w)'
      BY DEF RunInv, Reading, IInv, ReferencedBlobsPresent
    <3>2. Publishing(w)'
      BY DEF RunInv, Publishing, IInv, ReferencedBlobsPresent
    <3>3. Cleaning(w)'
      BY DEF RunInv, Cleaning, IInv, ReferencedBlobsPresent
    <3>4. Uncommitted(w)'
      BY DEF RunInv, Uncommitted, IInv, ReferencedBlobsPresent
    <3>5. Resting(w)'
      BY DEF RunInv, Resting
    <3>. QED
      BY <3>1, <3>2, <3>3, <3>4, <3>5 DEF RunInv
  <2>. QED
    BY <1>3, <2>1, <2>2, <2>3, <2>4, StepOfOneRun DEF RollbackBlob
<1>4. CASE RecordBlob(w)
  <2>1. pc' = [pc EXCEPT ![w] = pc'[w]] /\ pc'[w] = "publish"
    BY <1>4 DEF RecordBlob, TypeOK
  <2>2. /\ run' = [run EXCEPT ![w] = run'[w]]
        /\ run'[w] = [run[w] EXCEPT !.published = @ \union run[w].pending, !.pending = {}]
    BY <1>4 DEF RecordBlob, TypeOK
  <2>3. ReferencedBlobsPresent'
    BY <1>4 DEF RecordBlob, RunInv, Reading, Publishing, Cleaning, Uncommitted, Resting,
             IInv, ReferencedBlobsPresent
  <2>4. RunInv(w)'
    <3>6. /\ run'[w].op = run[w].op /\ run'[w].base = run[w].base
          /\ run'[w].target = run[w].target /\ run'[w].remove = run[w].remove
          /\ run'[w].committed = run[w].committed /\ run'[w].built = run[w].built
          /\ run'[w].before = run[w].before /\ run'[w].todo = run[w].todo
          /\ run'[w].published = run[w].published \union run[w].pending /\ run'[w].pending = {}
      BY <2>2 DEF Run
    <3>7. manifest' = manifest /\ blobs' = blobs /\ packages' = packages /\ pc[w] = "sync"
      BY <1>4 DEF RecordBlob, RunInv, Reading, Cleaning, Publishing
    <3>1. Reading(w)'
      BY <2>1, <3>6, <3>7 DEF RunInv, Reading
    <3>2. Publishing(w)'
      BY <2>1, <3>6, <3>7 DEF RunInv, Publishing
    <3>3. Cleaning(w)'
      BY <2>1, <3>6, <3>7 DEF RunInv, Cleaning
    <3>4. Uncommitted(w)'
      BY <2>1, <3>6, <3>7 DEF RunInv, Uncommitted
    <3>5. Resting(w)'
      BY <2>1, <3>6, <3>7 DEF RunInv, Resting
    <3>. QED
      BY <3>1, <3>2, <3>3, <3>4, <3>5 DEF RunInv
  <2>. QED
    BY <1>4, <2>1, <2>2, <2>3, <2>4, StepOfOneRun DEF RecordBlob
<1>5. CASE Commit(w)
  <2>1. pc' = [pc EXCEPT ![w] = pc'[w]] /\ pc'[w] = "clean"
    BY <1>5 DEF Commit, TypeOK
  <2>2. /\ run' = [run EXCEPT ![w] = run'[w]]
        /\ run'[w] = [run[w] EXCEPT !.committed = TRUE,
                        !.todo = IF run[w].op = "encrypt" THEN blobs \ run[w].target.refs
                                                         ELSE run[w].remove]
    BY <1>5 DEF Commit, TypeOK
  <2>3. ReferencedBlobsPresent'
    BY <1>5 DEF Commit, RunInv, Reading, Publishing, Cleaning, Uncommitted, Resting,
             IInv, ReferencedBlobsPresent
  <2>4. RunInv(w)'
    <3>6. /\ run'[w].op = run[w].op /\ run'[w].base = run[w].base
          /\ run'[w].target = run[w].target /\ run'[w].remove = run[w].remove
          /\ run'[w].built = run[w].built /\ run'[w].before = run[w].before
          /\ run'[w].published = run[w].published /\ run'[w].pending = run[w].pending
          /\ run'[w].committed
          /\ run'[w].todo = IF run[w].op = "encrypt" THEN blobs \ run[w].target.refs
                                                   ELSE run[w].remove
      BY <2>2 DEF Run
    <3>7. /\ manifest' = run[w].target /\ blobs' = blobs /\ packages' = packages
          /\ pc[w] = "publish" /\ run[w].todo = {} /\ run[w].op \in {"encrypt", "apply"}
      <4>1. run[w].op \in {"encrypt", "apply"}
        BY DEF Run
      <4>2. run[w].committed => run[w].target = manifest
        BY <1>5 DEF Commit, RunInv, Publishing
      <4>. QED
        BY <1>5, <4>1, <4>2 DEF Commit
    <3>1. Reading(w)'
      BY <2>1, <3>6, <3>7 DEF RunInv, Reading
    <3>2. Publishing(w)'
      BY <2>1, <3>6, <3>7 DEF RunInv, Publishing
    <3>3. Cleaning(w)'
      BY <2>1, <3>6, <3>7 DEF RunInv, Cleaning, Publishing
    <3>4. Uncommitted(w)'
      BY <2>1, <3>6, <3>7 DEF RunInv, Uncommitted
    <3>5. Resting(w)'
      BY <2>1, <3>6, <3>7 DEF RunInv, Resting
    <3>. QED
      BY <3>1, <3>2, <3>3, <3>4, <3>5 DEF RunInv
  <2>. QED
    <3>1. manifest' = manifest \/ Succeeds(manifest', manifest)
      BY <1>5 DEF Commit, RunInv, Publishing
    <3>. QED
      BY <1>5, <2>1, <2>2, <2>3, <2>4, <3>1, StepOfOneRun DEF Commit
<1>6. CASE Finish(w)
  <2>1. pc' = [pc EXCEPT ![w] = pc'[w]] /\ pc'[w] = "release"
    BY <1>6 DEF Finish, TypeOK
  <2>2. /\ run' = [run EXCEPT ![w] = run'[w]]
        /\ run'[w] = run[w]
    BY <1>6 DEF Finish, TypeOK
  <2>3. ReferencedBlobsPresent'
    BY <1>6 DEF Finish, RunInv, Reading, Publishing, Cleaning, Uncommitted, Resting,
             IInv, ReferencedBlobsPresent
  <2>4. RunInv(w)'
    <3>. USE <1>6, <2>1, <2>2 DEF Finish, TypeOK, Run
    <3>1. Reading(w)'
      BY DEF RunInv, Reading, IInv, ReferencedBlobsPresent
    <3>2. Publishing(w)'
      BY DEF RunInv, Publishing, IInv, ReferencedBlobsPresent
    <3>3. Cleaning(w)'
      BY DEF RunInv, Cleaning, IInv, ReferencedBlobsPresent
    <3>4. Uncommitted(w)'
      BY DEF RunInv, Uncommitted, IInv, ReferencedBlobsPresent
    <3>5. Resting(w)'
      BY DEF RunInv, Resting
    <3>. QED
      BY <3>1, <3>2, <3>3, <3>4, <3>5 DEF RunInv
  <2>. QED
    BY <1>6, <2>1, <2>2, <2>3, <2>4, StepOfOneRun DEF Finish
<1>7. CASE RolledBack(w)
  <2>1. pc' = [pc EXCEPT ![w] = pc'[w]] /\ pc'[w] = "release"
    BY <1>7 DEF RolledBack, TypeOK
  <2>2. /\ run' = [run EXCEPT ![w] = run'[w]]
        /\ run'[w] = run[w]
    BY <1>7 DEF RolledBack, TypeOK
  <2>3. ReferencedBlobsPresent'
    BY <1>7 DEF RolledBack, RunInv, Reading, Publishing, Cleaning, Uncommitted, Resting,
             IInv, ReferencedBlobsPresent
  <2>4. RunInv(w)'
    <3>. USE <1>7, <2>1, <2>2 DEF RolledBack, TypeOK, Run
    <3>1. Reading(w)'
      BY DEF RunInv, Reading, IInv, ReferencedBlobsPresent
    <3>2. Publishing(w)'
      BY DEF RunInv, Publishing, IInv, ReferencedBlobsPresent
    <3>3. Cleaning(w)'
      BY DEF RunInv, Cleaning, IInv, ReferencedBlobsPresent
    <3>4. Uncommitted(w)'
      BY DEF RunInv, Uncommitted, IInv, ReferencedBlobsPresent
    <3>5. Resting(w)'
      BY DEF RunInv, Resting
    <3>. QED
      BY <3>1, <3>2, <3>3, <3>4, <3>5 DEF RunInv
  <2>. QED
    BY <1>7, <2>1, <2>2, <2>3, <2>4, StepOfOneRun DEF RolledBack
<1>. QED
  BY <1>1, <1>2, <1>3, <1>4, <1>5, <1>6, <1>7 DEF PublishStep

\* A run that ends, released or killed, leaves all writers at rest.
LEMMA EndOfRunInv ==
  ASSUME IInv, NEW w \in Writer, pc[w] # "idle", TypeOK',
         UNCHANGED <<manifest, blobs, packages>>,
         pc' = [pc EXCEPT ![w] = "idle"],
         run' = [run EXCEPT ![w] = NoRun]
  PROVE  IInv'
<1>1. ASSUME NEW v \in Writer
      PROVE  pc'[v] = "idle" /\ run'[v] = NoRun
  <2>1. CASE v = w
    BY <2>1 DEF IInv, TypeOK
  <2>2. CASE v # w
    BY <2>2, OthersRest DEF IInv, TypeOK
  <2>. QED
    BY <2>1, <2>2
<1>2. LockHeld'
  BY <1>1 DEF LockHeld
<1>3. PackagesConsistent' /\ PackageBases' /\ ReferencedBlobsPresent'
  BY DEF IInv, PackagesConsistent, PackageBases, ReferencedBlobsPresent
<1>4. \A v \in Writer : RunInv(v)'
  BY <1>1, RestingRunInv
<1>. QED
  BY <1>2, <1>3, <1>4 DEF IInv

\* A run that starts finds the lock free, hence every other writer at rest.
LEMMA StartInv ==
  ASSUME IInv, NEW w \in Writer, StartEncrypt(w) \/ StartApply(w), TypeOK'
  PROVE  IInv'
<1>1. lock = Free /\ lock' = w
  BY DEF StartEncrypt, StartApply, AcquireLock
<1>2. /\ \/ pc'[w] = "load" /\ run'[w].op = "encrypt"
         \/ pc'[w] = "validate" /\ run'[w].op = "apply"
      /\ ~run'[w].built
  BY DEF StartEncrypt, StartApply, IInv, TypeOK, NoRun
<1>3. ASSUME NEW v \in Writer, v # w
      PROVE  pc'[v] = "idle" /\ run'[v] = NoRun
  <2>1. pc[v] = "idle" /\ run[v] = NoRun
    BY <1>1, <1>3, OthersRest, WriterLockAssumption
  <2>. QED
    BY <1>3, <2>1 DEF StartEncrypt, StartApply, IInv, TypeOK
<1>4. LockHeld'
  BY <1>1, <1>3 DEF LockHeld
<1>5. PackagesConsistent' /\ PackageBases' /\ ReferencedBlobsPresent'
  BY DEF StartEncrypt, StartApply, IInv, PackagesConsistent, PackageBases,
         ReferencedBlobsPresent
<1>6. RunInv(w)'
  <2>. USE <1>2
  <2>1. Reading(w)'
    BY DEF RunInv, Reading
  <2>2. Publishing(w)'
    BY DEF RunInv, Publishing
  <2>3. Cleaning(w)'
    BY DEF RunInv, Cleaning
  <2>4. Uncommitted(w)'
    BY DEF RunInv, Uncommitted
  <2>5. Resting(w)'
    BY DEF RunInv, Resting
  <2>. QED
    BY <2>1, <2>2, <2>3, <2>4, <2>5 DEF RunInv
<1>7. \A v \in Writer : RunInv(v)'
  BY <1>3, <1>6, RestingRunInv
<1>. QED
  BY <1>4, <1>5, <1>7 DEF IInv

\* An exception before the commit leads to the rollback, any other to the end.
LEMMA FailInv ==
  ASSUME IInv, NEW w \in Writer, Fail(w), TypeOK'
  PROVE  IInv'
<1>. TypeOK /\ RunInv(w)
  BY DEF IInv
<1>1. /\ pc' = [pc EXCEPT ![w] = pc'[w]]
      /\ pc'[w] = IF pc[w] \in {"publish", "sync"} /\ ~run[w].committed
                    THEN "rollback" ELSE "release"
  BY DEF Fail, TypeOK
<1>2. run' = [run EXCEPT ![w] = run'[w]] /\ run'[w] = run[w]
  BY DEF Fail, TypeOK
<1>3. ReferencedBlobsPresent'
  BY DEF Fail, IInv, ReferencedBlobsPresent
<1>4. RunInv(w)'
  <2>6. UNCHANGED <<manifest, blobs, packages>>
    BY DEF Fail
  <2>. USE <1>1, <1>2, <2>6
  <2>1. Reading(w)'
    BY DEF RunInv, Reading
  <2>2. Publishing(w)'
    BY DEF RunInv, Publishing
  <2>3. Cleaning(w)'
    BY DEF RunInv, Cleaning
  <2>4. Uncommitted(w)'
    BY DEF RunInv, Publishing, Uncommitted
  <2>5. Resting(w)'
    BY DEF RunInv, Resting
  <2>. QED
    BY <2>1, <2>2, <2>3, <2>4, <2>5 DEF RunInv
<1>. QED
  BY <1>1, <1>2, <1>3, <1>4, StepOfOneRun DEF Fail

\* A package removes what it does not keep, and adds what was never there.
LEMMA MakePackageInv ==
  ASSUME IInv, MakePackage, TypeOK'
  PROVE  IInv'
<1>1. PICK R \in SUBSET manifest.refs, N \in NewBlobSets \ {{}}, id \in FreshIds :
        packages' = packages \union
            {[base |-> manifest.id, baseRev |-> manifest.rev,
              target |-> V2(id, manifest.rev + 1, R \union N),
              add |-> N, remove |-> manifest.refs \ R]}
  BY DEF MakePackage
<1>2. N \intersect manifest.refs = {}
  BY DEF NewBlobSets, FreshBlobs
<1>3. /\ V2(id, manifest.rev + 1, R \union N).refs = R \union N
      /\ V2(id, manifest.rev + 1, R \union N).kind = "v2"
      /\ V2(id, manifest.rev + 1, R \union N).rev = manifest.rev + 1
  BY DEF V2
<1>4. PackagesConsistent'
  <2>. DEFINE new == [base |-> manifest.id, baseRev |-> manifest.rev,
                      target |-> V2(id, manifest.rev + 1, R \union N),
                      add |-> N, remove |-> manifest.refs \ R]
  <2>1. /\ new.target.kind = "v2"
        /\ new.target.rev = new.baseRev + 1
        /\ new.remove \intersect new.target.refs = {}
    BY <1>2, <1>3
  <2>2. packages' = packages \union {new}
    BY <1>1
  <2>. HIDE DEF new
  <2>. QED
    BY <2>1, <2>2 DEF IInv, PackagesConsistent
<1>5. PackageBases'
  <2>. DEFINE new == [base |-> manifest.id, baseRev |-> manifest.rev,
                      target |-> V2(id, manifest.rev + 1, R \union N),
                      add |-> N, remove |-> manifest.refs \ R]
  <2>1. manifest.kind = "v2" /\ manifest' = manifest /\ manifest.rev \in Nat
    BY DEF MakePackage, IInv, TypeOK, Manifest
  <2>2. packages' = packages \union {new} /\ new.base = manifest.id /\ new.baseRev = manifest.rev
    BY <1>1
  <2>. HIDE DEF new
  <2>. QED
    BY <2>1, <2>2 DEF IInv, PackageBases
<1>6. LockHeld' /\ ReferencedBlobsPresent'
  BY DEF MakePackage, IInv, LockHeld, ReferencedBlobsPresent
<1>7. ASSUME NEW w \in Writer PROVE RunInv(w)'
  <2>1. packages \subseteq packages'
    BY <1>1
  <2>. QED
    BY <2>1 DEF MakePackage, IInv, RunInv, Reading, Publishing, Cleaning, Uncommitted, Resting
<1>. QED
  BY <1>4, <1>5, <1>6, <1>7 DEF IInv

\* Clearing an abandoned lock touches nothing but the lock.
LEMMA ClearAbandonedLockInv ==
  ASSUME IInv, ClearAbandonedLock, TypeOK'
  PROVE  IInv'
  BY DEF ClearAbandonedLock, RemoveAbandonedLock, IInv, LockHeld, PackagesConsistent,
         PackageBases, ReferencedBlobsPresent, RunInv, Reading, Publishing, Cleaning, Uncommitted, Resting

\* The inductive invariant holds at first: every manifest's blobs are there, no run, no package.
LEMMA InitInv == Init => IInv
<1>. SUFFICES ASSUME Init PROVE IInv
  OBVIOUS
<1>1. TypeOK
  BY InitType
<1>2. ASSUME NEW w \in Writer PROVE pc[w] = "idle" /\ run[w] = NoRun
  <2>1. pc = [v \in Writer |-> "idle"] /\ run = [v \in Writer |-> NoRun]
    BY DEF Init
  <2>. QED
    BY <2>1
<1>3. LockHeld /\ PackagesConsistent /\ PackageBases /\ ReferencedBlobsPresent
  BY <1>2 DEF Init, LockHeld, PackagesConsistent, PackageBases, ReferencedBlobsPresent
<1>4. ASSUME NEW w \in Writer PROVE RunInv(w)
  <2>1. pc[w] = "idle" /\ run[w] = NoRun
    BY <1>2
  <2>2. ~run[w].built
    BY <2>1 DEF NoRun
  <2>. QED
    BY <2>1, <2>2 DEF RunInv, Reading, Publishing, Cleaning, Uncommitted, Resting
<1>. QED
  BY <1>1, <1>3, <1>4 DEF IInv

\* Every step keeps the inductive invariant: one case for each action.
LEMMA NextInv == IInv /\ [Next]_vars => IInv'
<1>. SUFFICES ASSUME IInv, [Next]_vars PROVE IInv'
  OBVIOUS
<1>1. TypeOK'
  BY NextType DEF IInv
<1>2. CASE UNCHANGED vars
  BY <1>2 DEF vars, IInv, TypeOK, LockHeld, PackagesConsistent, PackageBases,
          ReferencedBlobsPresent, RunInv, Reading, Publishing, Cleaning, Uncommitted, Resting
<1>3. ASSUME NEW w \in Writer, RunStep(w) PROVE IInv'
  <2>1. CASE Release(w)
    BY <1>1, <2>1, EndOfRunInv DEF Release
  <2>2. CASE ~Release(w)
    BY <1>1, <1>3, <2>2, EncryptStepInv, ApplyStepInv, PublishStepInv DEF RunStep
  <2>. QED
    BY <2>1, <2>2
<1>4. ASSUME NEW w \in Writer, Kill(w) PROVE IInv'
  BY <1>1, <1>4, EndOfRunInv DEF Kill
<1>. QED
  BY <1>1, <1>2, <1>3, <1>4, StartInv, FailInv, MakePackageInv, ClearAbandonedLockInv DEF Next

\* The inductive invariant holds in every reachable state.
THEOREM InductiveInvariant == Spec => []IInv
  BY InitInv, NextInv, PTL DEF Spec

---------------------------------------------------------------------------------
(* The properties. *)

\* No reachable state, however runs were interrupted, has a manifest that names
\* a blob which is not in the output directory.
THEOREM ReferencedBlobsAlwaysPresent == Spec => []ReferencedBlobsPresent
<1>1. IInv => ReferencedBlobsPresent
  BY DEF IInv
<1>. QED
  BY <1>1, InductiveInvariant, PTL

\* The exact-set checks after recovery and garbage collection cannot throw.
THEOREM CleanupAlwaysExact == Spec => []CleanupIsExact
<1>1. IInv => CleanupIsExact
  BY DEF IInv, ReferencedBlobsPresent, RunInv, Cleaning, CleanupIsExact
<1>. QED
  BY <1>1, InductiveInvariant, PTL

\* What a run that stopped before its commit has left can be told exactly.
THEOREM RollbackAlwaysAccounted == Spec => []RollbackAccount
<1>1. IInv => RollbackAccount
  BY DEF IInv, RunInv, Uncommitted, RollbackAccount
<1>. QED
  BY <1>1, InductiveInvariant, PTL

\* The manifest a rename replaces is the one the run planned against.
THEOREM NoUpdateIsLost == Spec => NoLostUpdate
<1>1. IInv /\ [Next]_vars =>
         [\A w \in Writer : Commit(w) /\ ~run[w].committed => run[w].base = manifest]_vars
  <2>. SUFFICES ASSUME IInv, NEW w \in Writer, Commit(w), ~run[w].committed
                PROVE  run[w].base = manifest
    OBVIOUS
  <2>1. pc[w] = "publish"
    BY DEF Commit
  <2>. QED
    BY <2>1 DEF IInv, RunInv, Publishing
<1>. QED
  BY <1>1, InductiveInvariant, PTL DEF Spec, NoLostUpdate

\* The object sets and the revision of a package are as good as the identity of
\* its base: what an apply run replaces is the manifest the package was made from.
THEOREM ApplyReplacesBase == Spec => ApplyReplacesItsBase
<1>1. IInv /\ [Next]_vars =>
         [\A w \in Writer :
             Commit(w) /\ run[w].op = "apply" /\ manifest' # manifest =>
                 \E p \in packages : p.target = manifest' /\ p.base = manifest.id]_vars
  <2>. SUFFICES ASSUME IInv, NEW w \in Writer, Commit(w), run[w].op = "apply",
                       manifest' # manifest
                PROVE  \E p \in packages : p.target = manifest' /\ p.base = manifest.id
    OBVIOUS
  <2>1. pc[w] = "publish" /\ ~run[w].committed /\ manifest' = run[w].target
    BY DEF Commit
  <2>2. PICK p \in packages : p.target = run[w].target /\ p.baseRev = manifest.rev
    BY <2>1 DEF IInv, RunInv, Publishing
  <2>. QED
    BY <2>1, <2>2 DEF IInv, PackageBases
<1>. QED
  BY <1>1, InductiveInvariant, PTL DEF Spec, ApplyReplacesItsBase

\* What a reader of the directory sees.
ReaderView == [kind |-> manifest.kind, rev |-> manifest.rev,
               readable |-> manifest.refs \intersect blobs]

\* The directory at first is a generation AtomicVault may start from.
LEMMA InitImplements == Init => AV!Init
<1>. SUFFICES ASSUME Init PROVE AV!Init
  OBVIOUS
<1>. DEFINE g == [kind |-> manifest.kind, rev |-> manifest.rev,
                  readable |-> manifest.refs \intersect blobs]
<1>1. TypeOK
  BY InitType
<1>2. g \in AV!Generation
  BY <1>1 DEF TypeOK, Manifest, AV!Generation
<1>3. /\ manifest.kind = "v2" => manifest.rev = 1
      /\ manifest.kind # "v2" => manifest.rev = 0
      /\ manifest.kind = "none" => manifest.refs = {}
  BY DEF Init, NoManifest, V1, V2
<1>. QED
  BY <1>2, <1>3 DEF AV!Init

\* A commit replaces the generation a reader sees by one that may follow it; no
\* other step changes what a reader sees.
LEMMA CommitImplements ==
  ASSUME IInv, NEW w \in Writer, Commit(w), ReferencedBlobsPresent'
  PROVE  AV!Next \/ ReaderView' = ReaderView
<1>1. CASE run[w].committed
  BY <1>1 DEF Commit, ReaderView
<1>2. CASE ~run[w].committed
  <2>1. pc[w] = "publish" /\ manifest' = run[w].target /\ blobs' = blobs
    BY <1>2 DEF Commit
  <2>2. Succeeds(manifest', manifest)
    BY <1>2, <2>1 DEF IInv, RunInv, Publishing
  <2>3. manifest.refs \intersect blobs = manifest.refs
        /\ manifest'.refs \intersect blobs' = manifest'.refs
    BY DEF IInv, ReferencedBlobsPresent
  <2>4. manifest'.refs \in SUBSET Blob /\ manifest.kind \in {"none", "v1", "v2"}
    BY <2>1 DEF IInv, TypeOK, Run, Manifest
  <2>5. CASE manifest.kind = "none"
    BY <2>2, <2>3, <2>4, <2>5 DEF Succeeds, AV!Next, AV!Create
  <2>6. CASE manifest.kind = "v1"
    <3>1. \A S : AV!Cardinality(S) = Cardinality(S)
      BY DEF Cardinality, AV!Cardinality
    <3>. QED
      BY <2>2, <2>3, <2>4, <2>6, <3>1 DEF Succeeds, AV!Next, AV!Migrate
  <2>7. CASE manifest.kind = "v2"
    BY <2>2, <2>3, <2>4, <2>7 DEF Succeeds, AV!Next, AV!Update
  <2>. QED
    BY <2>4, <2>5, <2>6, <2>7
<1>. QED
  BY <1>1, <1>2

\* Every step is, for a reader, a step of AtomicVault or none at all.
LEMMA NextImplements ==
  ASSUME IInv, [Next]_vars, IInv'
  PROVE  AV!Next \/ ReaderView' = ReaderView
<1>1. CASE \E w \in Writer : Commit(w)
  BY <1>1, CommitImplements DEF IInv
<1>2. CASE ~ \E w \in Writer : Commit(w)
  <2>1. manifest' = manifest
    <3>1. ASSUME NEW w \in Writer, StartEncrypt(w) \/ StartApply(w) \/ Fail(w) \/ Kill(w)
          PROVE  manifest' = manifest
      BY <3>1 DEF StartEncrypt, StartApply, Fail, Kill
    <3>2. ASSUME NEW w \in Writer, EncryptStep(w) \/ ApplyStep(w)
          PROVE  manifest' = manifest
      BY <3>2 DEF EncryptStep, ApplyStep, LoadVault, Recovered, PlanInitial, PlanMigration,
                  PlanUpdate, ValidatePackage, Refuse, BeginPublish
    <3>3. ASSUME NEW w \in Writer, PublishStep(w)
          PROVE  manifest' = manifest
      BY <1>2, <3>3 DEF PublishStep, LinkBlob, DeleteBlob, RollbackBlob, RecordBlob, Finish,
                        RolledBack, Release
    <3>4. CASE MakePackage \/ ClearAbandonedLock \/ UNCHANGED vars
      BY <3>4 DEF MakePackage, ClearAbandonedLock, vars
    <3>. QED
      BY <3>1, <3>2, <3>3, <3>4 DEF Next, RunStep
  <2>2. manifest.refs \intersect blobs = manifest.refs
        /\ manifest'.refs \intersect blobs' = manifest'.refs
    BY DEF IInv, ReferencedBlobsPresent
  <2>. QED
    BY <2>1, <2>2 DEF ReaderView
<1>. QED
  BY <1>1, <1>2

\* The link-rename-delete protocol with its exceptions and kills is, for a
\* reader of the directory, a sequence of whole generations.
THEOREM VaultIsAtomic == Spec => ImplementsAtomicVault
<1>1. IInv /\ [Next]_vars /\ IInv' => AV!Next \/ ReaderView' = ReaderView
  BY NextImplements
<1>2. IInv /\ [Next]_vars /\ IInv' =>
         [AV!Next]_([kind |-> manifest.kind, rev |-> manifest.rev,
                     readable |-> manifest.refs \intersect blobs])
  BY <1>1 DEF ReaderView
<1>. QED
  BY <1>2, InitImplements, InductiveInvariant, PTL DEF Spec, ImplementsAtomicVault, AV!Spec

---------------------------------------------------------------------------------
(* Every run comes to an end: what there is to prove of RunTerminates without *)
(* fairness.                                                                  *)

\* The stages of a run, which it only goes down.
StageOf(phase) ==
    CASE phase = "load"                  -> 7
      [] phase = "recover"               -> 6
      [] phase \in {"plan", "validate"}  -> 5
      [] phase \in {"publish", "sync"}   -> 4
      [] phase = "clean"                 -> 3
      [] phase = "rollback"              -> 2
      [] phase = "release"               -> 1
      [] OTHER                           -> 0

\* The steps that are left in a stage: two for every blob to be linked or deleted, the
\* second of them for its fsync.
RestOf(phase, r) ==
    2 * Cardinality(IF phase = "rollback" THEN r.published ELSE r.todo)
      + (IF phase = "sync" THEN 1 ELSE 0)

\* More than are left in any stage.
Span == 2 * Cardinality(Blob) + 2

Steps(phase, r) == StageOf(phase) * Span + RestOf(phase, r)

StepsLeft(w) == Steps(pc[w], run[w])

\* While a run is under way, each change of where it is or of what it has to do, be it a
\* step of its own, an exception or a kill, brings it nearer to its end.
RunsComeToAnEnd ==
    [][\A w \in Writer :
          pc[w] # "idle" /\ <<pc[w], run[w]>>' # <<pc[w], run[w]>>
             => StepsLeft(w)' < StepsLeft(w)]_vars

LEMMA StagesAreFew == \A phase \in Phase : StageOf(phase) \in 0..7
  BY DEF Phase, StageOf

LEMMA RestIsLess ==
  ASSUME IsFiniteSet(Blob), NEW phase \in Phase, NEW r \in Run
  PROVE  Span \in Nat /\ RestOf(phase, r) \in Nat /\ RestOf(phase, r) < Span
<1>. DEFINE left == IF phase = "rollback" THEN r.published ELSE r.todo
            sync == IF phase = "sync" THEN 1 ELSE 0
<1>1. left \subseteq Blob
  BY DEF Run
<1>2. Cardinality(left) \in Nat /\ Cardinality(Blob) \in Nat
      /\ Cardinality(left) <= Cardinality(Blob)
  BY <1>1, FS_Subset, FS_CardinalityType
<1>3. sync \in 0..1
  OBVIOUS
<1>4. RestOf(phase, r) = 2 * Cardinality(left) + sync
  BY DEF RestOf
<1>. HIDE DEF left, sync
<1>. QED
  BY <1>2, <1>3, <1>4 DEF Span

LEMMA StepsAreBounded ==
  ASSUME IsFiniteSet(Blob), NEW phase \in Phase, NEW r \in Run
  PROVE  Steps(phase, r) \in Nat /\ Steps(phase, r) < 8 * Span
<1>1. PICK stage \in 0..7 : stage = StageOf(phase)
  BY StagesAreFew
<1>2. PICK rest \in Nat, span \in Nat : rest = RestOf(phase, r) /\ span = Span /\ rest < span
  BY RestIsLess
<1>3. stage * span + rest \in Nat /\ stage * span + rest < 8 * span
  BY <1>2
<1>. QED
  BY <1>1, <1>2, <1>3 DEF Steps

\* A later stage leaves fewer steps, whatever there is to do in it.
LEMMA EarlierStage ==
  ASSUME IsFiniteSet(Blob), NEW p \in Phase, NEW q \in Phase, NEW r \in Run, NEW s \in Run,
         StageOf(q) < StageOf(p)
  PROVE  Steps(q, s) < Steps(p, r)
<1>1. PICK i \in 0..7, j \in 0..7 : i = StageOf(p) /\ j = StageOf(q)
  BY StagesAreFew
<1>2. PICK a \in Nat, b \in Nat, span \in Nat :
        a = RestOf(p, r) /\ b = RestOf(q, s) /\ span = Span /\ b < span
  BY RestIsLess
<1>3. j + 1 <= i
  BY <1>1
<1>4. j * span + b < i * span + a
  BY <1>2, <1>3
<1>. QED
  BY <1>1, <1>2, <1>4 DEF Steps

\* Within a stage, what there is left to do decides.
LEMMA SameStage ==
  ASSUME IsFiniteSet(Blob), NEW p \in Phase, NEW q \in Phase, NEW r \in Run, NEW s \in Run,
         StageOf(q) = StageOf(p), RestOf(q, s) < RestOf(p, r)
  PROVE  Steps(q, s) < Steps(p, r)
<1>1. PICK i \in 0..7 : i = StageOf(p)
  BY StagesAreFew
<1>2. PICK a \in Nat, b \in Nat, span \in Nat :
        a = RestOf(p, r) /\ b = RestOf(q, s) /\ span = Span
  BY RestIsLess
<1>3. b < a
  BY <1>2
<1>4. i * span \in Nat
  BY <1>1, <1>2
<1>5. i * span + b < i * span + a
  BY <1>2, <1>3, <1>4
<1>. QED
  BY <1>1, <1>2, <1>5 DEF Steps

\* One blob fewer is two steps fewer.
LEMMA OneBlobLess ==
  ASSUME IsFiniteSet(Blob), NEW S \in SUBSET Blob, NEW b \in S
  PROVE  \E n \in Nat : Cardinality(S \ {b}) = n /\ Cardinality(S) = n + 1
<1>1. IsFiniteSet(S) /\ IsFiniteSet(S \ {b}) /\ Cardinality(S \ {b}) = Cardinality(S) - 1
  BY FS_Subset, FS_RemoveElement
<1>2. Cardinality(S) \in Nat /\ Cardinality(S \ {b}) \in Nat
  BY <1>1, FS_CardinalityType
<1>. QED
  BY <1>1, <1>2

\* A step of a run goes down a stage, or leaves less to do in it.
LEMMA RunStepCounts ==
  ASSUME IsFiniteSet(Blob), TypeOK, TypeOK', NEW w \in Writer,
         RunStep(w) \/ Fail(w) \/ Kill(w)
  PROVE  StepsLeft(w)' < StepsLeft(w)
<1>1. /\ pc[w] \in Phase /\ pc'[w] \in Phase /\ run[w] \in Run /\ run'[w] \in Run
      /\ pc \in [Writer -> Phase] /\ run \in [Writer -> Run]
  BY DEF TypeOK
<1>2. ASSUME StageOf(pc'[w]) < StageOf(pc[w]) PROVE StepsLeft(w)' < StepsLeft(w)
  BY <1>1, <1>2, EarlierStage DEF StepsLeft
<1>3. ASSUME StageOf(pc'[w]) = StageOf(pc[w]),
             RestOf(pc'[w], run'[w]) < RestOf(pc[w], run[w])
      PROVE  StepsLeft(w)' < StepsLeft(w)
  BY <1>1, <1>3, SameStage DEF StepsLeft
<1>4. CASE EncryptStep(w) \/ ApplyStep(w) \/ Commit(w) \/ Finish(w) \/ RolledBack(w)
           \/ Release(w) \/ Fail(w) \/ Kill(w)
  <2>1. CASE LoadVault(w)
    <3>1. pc[w] = "load" /\ pc'[w] \in {"recover", "plan"}
      BY <1>1, <2>1 DEF LoadVault
    <3>. QED
      BY <1>2, <3>1 DEF StageOf
  <2>2. CASE Recovered(w)
    <3>1. pc[w] = "recover" /\ pc'[w] \in {"plan", "release"}
      BY <1>1, <2>2 DEF Recovered
    <3>. QED
      BY <1>2, <3>1 DEF StageOf
  <2>3. CASE PlanInitial(w) \/ PlanMigration(w) \/ PlanUpdate(w) \/ ValidatePackage(w)
    <3>1. pc[w] \in {"plan", "validate"}
      BY <2>3 DEF PlanInitial, PlanMigration, PlanUpdate, ValidatePackage
    <3>2. pc'[w] \in {"publish", "release"}
      <4>1. Refuse(w) => pc'[w] = "release"
        BY <1>1 DEF Refuse
      <4>2. \A base, target, add, remove, committed :
               BeginPublish(w, base, target, add, remove, committed) => pc'[w] = "publish"
        BY <1>1 DEF BeginPublish
      <4>. QED
        BY <2>3, <4>1, <4>2 DEF PlanInitial, PlanMigration, PlanUpdate, ValidatePackage
    <3>. QED
      BY <1>2, <3>1, <3>2 DEF StageOf
  <2>4. CASE Commit(w)
    <3>1. pc[w] = "publish" /\ pc'[w] = "clean"
      BY <1>1, <2>4 DEF Commit
    <3>. QED
      BY <1>2, <3>1 DEF StageOf
  <2>5. CASE Finish(w) \/ RolledBack(w)
    <3>1. pc[w] \in {"clean", "rollback"} /\ pc'[w] = "release"
      BY <1>1, <2>5 DEF Finish, RolledBack
    <3>. QED
      BY <1>2, <3>1 DEF StageOf
  <2>6. CASE Release(w)
    <3>1. pc[w] = "release" /\ pc'[w] = "idle"
      BY <1>1, <2>6 DEF Release
    <3>. QED
      BY <1>2, <3>1 DEF StageOf
  <2>7. CASE Fail(w)
    <3>1. /\ pc[w] \notin {"idle", "release"}
          /\ pc'[w] = IF pc[w] \in {"publish", "sync"} /\ ~run[w].committed
                        THEN "rollback" ELSE "release"
      BY <1>1, <2>7 DEF Fail
    <3>2. StageOf(pc[w]) \in 2..7
      BY <1>1, <3>1 DEF Phase, StageOf
    <3>3. CASE pc[w] \in {"publish", "sync"}
      BY <1>2, <3>1, <3>3 DEF StageOf
    <3>4. CASE pc[w] \notin {"publish", "sync"}
      <4>1. StageOf(pc'[w]) = 1
        BY <3>1, <3>4 DEF StageOf
      <4>. QED
        BY <1>2, <3>2, <4>1
    <3>. QED
      BY <3>3, <3>4
  <2>8. CASE Kill(w)
    <3>1. pc[w] # "idle" /\ pc'[w] = "idle"
      BY <1>1, <2>8 DEF Kill
    <3>2. StageOf(pc[w]) \in 1..7 /\ StageOf(pc'[w]) = 0
      BY <1>1, <3>1 DEF Phase, StageOf
    <3>. QED
      BY <1>2, <3>2
  <2>. QED
    BY <1>4, <2>1, <2>2, <2>3, <2>4, <2>5, <2>6, <2>7, <2>8 DEF EncryptStep, ApplyStep
<1>5. ASSUME NEW b \in Blob, LinkBlob(w, b) PROVE StepsLeft(w)' < StepsLeft(w)
  <2>1. /\ pc[w] = "publish" /\ pc'[w] \in {"publish", "sync"}
        /\ b \in run[w].todo /\ run'[w].todo = run[w].todo \ {b}
    <3>1. CASE b \in blobs
      BY <1>1, <1>5, <3>1 DEF LinkBlob, Run
    <3>2. CASE b \notin blobs
      BY <1>1, <1>5, <3>2 DEF LinkBlob, Run
    <3>. QED
      BY <3>1, <3>2
  <2>2. run[w].todo \in SUBSET Blob
    BY <1>1 DEF Run
  <2>3. PICK n \in Nat : Cardinality(run[w].todo \ {b}) = n /\ Cardinality(run[w].todo) = n + 1
    BY <2>1, <2>2, OneBlobLess
  <2>4. RestOf(pc[w], run[w]) = 2 * (n + 1) + 0
    BY <2>1, <2>3 DEF RestOf
  <2>5. RestOf(pc'[w], run'[w]) \in {2 * n + 0, 2 * n + 1}
    BY <2>1, <2>3 DEF RestOf
  <2>6. RestOf(pc'[w], run'[w]) < RestOf(pc[w], run[w])
    BY <2>4, <2>5
  <2>7. StageOf(pc'[w]) = StageOf(pc[w])
    BY <2>1 DEF StageOf
  <2>. QED
    BY <1>3, <2>6, <2>7
<1>6. ASSUME NEW b \in Blob, DeleteBlob(w, b) PROVE StepsLeft(w)' < StepsLeft(w)
  <2>1. /\ pc[w] \in {"clean", "recover"} /\ pc'[w] = pc[w]
        /\ b \in run[w].todo /\ run'[w].todo = run[w].todo \ {b}
    BY <1>1, <1>6 DEF DeleteBlob, Run
  <2>2. run[w].todo \in SUBSET Blob
    BY <1>1 DEF Run
  <2>3. PICK n \in Nat : Cardinality(run[w].todo \ {b}) = n /\ Cardinality(run[w].todo) = n + 1
    BY <2>1, <2>2, OneBlobLess
  <2>4. RestOf(pc[w], run[w]) = 2 * (n + 1) + 0 /\ RestOf(pc'[w], run'[w]) = 2 * n + 0
    BY <2>1, <2>3 DEF RestOf
  <2>5. RestOf(pc'[w], run'[w]) < RestOf(pc[w], run[w])
    BY <2>4
  <2>. QED
    BY <1>3, <2>1, <2>5
<1>7. ASSUME NEW b \in Blob, RollbackBlob(w, b) PROVE StepsLeft(w)' < StepsLeft(w)
  <2>1. /\ pc[w] = "rollback" /\ pc'[w] = pc[w]
        /\ b \in run[w].published /\ run'[w].published = run[w].published \ {b}
    BY <1>1, <1>7 DEF RollbackBlob, Run
  <2>2. run[w].published \in SUBSET Blob
    BY <1>1 DEF Run
  <2>3. PICK n \in Nat :
          Cardinality(run[w].published \ {b}) = n /\ Cardinality(run[w].published) = n + 1
    BY <2>1, <2>2, OneBlobLess
  <2>4. RestOf(pc[w], run[w]) = 2 * (n + 1) + 0 /\ RestOf(pc'[w], run'[w]) = 2 * n + 0
    BY <2>1, <2>3 DEF RestOf
  <2>5. RestOf(pc'[w], run'[w]) < RestOf(pc[w], run[w])
    BY <2>4
  <2>. QED
    BY <1>3, <2>1, <2>5
<1>8. CASE RecordBlob(w)
  <2>1. pc[w] = "sync" /\ pc'[w] = "publish" /\ run'[w].todo = run[w].todo
    BY <1>1, <1>8 DEF RecordBlob, Run
  <2>2. run[w].todo \in SUBSET Blob
    BY <1>1 DEF Run
  <2>3. PICK n \in Nat : Cardinality(run[w].todo) = n
    BY <2>2, FS_Subset, FS_CardinalityType
  <2>4. RestOf(pc[w], run[w]) = 2 * n + 1 /\ RestOf(pc'[w], run'[w]) = 2 * n + 0
    BY <2>1, <2>3 DEF RestOf
  <2>5. RestOf(pc'[w], run'[w]) < RestOf(pc[w], run[w])
    BY <2>4
  <2>6. StageOf(pc'[w]) = StageOf(pc[w])
    BY <2>1 DEF StageOf
  <2>. QED
    BY <1>3, <2>5, <2>6
<1>. QED
  BY <1>4, <1>5, <1>6, <1>7, <1>8 DEF RunStep, PublishStep

\* What the others do, and what happens beside the runs, leaves a run under way as it is.
LEMMA OthersLeaveRun ==
  ASSUME TypeOK, [Next]_vars, NEW w \in Writer, pc[w] # "idle",
         ~(RunStep(w) \/ Fail(w) \/ Kill(w))
  PROVE  pc'[w] = pc[w] /\ run'[w] = run[w]
<1>1. pc \in [Writer -> Phase] /\ run \in [Writer -> Run]
  BY DEF TypeOK
<1>2. CASE MakePackage \/ ClearAbandonedLock \/ UNCHANGED vars
  BY <1>2 DEF MakePackage, ClearAbandonedLock, vars
<1>3. ASSUME NEW v \in Writer,
             StartEncrypt(v) \/ StartApply(v) \/ RunStep(v) \/ Fail(v) \/ Kill(v)
      PROVE  pc'[w] = pc[w] /\ run'[w] = run[w]
  <2>1. v # w
    BY <1>3 DEF StartEncrypt, StartApply
  <2>2. CASE StartEncrypt(v) \/ StartApply(v) \/ Fail(v) \/ Kill(v)
    BY <1>1, <2>1, <2>2 DEF StartEncrypt, StartApply, Fail, Kill
  <2>3. CASE EncryptStep(v) \/ ApplyStep(v)
    <3>1. Refuse(v) => pc'[w] = pc[w] /\ run'[w] = run[w]
      BY <1>1, <2>1 DEF Refuse
    <3>2. \A base, target, add, remove, committed :
             BeginPublish(v, base, target, add, remove, committed) =>
                pc'[w] = pc[w] /\ run'[w] = run[w]
      BY <1>1, <2>1 DEF BeginPublish
    <3>3. LoadVault(v) \/ Recovered(v) => pc'[w] = pc[w] /\ run'[w] = run[w]
      BY <1>1, <2>1 DEF LoadVault, Recovered
    <3>. QED
      BY <2>3, <3>1, <3>2, <3>3 DEF EncryptStep, ApplyStep, PlanInitial, PlanMigration,
                                    PlanUpdate, ValidatePackage
  <2>4. CASE PublishStep(v)
    <3>1. ASSUME NEW b \in Blob, LinkBlob(v, b) \/ DeleteBlob(v, b) \/ RollbackBlob(v, b)
          PROVE  pc'[w] = pc[w] /\ run'[w] = run[w]
      BY <1>1, <2>1, <3>1 DEF LinkBlob, DeleteBlob, RollbackBlob
    <3>2. CASE RecordBlob(v) \/ Commit(v)
      BY <1>1, <2>1, <3>2 DEF RecordBlob, Commit
    <3>3. CASE Finish(v) \/ RolledBack(v) \/ Release(v)
      BY <1>1, <2>1, <3>3 DEF Finish, RolledBack, Release
    <3>. QED
      BY <2>4, <3>1, <3>2, <3>3 DEF PublishStep
  <2>. QED
    BY <1>3, <2>2, <2>3, <2>4 DEF RunStep
<1>. QED
  BY <1>2, <1>3 DEF Next

\* encrypt_files.mjs and apply_update.mjs: a run of either takes fewer steps than sixteen
\* times one more than there are blobs, however other processes, faults and packages come
\* between them.
THEOREM RunsAreBounded ==
  ASSUME IsFiniteSet(Blob)
  PROVE  Spec => /\ [](\A w \in Writer : StepsLeft(w) \in 0..(8 * Span))
                 /\ RunsComeToAnEnd
<1>1. TypeOK => \A w \in Writer : StepsLeft(w) \in 0..(8 * Span)
  <2>. SUFFICES ASSUME TypeOK, NEW w \in Writer
                PROVE  StepsLeft(w) \in 0..(8 * Span)
    OBVIOUS
  <2>1. pc[w] \in Phase /\ run[w] \in Run
    BY DEF TypeOK
  <2>2. Span \in Nat /\ StepsLeft(w) \in Nat /\ StepsLeft(w) < 8 * Span
    BY <2>1, RestIsLess, StepsAreBounded DEF StepsLeft
  <2>. QED
    BY <2>2
<1>2. TypeOK /\ TypeOK' /\ [Next]_vars =>
         [\A w \in Writer :
             pc[w] # "idle" /\ <<pc[w], run[w]>>' # <<pc[w], run[w]>>
                => StepsLeft(w)' < StepsLeft(w)]_vars
  <2>. SUFFICES ASSUME TypeOK, TypeOK', [Next]_vars, NEW w \in Writer,
                       pc[w] # "idle", pc'[w] # pc[w] \/ run'[w] # run[w]
                PROVE  StepsLeft(w)' < StepsLeft(w)
    OBVIOUS
  <2>. QED
    BY OthersLeaveRun, RunStepCounts
<1>. QED
  BY <1>1, <1>2, TypeCorrect, PTL DEF Spec, RunsComeToAnEnd
=================================================================================
