------------------------------ MODULE VaultPublish ------------------------------
(***************************************************************************)
(* How the encrypted output directory is changed.                          *)
(*                                                                         *)
(* The directory holds one manifest.enc and a set of immutable blobs.      *)
(* Two kinds of run change it, both under the writer lock:                 *)
(*   - "encrypt": encrypt_files.mjs, which creates a vault, brings a v2    *)
(*     vault up to date with the source, or migrates a v1 vault;           *)
(*   - "apply": scripts/apply_update.mjs, which installs an update package *)
(*     the browser made from some earlier manifest.                        *)
(* Both link the new blobs first, rename the manifest (the commit point),  *)
(* and delete what the new manifest no longer names.  An exception before  *)
(* the commit deletes the blobs this run recorded as published; a killed   *)
(* process deletes nothing and leaves its lock file.                       *)
(*                                                                         *)
(* A blob name stands for its bytes: names are random and never reused     *)
(* with other contents.  Files staged outside the directory are private to *)
(* the run, so staging is part of the step that plans the run.             *)
(***************************************************************************)
EXTENDS WriterLock, Naturals, FiniteSets

CONSTANTS
    Blob,        \* blob ids
    ManifestId,  \* identities of v2 manifests: their bytes, password slots aside
    NoId,        \* the identity of an absent or a v1 manifest
    MaxRevision, \* bound: no manifest is made with a higher revision
    MaxNew,      \* bound: blobs one run or one package adds
    MaxPackages, \* bound: update packages ever made
    MaxFaults    \* bound: exceptions and kills in one behaviour

ASSUME VaultAssumption ==
    /\ ManifestId # {}
    /\ NoId \notin ManifestId
    /\ MaxRevision \in Nat
    /\ MaxNew \in Nat
    /\ MaxPackages \in Nat
    /\ MaxFaults \in Nat

VARIABLES
    manifest,    \* manifest.enc
    blobs,       \* the *.bin files in the output directory
    packages,    \* the update packages made so far
    pc,          \* where each writer is in its run
    run,         \* the local state of each writer's run
    faults       \* exceptions and kills so far

dirVars == <<manifest, blobs>>
vars == <<lock, manifest, blobs, packages, pc, run, faults>>

---------------------------------------------------------------------------------
(* Data. *)

Manifest ==
    [kind : {"none", "v1", "v2"},
     id   : ManifestId \union {NoId},
     rev  : Nat,
     refs : SUBSET Blob]

NoManifest == [kind |-> "none", id |-> NoId, rev |-> 0, refs |-> {}]

V1(refs) == [kind |-> "v1", id |-> NoId, rev |-> 0, refs |-> refs]

V2(id, rev, refs) == [kind |-> "v2", id |-> id, rev |-> rev, refs |-> refs]

\* An update package: the manifest it was made from, the one it installs, and
\* the objects it adds and removes.
Package ==
    [base : ManifestId \union {NoId}, baseRev : Nat, target : Manifest,
     add : SUBSET Blob, remove : SUBSET Blob]

Phase == {"idle", "load", "recover", "plan", "validate", "publish", "sync",
          "clean", "rollback", "release"}

\* op         which program runs
\* base       the manifest the run read after it took the lock
\* target     the manifest it is going to commit
\* todo       the blobs still to link, and after the commit still to delete
\* remove     the removals an update package names
\* published  publishedBlobNames: blobs linked and recorded for rollback
\* pending    the blob linked but not yet recorded (its fsync is running)
\* committed  manifestCommitted
\* built      the run got as far as publishing
\* before     the blobs that were there when publishing began (history only)
Run ==
    [op : {"encrypt", "apply"}, base : Manifest, target : Manifest,
     todo : SUBSET Blob, remove : SUBSET Blob, published : SUBSET Blob,
     pending : SUBSET Blob, committed : BOOLEAN, built : BOOLEAN,
     before : SUBSET Blob]

NoRun ==
    [op |-> "encrypt", base |-> NoManifest, target |-> NoManifest,
     todo |-> {}, remove |-> {}, published |-> {}, pending |-> {},
     committed |-> FALSE, built |-> FALSE, before |-> {}]

\* Random ids: whatever nothing in the system mentions.
FreshBlobs ==
    Blob \ ( blobs \union manifest.refs
             \union UNION {p.target.refs \union p.add \union p.remove : p \in packages}
             \union UNION {run[w].target.refs \union run[w].base.refs \union run[w].todo
                            \union run[w].published \union run[w].before : w \in Writer} )

UnusedIds ==
    ManifestId \ ( {manifest.id} \union UNION {{p.base, p.target.id} : p \in packages}
                   \union UNION {{run[w].base.id, run[w].target.id} : w \in Writer} )

\* Which unused identity is drawn makes no difference: any one will do.
FreshIds == IF UnusedIds = {} THEN {} ELSE {CHOOSE id \in UnusedIds : TRUE}

NewBlobSets == {N \in SUBSET FreshBlobs : Cardinality(N) <= MaxNew}

---------------------------------------------------------------------------------
(* Starting a run, and what both programs share. *)

StartEncrypt(w) ==
    /\ pc[w] = "idle"
    /\ AcquireLock(w)
    /\ pc' = [pc EXCEPT ![w] = "load"]
    /\ run' = [run EXCEPT ![w] = [NoRun EXCEPT !.op = "encrypt"]]
    /\ UNCHANGED <<manifest, blobs, packages, faults>>

StartApply(w) ==
    /\ pc[w] = "idle"
    /\ AcquireLock(w)
    /\ pc' = [pc EXCEPT ![w] = "validate"]
    /\ run' = [run EXCEPT ![w] = [NoRun EXCEPT !.op = "apply"]]
    /\ UNCHANGED <<manifest, blobs, packages, faults>>

\* A check of the run throws before anything was published.
Refuse(w) ==
    /\ pc' = [pc EXCEPT ![w] = "release"]
    /\ UNCHANGED <<lock, manifest, blobs, packages, run, faults>>

\* The staged generation is complete: publishing begins.
BeginPublish(w, base, target, add, remove, committed) ==
    /\ pc' = [pc EXCEPT ![w] = "publish"]
    /\ run' = [run EXCEPT ![w] =
                  [op |-> run[w].op, base |-> base, target |-> target, todo |-> add,
                   remove |-> remove, published |-> {}, pending |-> {},
                   committed |-> committed, built |-> TRUE, before |-> blobs]]
    /\ UNCHANGED <<lock, manifest, blobs, packages, faults>>

\* The next staged blob is linked into the directory; a blob that is already
\* there with the same bytes is skipped and not recorded.
LinkBlob(w, b) ==
    /\ pc[w] = "publish"
    /\ b \in run[w].todo
    /\ IF b \in blobs
         THEN /\ run' = [run EXCEPT ![w].todo = @ \ {b}]
              /\ UNCHANGED <<blobs, pc>>
         ELSE /\ blobs' = blobs \union {b}
              /\ run' = [run EXCEPT ![w].todo = @ \ {b}, ![w].pending = {b}]
              /\ pc' = [pc EXCEPT ![w] = "sync"]
    /\ UNCHANGED <<lock, manifest, packages, faults>>

\* Only after syncFile returned is the blob remembered for rollback.
RecordBlob(w) ==
    /\ pc[w] = "sync"
    /\ run' = [run EXCEPT ![w].published = @ \union run[w].pending, ![w].pending = {}]
    /\ pc' = [pc EXCEPT ![w] = "publish"]
    /\ UNCHANGED <<lock, manifest, blobs, packages, faults>>

\* Mutant: the manifest is renamed before every new blob is linked.
CommitEarly(w) ==
    /\ pc[w] = "publish"
    /\ manifest' = IF run[w].committed THEN manifest ELSE run[w].target
    /\ run' = [run EXCEPT ![w].committed = TRUE,
                          ![w].todo = IF run[w].op = "encrypt"
                                        THEN blobs \ run[w].target.refs
                                        ELSE run[w].remove]
    /\ pc' = [pc EXCEPT ![w] = "clean"]
    /\ UNCHANGED <<lock, blobs, packages, faults>>

\* rename(stage manifest, manifest.enc) is the commit point; a package that is
\* already installed is not renamed again.  Cleaning up starts from what is in
\* the directory (encrypt) or from the removals of the package (apply).
Commit(w) ==
    /\ pc[w] = "publish"
    /\ run[w].todo = {}
    /\ manifest' = IF run[w].committed THEN manifest ELSE run[w].target
    /\ run' = [run EXCEPT ![w].committed = TRUE,
                          ![w].todo = IF run[w].op = "encrypt"
                                        THEN blobs \ run[w].target.refs
                                        ELSE run[w].remove]
    /\ pc' = [pc EXCEPT ![w] = "clean"]
    /\ UNCHANGED <<lock, blobs, packages, faults>>

\* One rm of a cleanup: after the commit, or of what an earlier run left behind.
DeleteBlob(w, b) ==
    /\ pc[w] \in {"clean", "recover"}
    /\ b \in run[w].todo
    /\ blobs' = blobs \ {b}
    /\ run' = [run EXCEPT ![w].todo = @ \ {b}]
    /\ UNCHANGED <<lock, manifest, packages, pc, faults>>

\* The last check of a run; it ends either way.
Finish(w) ==
    /\ pc[w] = "clean"
    /\ run[w].todo = {}
    /\ pc' = [pc EXCEPT ![w] = "release"]
    /\ UNCHANGED <<lock, manifest, blobs, packages, run, faults>>

RollbackBlob(w, b) ==
    /\ pc[w] = "rollback"
    /\ b \in run[w].published
    /\ blobs' = blobs \ {b}
    /\ run' = [run EXCEPT ![w].published = @ \ {b}]
    /\ UNCHANGED <<lock, manifest, packages, pc, faults>>

RolledBack(w) ==
    /\ pc[w] = "rollback"
    /\ run[w].published = {}
    /\ pc' = [pc EXCEPT ![w] = "release"]
    /\ UNCHANGED <<lock, manifest, blobs, packages, run, faults>>

\* Mutant: the finally block leaves the lock file.
ReleaseKeepingLock(w) ==
    /\ pc[w] = "release"
    /\ pc' = [pc EXCEPT ![w] = "idle"]
    /\ run' = [run EXCEPT ![w] = NoRun]
    /\ UNCHANGED <<lock, manifest, blobs, packages, faults>>

\* The finally block of withVaultWriterLock.
Release(w) ==
    /\ pc[w] = "release"
    /\ ReleaseLock(w)
    /\ pc' = [pc EXCEPT ![w] = "idle"]
    /\ run' = [run EXCEPT ![w] = NoRun]
    /\ UNCHANGED <<manifest, blobs, packages, faults>>

---------------------------------------------------------------------------------
(* encrypt_files.mjs. *)

\* Mutant: what an interrupted run left is not collected.
LoadVaultWithoutRecovery(w) ==
    /\ pc[w] = "load"
    /\ run' = [run EXCEPT ![w].base = manifest, ![w].todo = {}]
    /\ pc' = [pc EXCEPT ![w] = IF manifest.kind = "v2" THEN "recover" ELSE "plan"]
    /\ UNCHANGED <<lock, manifest, blobs, packages, faults>>

\* loadExistingVault, then by what it found: a v2 vault is cleaned of the blobs
\* an interrupted run left; a v1 vault and an empty directory go on as they are.
LoadVault(w) ==
    /\ pc[w] = "load"
    /\ run' = [run EXCEPT ![w].base = manifest,
                          ![w].todo = IF manifest.kind = "v2"
                                        THEN blobs \ manifest.refs ELSE {}]
    /\ pc' = [pc EXCEPT ![w] = IF manifest.kind = "v2" THEN "recover" ELSE "plan"]
    /\ UNCHANGED <<lock, manifest, blobs, packages, faults>>

\* assertExactBlobSet after the recovery.
Recovered(w) ==
    /\ pc[w] = "recover"
    /\ run[w].todo = {}
    /\ pc' = [pc EXCEPT ![w] = IF blobs = run[w].base.refs THEN "plan" ELSE "release"]
    /\ UNCHANGED <<lock, manifest, blobs, packages, run, faults>>

\* No vault yet: orphan blobs are never adopted nor overwritten.
PlanInitial(w) ==
    /\ pc[w] = "plan"
    /\ run[w].base.kind = "none"
    /\ \/ blobs # {} /\ Refuse(w)
       \/ /\ blobs = {}
          /\ \E N \in NewBlobSets, id \in FreshIds :
                BeginPublish(w, run[w].base, V2(id, 1, N), N, {}, FALSE)

\* A v1 vault is refused without --migrate-v1; with it every file is decrypted
\* (so all of its blobs must be there) and encrypted again under a new vault.
PlanMigration(w) ==
    /\ pc[w] = "plan"
    /\ run[w].base.kind = "v1"
    /\ \/ Refuse(w)
       \/ /\ run[w].base.refs \subseteq blobs
          /\ \E N \in NewBlobSets, id \in FreshIds :
                /\ Cardinality(N) = Cardinality(run[w].base.refs)
                /\ BeginPublish(w, run[w].base, V2(id, 1, N), N, {}, FALSE)

\* The source is compared with the manifest: nothing changed and the run ends,
\* or some entries are reused and others get new blobs.  The reused blobs are
\* checked before anything is published.
PlanUpdate(w) ==
    /\ pc[w] = "plan"
    /\ run[w].base.kind = "v2"
    /\ \/ Refuse(w)
       \/ /\ run[w].base.rev < MaxRevision
          /\ \E R \in SUBSET run[w].base.refs, N \in NewBlobSets, id \in FreshIds :
                /\ R \subseteq blobs
                /\ BeginPublish(w, run[w].base, V2(id, run[w].base.rev + 1, R \union N),
                                N, {}, FALSE)

---------------------------------------------------------------------------------
(* scripts/apply_update.mjs. *)

\* The browser makes a package from the manifest it sees: it keeps some blobs
\* and adds at least one.
MakePackage ==
    /\ manifest.kind = "v2"
    /\ manifest.rev < MaxRevision
    /\ Cardinality(packages) < MaxPackages
    /\ \E R \in SUBSET manifest.refs, N \in NewBlobSets \ {{}}, id \in FreshIds :
          packages' = packages \union
              {[base |-> manifest.id, baseRev |-> manifest.rev,
                target |-> V2(id, manifest.rev + 1, R \union N),
                add |-> N, remove |-> manifest.refs \ R]}
    /\ UNCHANGED <<lock, manifest, blobs, pc, run, faults>>

\* Mutant: the digest of the manifest is not compared.
IsRecoveryByRevision(p) == manifest.rev = p.target.rev

\* The very manifest of the package is installed already.
IsRecovery(p) == manifest.rev = p.target.rev /\ manifest = p.target

\* Mutant: the base revision is not compared.
ApplicableToAnyRevision(p) ==
    /\ manifest.kind = "v2"
    /\ manifest.refs \subseteq blobs
    /\ IF IsRecovery(p)
         THEN p.add \subseteq p.target.refs /\ p.remove \intersect p.target.refs = {}
         ELSE /\ p.add = p.target.refs \ manifest.refs
              /\ p.remove = manifest.refs \ p.target.refs
    /\ blobs \subseteq manifest.refs \union p.add \union p.remove

\* Mutant: no rejectUnexpectedPublicBlobs.
ApplicableBesideOrphans(p) ==
    /\ manifest.kind = "v2"
    /\ manifest.refs \subseteq blobs
    /\ IF IsRecovery(p)
         THEN p.add \subseteq p.target.refs /\ p.remove \intersect p.target.refs = {}
         ELSE /\ manifest.rev = p.baseRev
              /\ p.add = p.target.refs \ manifest.refs
              /\ p.remove = manifest.refs \ p.target.refs

\* validateUpdate.
Applicable(p) ==
    /\ manifest.kind = "v2"
    /\ manifest.refs \subseteq blobs
    /\ IF IsRecovery(p)
         THEN /\ p.add \subseteq p.target.refs
              /\ p.remove \intersect p.target.refs = {}
         ELSE /\ manifest.rev = p.baseRev
              /\ p.add = p.target.refs \ manifest.refs
              /\ p.remove = manifest.refs \ p.target.refs
    /\ blobs \subseteq manifest.refs \union p.add \union p.remove

\* No package, a damaged one, or one the checks reject: the run ends.
ValidatePackage(w) ==
    /\ pc[w] = "validate"
    /\ \/ Refuse(w)
       \/ \E p \in packages :
             /\ Applicable(p)
             /\ BeginPublish(w, manifest, p.target, p.add, p.remove, IsRecovery(p))

---------------------------------------------------------------------------------
(* What can go wrong, and the person who clears an abandoned lock. *)

\* Mutant: the catch block does not look at manifestCommitted.
FailRollsBackAlways(w) ==
    /\ pc[w] \notin {"idle", "release"}
    /\ faults < MaxFaults
    /\ faults' = faults + 1
    /\ pc' = [pc EXCEPT ![w] = IF run[w].built THEN "rollback" ELSE "release"]
    /\ UNCHANGED <<lock, manifest, blobs, packages, run>>

\* An exception: a wrong passphrase, an I/O error, a failed verification.  Before
\* the commit the run rolls back what it recorded; deleting may fail too, and then
\* the rollback stops where it is.
Fail(w) ==
    /\ pc[w] \notin {"idle", "release"}
    /\ faults < MaxFaults
    /\ faults' = faults + 1
    /\ pc' = [pc EXCEPT ![w] = IF pc[w] \in {"publish", "sync"} /\ ~run[w].committed
                                 THEN "rollback" ELSE "release"]
    /\ UNCHANGED <<lock, manifest, blobs, packages, run>>

\* The process is killed or the machine stops.
Kill(w) ==
    /\ pc[w] # "idle"
    /\ faults < MaxFaults
    /\ faults' = faults + 1
    /\ AbandonLock(w)
    /\ pc' = [pc EXCEPT ![w] = "idle"]
    /\ run' = [run EXCEPT ![w] = NoRun]
    /\ UNCHANGED <<manifest, blobs, packages>>

ClearAbandonedLock ==
    /\ \A w \in Writer : pc[w] = "idle"
    /\ RemoveAbandonedLock
    /\ UNCHANGED <<manifest, blobs, packages, pc, run, faults>>

---------------------------------------------------------------------------------
(* The specification. *)

Init ==
    /\ InitLock
    /\ manifest \in {NoManifest} \union {V1(R) : R \in SUBSET Blob}
                    \union {V2(CHOOSE id \in ManifestId : TRUE, 1, R) : R \in SUBSET Blob}
    /\ blobs = manifest.refs
    /\ packages = {}
    /\ pc = [w \in Writer |-> "idle"]
    /\ run = [w \in Writer |-> NoRun]
    /\ faults = 0

EncryptStep(w) == LoadVault(w) \/ Recovered(w) \/ PlanInitial(w) \/ PlanMigration(w)
                  \/ PlanUpdate(w)

ApplyStep(w) == ValidatePackage(w)

PublishStep(w) ==
    \/ \E b \in Blob : LinkBlob(w, b) \/ DeleteBlob(w, b) \/ RollbackBlob(w, b)
    \/ RecordBlob(w) \/ Commit(w) \/ Finish(w) \/ RolledBack(w) \/ Release(w)

RunStep(w) == EncryptStep(w) \/ ApplyStep(w) \/ PublishStep(w)

Next ==
    \/ \E w \in Writer : StartEncrypt(w) \/ StartApply(w) \/ RunStep(w) \/ Fail(w) \/ Kill(w)
    \/ MakePackage
    \/ ClearAbandonedLock

Spec == Init /\ [][Next]_vars

\* A process that runs keeps running until it ends, fails or is killed.
Fairness == \A w \in Writer : WF_vars(RunStep(w))

LiveSpec == Spec /\ Fairness

---------------------------------------------------------------------------------
(* Properties. *)

TypeOK ==
    /\ lock \in LockStates
    /\ manifest \in Manifest
    /\ blobs \subseteq Blob
    /\ packages \subseteq Package
    /\ pc \in [Writer -> Phase]
    /\ run \in [Writer -> Run]
    /\ faults \in Nat

\* Every blob the manifest names is in the directory, at every step of every
\* run, after every exception and every kill: new blobs come before the manifest
\* that names them and old ones go after it (buildAndPublish, publishUpdate).
ReferencedBlobsPresent == manifest.refs \subseteq blobs

\* The exact-set checks at the end of a cleanup (assertExactBlobSet, the last
\* inspectPublicFiles) never throw: what recovery and garbage collection delete
\* is all there is to delete, whatever earlier runs were interrupted.
CleanupIsExact ==
    \A w \in Writer :
        pc[w] \in {"recover", "clean"} /\ run[w].todo = {} => blobs = manifest.refs

\* The account of a run that stopped before its commit: what is in the directory
\* is what was there, plus what it recorded and has not deleted, plus the one
\* blob whose fsync had not returned.
RollbackAccount ==
    \A w \in Writer :
        run[w].built /\ ~run[w].committed =>
            blobs = run[w].before \union run[w].published \union run[w].pending

\* An update package replaces exactly the generation it was made from.  The code
\* (validateUpdate) compares revisions and object sets, never identities: it is the
\* revision rule of the other writers that makes them enough.  Rotating a password
\* keeps the generation and is the business of module PasswordVault.
ApplyReplacesItsBase ==
    [][\A w \in Writer :
          Commit(w) /\ run[w].op = "apply" /\ manifest' # manifest =>
              \E p \in packages : p.target = manifest' /\ p.base = manifest.id]_vars

\* No run commits over a manifest it has not read: what encrypt_files planned
\* against, and what apply_update validated against, is what the rename replaces.
NoLostUpdate ==
    [][\A w \in Writer :
          Commit(w) /\ ~run[w].committed => run[w].base = manifest]_vars

\* Readers of the directory see complete generations only, one after the other:
\* the link-rename-delete protocol, with its faults, implements AtomicVault.
AV == INSTANCE AtomicVault WITH
          vault <- [kind |-> manifest.kind, rev |-> manifest.rev,
                    readable |-> manifest.refs \intersect blobs]

ImplementsAtomicVault == AV!Spec

\* A run that no fault hits ends and frees the lock for the next writer.
RunTerminates ==
    \A w \in Writer : (lock = w) ~> (lock # w)

\* An encrypt run that nothing interrupts leaves a v2 vault without orphans,
\* whatever the runs before it left behind.
EncryptCollectsOrphans ==
    \A w \in Writer :
        (pc[w] = "load" /\ manifest.kind = "v2" /\ faults = MaxFaults)
            ~> (blobs = manifest.refs)

---------------------------------------------------------------------------------
(* The inductive invariant behind the safety properties. *)

\* Only the process whose token is in the lock file is inside a run.
LockHeld == \A w \in Writer : pc[w] # "idle" => lock = w

\* A manifest that may take the place of another: the next revision of a v2
\* manifest, or the first of a new vault with a new blob for every old one.
Succeeds(target, base) ==
    /\ target.kind = "v2"
    /\ target.rev = IF base.kind = "v2" THEN base.rev + 1 ELSE 1
    /\ base.kind = "v1" => /\ Cardinality(target.refs) = Cardinality(base.refs)
                           /\ target.refs \intersect base.refs = {}

\* A package installs the next revision of a v2 vault and never removes what
\* its own manifest names.
PackagesConsistent ==
    \A p \in packages :
        /\ p.target.kind = "v2"
        /\ p.target.rev = p.baseRev + 1
        /\ p.remove \intersect p.target.refs = {}

\* A package was made from a manifest of this vault: while the revision is still
\* that of its base, the base is what is there.
PackageBases ==
    \A p \in packages :
        /\ manifest.kind = "v2"
        /\ p.baseRev <= manifest.rev
        /\ p.baseRev = manifest.rev => p.base = manifest.id

\* The manifest a run works on is the one it read.
Reading(w) ==
    /\ pc[w] \in {"load", "recover", "plan", "validate"} => ~run[w].built
    /\ pc[w] \in {"load", "recover", "plan"} => run[w].op = "encrypt"
    /\ pc[w] = "validate" => run[w].op = "apply"
    /\ pc[w] \in {"recover", "plan"} => run[w].base = manifest

\* While blobs are linked, the target is covered by what is there and what is
\* still to come; an apply run knows every blob of the directory.
Publishing(w) ==
    pc[w] \in {"publish", "sync"} =>
        /\ run[w].built
        /\ run[w].remove \intersect run[w].target.refs = {}
        /\ run[w].target.refs \subseteq blobs \union run[w].todo
        /\ run[w].op = "apply" =>
              blobs \union run[w].todo \subseteq run[w].target.refs \union run[w].remove
        /\ IF run[w].committed
             THEN run[w].op = "apply" /\ run[w].target = manifest
             ELSE /\ run[w].base = manifest
                  /\ Succeeds(run[w].target, run[w].base)
                  /\ run[w].op = "apply" =>
                        \E p \in packages : p.target = run[w].target /\ p.baseRev = manifest.rev

\* What is left to delete is exactly what the manifest does not name.
Cleaning(w) ==
    pc[w] \in {"recover", "clean"} =>
        /\ run[w].todo \intersect manifest.refs = {}
        /\ blobs \subseteq manifest.refs \union run[w].todo
        /\ pc[w] = "clean" => run[w].committed

\* Rolling back cannot touch what was there before.
Uncommitted(w) ==
    /\ run[w].built /\ ~run[w].committed =>
          /\ blobs = run[w].before \union run[w].published \union run[w].pending
          /\ manifest.refs \subseteq run[w].before
          /\ run[w].before \intersect (run[w].published \union run[w].pending) = {}
          /\ run[w].published \intersect run[w].pending = {}
    /\ pc[w] = "rollback" => run[w].built /\ ~run[w].committed
    /\ pc[w] = "publish" => run[w].pending = {}

Resting(w) == pc[w] = "idle" => run[w] = NoRun

RunInv(w) == Reading(w) /\ Publishing(w) /\ Cleaning(w) /\ Uncommitted(w) /\ Resting(w)

IInv ==
    /\ TypeOK
    /\ LockHeld
    /\ PackagesConsistent
    /\ PackageBases
    /\ ReferencedBlobsPresent
    /\ \A w \in Writer : RunInv(w)
=================================================================================
