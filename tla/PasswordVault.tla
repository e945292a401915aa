----------------------------- MODULE PasswordVault -----------------------------
(***************************************************************************)
(* Who can open the vault: the password slots of manifest.enc, the local   *)
(* password file, and the programs that change one or both of them.        *)
(*   - "encrypt": encrypt_files.mjs picks a passphrase before it takes the *)
(*     writer lock, creates the vault with it or opens the vault and       *)
(*     commits the next revision with the slots it found;                  *)
(*   - "rotate": set_password.mjs writes a manifest with the old and the   *)
(*     new slot, then the password file, then a manifest with only the     *)
(*     new slot, all under the lock;                                       *)
(*   - "apply": scripts/apply_update.mjs installs a package, whose         *)
(*     manifest carries the slots of the manifest it was made from.        *)
(* A vault is its revision (the body of the manifest) and its slots, a     *)
(* slot is the password that opens it.  Blobs are the business of module   *)
(* VaultPublish: here a commit of a body is one step.                      *)
(***************************************************************************)
EXTENDS WriterLock, Naturals, FiniteSets

CONSTANTS
    Password,     \* passwords
    NoPassword,   \* no password file, no environment variable, no passphrase yet
    EnvPasswords, \* what PRINT_DRIVE_PASSPHRASE may hold, if it is set
    InitialFiles, \* what the password file may hold at first
    Initializer,  \* the runs a person starts while there is no password file
    MaxRevision,  \* bound: no vault is made with a higher revision
    MaxPackages,  \* bound: update packages ever made
    MaxFaults     \* bound: exceptions and kills in one behaviour

ASSUME PasswordAssumption ==
    /\ NoPassword \notin Password
    /\ EnvPasswords \subseteq Password \union {NoPassword}
    /\ InitialFiles \subseteq Password \union {NoPassword}
    /\ Initializer \subseteq Writer
    /\ MaxRevision \in Nat
    /\ MaxPackages \in Nat
    /\ MaxFaults \in Nat

VARIABLES
    env,         \* PRINT_DRIVE_PASSPHRASE, the same for every run
    file,        \* the password file
    vault,       \* manifest.enc: revision 0 is no vault
    packages,    \* the update packages made so far
    remembered,  \* passwords a person knows: the environment's and the typed ones
    pc,          \* where each run is
    run,         \* the local state of each run
    faults       \* exceptions and kills so far

vars == <<lock, env, file, vault, packages, remembered, pc, run, faults>>

---------------------------------------------------------------------------------
(* Data. *)

Maybe == Password \union {NoPassword}

Vault == [rev : Nat, slots : SUBSET Password]

NoVault == [rev |-> 0, slots |-> {}]

Exists(v) == v.rev > 0

\* An update package: the revision it starts from and the manifest it installs.
\* Packages that differ in their objects only are one package here.
Package == [baseRev : Nat, target : Vault]

Phase == {"idle", "write file", "lock", "open", "commit", "unlock", "dual",
          "password file", "final", "validate", "release"}

\* pass   the passphrase the run works with
\* new    the password a rotation installs
\* seen   the envelope the run read
\* target the vault it is going to commit
Run == [pass : Maybe, new : Maybe, seen : Vault, target : Vault]

NoRun == [pass |-> NoPassword, new |-> NoPassword, seen |-> NoVault, target |-> NoVault]

Go(w, phase) == pc' = [pc EXCEPT ![w] = phase]

\* A password no file, slot, package or run holds: 24 random bytes.
FreshPasswords ==
    Password \ ( {env, file} \union remembered \union vault.slots
                 \union UNION {p.target.slots : p \in packages}
                 \union UNION {{run[w].pass, run[w].new} : w \in Writer} )

---------------------------------------------------------------------------------
(* encrypt_files.mjs. *)

\* getPassphrase, before the lock is taken: the environment, then the file,
\* then --init-passphrase, then a prompt.
ChoosePassphrase(w) ==
    /\ pc[w] = "idle"
    /\ \/ /\ env # NoPassword
          /\ run' = [run EXCEPT ![w].pass = env]
          /\ Go(w, "lock")
          /\ UNCHANGED remembered
       \/ /\ env = NoPassword
          /\ file # NoPassword
          /\ run' = [run EXCEPT ![w].pass = file]
          /\ Go(w, "lock")
          /\ UNCHANGED remembered
       \/ /\ env = NoPassword
          /\ file = NoPassword
          /\ w \in Initializer
          /\ \/ \E p \in FreshPasswords :
                   /\ run' = [run EXCEPT ![w].pass = p]
                   /\ Go(w, "write file")
                   /\ UNCHANGED remembered
             \/ \E p \in Password :
                   /\ run' = [run EXCEPT ![w].pass = p]
                   /\ Go(w, "lock")
                   /\ remembered' = remembered \union {p}
    /\ UNCHANGED <<lock, env, file, vault, packages, faults>>

\* --init-passphrase: the file is renamed into place, whatever is there by now.
WritePassphraseFile(w) ==
    /\ pc[w] = "write file"
    /\ file' = run[w].pass
    /\ Go(w, "lock")
    /\ UNCHANGED <<lock, env, vault, packages, remembered, run, faults>>

\* withVaultWriterLock around the rest of the run: it throws when the lock exists.
LockVault(w) ==
    /\ pc[w] = "lock"
    /\ \/ AcquireLock(w) /\ Go(w, "open") /\ UNCHANGED run
       \/ /\ lock # Free
          /\ Go(w, "idle")
          /\ run' = [run EXCEPT ![w] = NoRun]
          /\ UNCHANGED lock
    /\ UNCHANGED <<env, file, vault, packages, remembered, faults>>

\* A vault that the passphrase does not open ends the run.  Otherwise nothing
\* changed, or the next revision gets the slots that are there; a new vault gets
\* one slot, for the passphrase of this run.
OpenVault(w) ==
    /\ pc[w] = "open"
    /\ \/ /\ Exists(vault)
          /\ Go(w, "release")
          /\ UNCHANGED run
       \/ /\ run[w].pass \in vault.slots
          /\ vault.rev < MaxRevision
          /\ run' = [run EXCEPT ![w].seen = vault, ![w].target = [vault EXCEPT !.rev = @ + 1]]
          /\ Go(w, "commit")
       \/ /\ ~Exists(vault)
          /\ run' = [run EXCEPT ![w].seen = vault,
                                ![w].target = [rev |-> 1, slots |-> {run[w].pass}]]
          /\ Go(w, "commit")
    /\ UNCHANGED <<lock, env, file, vault, packages, remembered, faults>>

\* The manifest rename of encrypt_files and of apply_update.
CommitVault(w) ==
    /\ pc[w] = "commit"
    /\ vault' = run[w].target
    /\ Go(w, "release")
    /\ UNCHANGED <<lock, env, file, packages, remembered, run, faults>>

\* The finally block of withVaultWriterLock.
Release(w) ==
    /\ pc[w] = "release"
    /\ ReleaseLock(w)
    /\ Go(w, "idle")
    /\ run' = [run EXCEPT ![w] = NoRun]
    /\ UNCHANGED <<env, file, vault, packages, remembered, faults>>

---------------------------------------------------------------------------------
(* set_password.mjs, and encrypt_files.mjs --rotate-passphrase. *)

\* The new password is typed twice, or generated.
StartRotate(w) ==
    /\ pc[w] = "idle"
    /\ AcquireLock(w)
    /\ \E p \in Password : run' = [run EXCEPT ![w] = [NoRun EXCEPT !.new = p]]
    /\ Go(w, "unlock")
    /\ UNCHANGED <<env, file, vault, packages, remembered, faults>>

\* readCurrentPassword: the environment before the file.
CurrentPassword == IF env # NoPassword THEN env ELSE file

\* The envelope is read once; all three writes are made from this copy.
UnlockForRotation(w) ==
    /\ pc[w] = "unlock"
    /\ IF CurrentPassword \in vault.slots
         THEN /\ run' = [run EXCEPT ![w].pass = CurrentPassword, ![w].seen = vault]
              /\ Go(w, "dual")
         ELSE /\ Go(w, "release")
              /\ UNCHANGED run
    /\ UNCHANGED <<lock, env, file, vault, packages, remembered, faults>>

\* Mutant: no dual-slot step: the old slot goes at once.
WriteNewSlotOnly(w) ==
    /\ pc[w] = "dual"
    /\ vault' = [run[w].seen EXCEPT !.slots = {run[w].new}]
    /\ Go(w, "password file")
    /\ UNCHANGED <<lock, env, file, packages, remembered, run, faults>>

\* Of the slots that were there, only the one the current password opened stays.
WriteDualSlots(w) ==
    /\ pc[w] = "dual"
    /\ vault' = [run[w].seen EXCEPT !.slots = {run[w].pass, run[w].new}]
    /\ Go(w, "password file")
    /\ UNCHANGED <<lock, env, file, packages, remembered, run, faults>>

WriteNewPasswordFile(w) ==
    /\ pc[w] = "password file"
    /\ file' = run[w].new
    /\ Go(w, "final")
    /\ UNCHANGED <<lock, env, vault, packages, remembered, run, faults>>

\* Mutant: the rotation stops after the password file.
KeepDualSlots(w) ==
    /\ pc[w] = "final"
    /\ Go(w, "release")
    /\ UNCHANGED <<lock, env, file, vault, packages, remembered, run, faults>>

WriteFinalSlot(w) ==
    /\ pc[w] = "final"
    /\ vault' = [run[w].seen EXCEPT !.slots = {run[w].new}]
    /\ Go(w, "release")
    /\ UNCHANGED <<lock, env, file, packages, remembered, run, faults>>

---------------------------------------------------------------------------------
(* scripts/apply_update.mjs. *)

\* The browser copies the slots of the manifest it opened.
MakePackage ==
    /\ Exists(vault)
    /\ vault.rev < MaxRevision
    /\ Cardinality(packages) < MaxPackages
    /\ packages' = packages \union
           {[baseRev |-> vault.rev, target |-> [vault EXCEPT !.rev = @ + 1]]}
    /\ UNCHANGED <<lock, env, file, vault, remembered, pc, run, faults>>

StartApply(w) ==
    /\ pc[w] = "idle"
    /\ AcquireLock(w)
    /\ Go(w, "validate")
    /\ UNCHANGED <<env, file, vault, packages, remembered, run, faults>>

\* validateUpdate: the revision must fit, or the very target be there already.
\* A passphrase, when there is one, has to open both manifests; without one
\* only what is public is checked.
Applicable(p) ==
    /\ Exists(vault)
    /\ vault = p.target \/ vault.rev = p.baseRev
    /\ CurrentPassword # NoPassword => CurrentPassword \in vault.slots \intersect p.target.slots

ValidatePackage(w) ==
    /\ pc[w] = "validate"
    /\ \/ Go(w, "release") /\ UNCHANGED run
       \/ \E p \in packages :
             /\ Applicable(p)
             /\ run' = [run EXCEPT ![w].seen = vault, ![w].target = p.target]
             /\ Go(w, "commit")
    /\ UNCHANGED <<lock, env, file, vault, packages, remembered, faults>>

---------------------------------------------------------------------------------
(* What can go wrong, and the person who clears an abandoned lock. *)

\* An exception between two steps (the failpoints of both programs): nothing is
\* undone; a run that has no lock yet simply ends.
Fail(w) ==
    /\ pc[w] \notin {"idle", "release"}
    /\ faults < MaxFaults
    /\ faults' = faults + 1
    /\ Go(w, IF lock = w THEN "release" ELSE "idle")
    /\ run' = IF lock = w THEN run ELSE [run EXCEPT ![w] = NoRun]
    /\ UNCHANGED <<lock, env, file, vault, packages, remembered>>

Kill(w) ==
    /\ pc[w] # "idle"
    /\ faults < MaxFaults
    /\ faults' = faults + 1
    /\ AbandonLock(w)
    /\ Go(w, "idle")
    /\ run' = [run EXCEPT ![w] = NoRun]
    /\ UNCHANGED <<env, file, vault, packages, remembered>>

ClearAbandonedLock ==
    /\ \A w \in Writer : pc[w] = "idle"
    /\ RemoveAbandonedLock
    /\ UNCHANGED <<env, file, vault, packages, remembered, pc, run, faults>>

---------------------------------------------------------------------------------
(* The specification. *)

\* No vault yet, or one that the password file or the environment opens.
Init ==
    /\ InitLock
    /\ env \in EnvPasswords
    /\ file \in InitialFiles
    /\ vault \in {NoVault} \union
           {[rev |-> 1, slots |-> {p}] : p \in {env, file} \ {NoPassword}}
    /\ packages = {}
    /\ remembered = {env} \ {NoPassword}
    /\ pc = [w \in Writer |-> "idle"]
    /\ run = [w \in Writer |-> NoRun]
    /\ faults = 0

EncryptStep(w) == WritePassphraseFile(w) \/ LockVault(w) \/ OpenVault(w)

RotateStep(w) == UnlockForRotation(w) \/ WriteDualSlots(w) \/ WriteNewPasswordFile(w)
                 \/ WriteFinalSlot(w)

RunStep(w) == EncryptStep(w) \/ RotateStep(w) \/ ValidatePackage(w) \/ CommitVault(w)
              \/ Release(w)

Next ==
    \/ \E w \in Writer : ChoosePassphrase(w) \/ StartRotate(w) \/ StartApply(w)
                         \/ RunStep(w) \/ Fail(w) \/ Kill(w)
    \/ MakePackage
    \/ ClearAbandonedLock

Spec == Init /\ [][Next]_vars

\* A process that runs keeps running until it ends, fails or is killed.
Fairness == \A w \in Writer : WF_vars(RunStep(w))

LiveSpec == Spec /\ Fairness

---------------------------------------------------------------------------------
(* Properties. *)

TypeOK ==
    /\ lock \in LockStates
    /\ env \in Maybe
    /\ file \in Maybe
    /\ vault \in Vault
    /\ packages \subseteq Package
    /\ remembered \subseteq Password
    /\ pc \in [Writer -> Phase]
    /\ run \in [Writer -> Run]
    /\ faults \in Nat

\* The vault can be opened by what is stored on this machine or by what a person
\* knows, wherever a rotation, an apply or an encryption was interrupted: the
\* promise of the rotation failpoint tests, for any sequence of interrupted runs,
\* stale packages and repeated rotations.
AlwaysUnlockable ==
    Exists(vault) => vault.slots \intersect ({file} \union remembered) # {}

\* Rotation writes back the body it read: it never undoes the revision another
\* run committed, and no commit skips one.
NoRevisionLost == [][vault'.rev \in {vault.rev, vault.rev + 1}]_vars

\* A rotation that nothing interrupts ends with one slot, for the password in
\* the password file, however many slots an interrupted one left behind.
RotationSettles ==
    \A w \in Writer :
        (pc[w] = "dual" /\ faults = MaxFaults) ~> (vault.slots = {file} /\ pc[w] = "release")

\* The vault opens with the password file alone when no environment variable is
\* set and nobody types a passphrase (docs/ARCHITECTURE.md:17: runs that overlap
\* do not overwrite each other, one of them stops).  The password file of a first
\* --init-passphrase run is written before the lock is asked for.
FirstRunsDoNotOverwrite ==
    Exists(vault) /\ remembered = {} => file \in vault.slots

---------------------------------------------------------------------------------
(* The inductive invariants. *)

InLock == {"open", "commit", "unlock", "dual", "password file", "final", "validate", "release"}

LockHeld == \A w \in Writer : pc[w] \in InLock => lock = w

\* What a run has read still fits the vault it is going to replace.
RunFits(w) ==
    /\ pc[w] \in {"write file", "lock", "open"} => run[w].pass \in Password
    /\ pc[w] \in {"unlock", "dual", "password file", "final"} => run[w].new \in Password
    /\ pc[w] \in {"dual", "password file", "final"} =>
          run[w].pass \in Password /\ Exists(vault) /\ run[w].seen.rev = vault.rev
    /\ pc[w] = "commit" =>
          Exists(run[w].target) /\ run[w].target.rev \in {vault.rev, vault.rev + 1}

\* For any number of first runs.
IInv ==
    /\ TypeOK
    /\ LockHeld
    /\ Exists(vault) \/ vault.slots = {}
    /\ \A p \in packages : p.target.rev = p.baseRev + 1
    /\ \A w \in Writer : RunFits(w)

Known == {file} \union remembered

\* A password file is written before the lock is taken only where there is none.
FirstFile(w) == pc[w] = "write file" => w \in Initializer /\ env = NoPassword /\ file = NoPassword

\* A first vault, an update and each step of a rotation keep a slot for a known password.
RunKeepsKnown(w) ==
    /\ pc[w] \in {"lock", "open"} /\ ~Exists(vault) => run[w].pass \in Known
    /\ pc[w] = "commit" => run[w].target.slots \intersect Known # {}
    /\ pc[w] = "dual" => run[w].pass \in Known
    /\ pc[w] = "password file" => run[w].new \in vault.slots
    /\ pc[w] = "final" => file = run[w].new
    /\ pc[w] \in {"dual", "password file", "final"} => CurrentPassword # NoPassword

\* With at most one person who makes the first password file.
KnownInv ==
    /\ IInv
    /\ env \in remembered \union {NoPassword}
    /\ file = NoPassword => \A p \in packages : p.target.slots \intersect remembered # {}
    /\ \A w \in Writer : FirstFile(w) /\ RunKeepsKnown(w)
    /\ AlwaysUnlockable
=================================================================================
