--------------------------- MODULE PasswordVaultProofs ---------------------------
(***************************************************************************)
(* No run undoes a revision, and the vault stays unlockable: for any       *)
(* number of runs, passwords, packages and faults.  The second needs that  *)
(* at most one person makes the first password file: two of them are the   *)
(* finding of run first_use_race.                                          *)
(***************************************************************************)
EXTENDS PasswordVault, TLAPS

---------------------------------------------------------------------------------
(* Initial states. *)

LEMMA InitInv == Init => IInv
<1>. SUFFICES ASSUME Init PROVE IInv
  OBVIOUS
<1>1. NoRun \in Run
  BY DEF NoRun, Run, NoVault, Vault, Maybe
<1>2. env \in Maybe /\ file \in Maybe
  BY PasswordAssumption DEF Init, Maybe
<1>3. vault \in Vault
  BY <1>2 DEF Init, NoVault, Vault, Maybe
<1>4. TypeOK
  BY <1>1, <1>2, <1>3, PasswordAssumption
     DEF Init, InitLock, TypeOK, LockStates, Phase, Maybe
<1>5. Exists(vault) \/ vault.slots = {}
  BY DEF Init, NoVault, Exists
<1>. QED
  BY <1>4, <1>5 DEF Init, IInv, LockHeld, InLock, RunFits

---------------------------------------------------------------------------------
(* Steps of one run. *)

LEMMA NoRunIsRun == NoRun \in Run
  BY DEF NoRun, Run, NoVault, Vault, Maybe

\* What a step of the run of w may not disturb in the others.
LEMMA StepOfOneRun ==
  ASSUME IInv, NEW w \in Writer, TypeOK', packages' = packages,
         pc' = [pc EXCEPT ![w] = pc'[w]],
         run' = [run EXCEPT ![w] = run'[w]],
         pc'[w] \in InLock => lock' = w,
         lock' = lock \/ lock \in {w, Free},
         vault' = vault \/ lock = w, vault' = vault \/ Exists(vault'),
         RunFits(w)'
  PROVE  IInv'
<1>1. ASSUME NEW v \in Writer, v # w
      PROVE  pc'[v] = pc[v] /\ run'[v] = run[v]
  BY <1>1 DEF IInv, TypeOK
<1>2. LockHeld'
  BY <1>1, WriterLockAssumption DEF IInv, LockHeld
<1>3. ASSUME NEW v \in Writer, v # w
      PROVE  RunFits(v)'
  <2>1. RunFits(v)
    BY DEF IInv
  <2>2. CASE vault' = vault
    BY <1>1, <1>3, <2>1, <2>2 DEF RunFits
  <2>3. CASE lock = w
    <3>1. pc[v] \notin InLock
      BY <1>3, <2>3 DEF IInv, LockHeld
    <3>. QED
      BY <1>1, <1>3, <2>1, <3>1 DEF RunFits, InLock
  <2>. QED
    BY <2>2, <2>3
<1>. QED
  BY <1>2, <1>3 DEF IInv

LEMMA ChoosePassphraseInv ==
  ASSUME IInv, NEW w \in Writer, ChoosePassphrase(w)
  PROVE  IInv'
<1>1. PICK p \in Maybe :
         /\ p # NoPassword
         /\ run' = [run EXCEPT ![w].pass = p]
         /\ remembered' = remembered \/ (p \in Password /\ remembered' = remembered \union {p})
         /\ pc' = [pc EXCEPT ![w] = "lock"] \/ pc' = [pc EXCEPT ![w] = "write file"]
  BY PasswordAssumption DEF ChoosePassphrase, Go, FreshPasswords, IInv, TypeOK, Maybe
<1>2. UNCHANGED <<lock, env, file, vault, packages, faults>>
  BY DEF ChoosePassphrase
<1>3. p \in Password
  BY <1>1 DEF Maybe
<1>4. run' = [run EXCEPT ![w] = run'[w]] /\ run'[w] \in Run /\ run'[w].pass = p
  BY <1>1 DEF IInv, TypeOK, Run
<1>5. pc' = [pc EXCEPT ![w] = pc'[w]] /\ pc'[w] \in {"lock", "write file"}
  BY <1>1 DEF IInv, TypeOK
<1>6. TypeOK'
  BY <1>1, <1>2, <1>3, <1>4, <1>5 DEF IInv, TypeOK, Phase
<1>7. RunFits(w)'
  BY <1>3, <1>4, <1>5 DEF RunFits
<1>. QED
  BY <1>2, <1>4, <1>5, <1>6, <1>7, StepOfOneRun DEF InLock

\* A run that ends, or goes on with nothing it has read.
LEMMA PlainStepInv ==
  ASSUME IInv, NEW w \in Writer, NEW phase \in {"idle", "validate", "release"},
         Go(w, phase),
         run' = run \/ run' = [run EXCEPT ![w] = NoRun],
         phase # "idle" => lock' = w,
         lock' = lock \/ lock \in {w, Free}, lock' \in LockStates,
         UNCHANGED <<env, file, vault, packages, remembered>>, faults' \in Nat
  PROVE  IInv'
<1>. TypeOK
  BY DEF IInv
<1>1. pc' = [pc EXCEPT ![w] = pc'[w]] /\ pc'[w] = phase
  BY DEF Go, TypeOK
<1>2. run' = [run EXCEPT ![w] = run'[w]] /\ run'[w] \in Run
  BY NoRunIsRun DEF TypeOK
<1>3. TypeOK'
  BY <1>1, <1>2 DEF TypeOK, Phase
<1>4. RunFits(w)'
  BY <1>1 DEF RunFits
<1>. QED
  BY <1>1, <1>2, <1>3, <1>4, StepOfOneRun DEF InLock

\* A run reads the vault and takes the manifest t for its successor.
LEMMA TakeTargetInv ==
  ASSUME IInv, NEW w \in Writer, lock = w,
         UNCHANGED <<lock, env, file, vault, packages, remembered, faults>>,
         NEW t \in Vault, t.rev > 0, t.rev \in {vault.rev, vault.rev + 1},
         run' = [run EXCEPT ![w].seen = vault, ![w].target = t], Go(w, "commit")
  PROVE  IInv'
<1>. TypeOK
  BY DEF IInv
<1>1. pc' = [pc EXCEPT ![w] = pc'[w]] /\ pc'[w] = "commit"
  BY DEF Go, TypeOK
<1>2. /\ run' = [run EXCEPT ![w] = run'[w]]
      /\ run'[w] \in Run /\ run'[w].target = t
  BY DEF TypeOK, Run
<1>3. TypeOK'
  BY <1>1, <1>2 DEF TypeOK, Phase
<1>4. RunFits(w)'
  BY <1>1, <1>2 DEF RunFits, Exists
<1>. QED
  BY <1>1, <1>2, <1>3, <1>4, StepOfOneRun

\* The next revision keeps the slots.
LEMMA NextRevision ==
  ASSUME NEW v \in Vault
  PROVE  \E t \in Vault : /\ t = [v EXCEPT !.rev = @ + 1]
                          /\ t.rev = v.rev + 1 /\ t.rev > 0 /\ t.slots = v.slots
<1>1. [v EXCEPT !.rev = @ + 1] = [rev |-> v.rev + 1, slots |-> v.slots]
  BY DEF Vault
<1>2. [rev |-> v.rev + 1, slots |-> v.slots] \in Vault
  BY DEF Vault
<1>3. v.rev + 1 > 0
  BY DEF Vault
<1>. QED
  BY <1>1, <1>2, <1>3

LEMMA EncryptStepInv ==
  ASSUME IInv, NEW w \in Writer, EncryptStep(w)
  PROVE  IInv'
<1>. TypeOK /\ RunFits(w) /\ run[w] \in Run
  BY DEF IInv, TypeOK
<1>1. CASE WritePassphraseFile(w)
  <2>1. pc' = [pc EXCEPT ![w] = pc'[w]] /\ pc'[w] = "lock"
    BY <1>1 DEF WritePassphraseFile, Go, TypeOK
  <2>2. TypeOK'
    BY <1>1, <2>1 DEF WritePassphraseFile, TypeOK, Run, Phase
  <2>3. RunFits(w)'
    BY <1>1, <2>1 DEF WritePassphraseFile, RunFits
  <2>4. run' = [run EXCEPT ![w] = run'[w]]
    BY <1>1 DEF WritePassphraseFile, TypeOK
  <2>. QED
    BY <1>1, <2>1, <2>2, <2>3, <2>4, StepOfOneRun DEF WritePassphraseFile, InLock
<1>2. CASE LockVault(w)
  <2>1. CASE AcquireLock(w) /\ Go(w, "open") /\ UNCHANGED run
    <3>1. pc' = [pc EXCEPT ![w] = pc'[w]] /\ pc'[w] = "open"
      BY <2>1 DEF Go, TypeOK
    <3>2. TypeOK'
      BY <1>2, <2>1, <3>1 DEF LockVault, AcquireLock, LockStates, TypeOK, Phase
    <3>3. RunFits(w)'
      BY <1>2, <2>1, <3>1 DEF LockVault, RunFits
    <3>4. run' = [run EXCEPT ![w] = run'[w]]
      BY <2>1 DEF TypeOK
    <3>. QED
      BY <1>2, <2>1, <3>1, <3>2, <3>3, <3>4, StepOfOneRun DEF LockVault, AcquireLock
  <2>2. CASE lock # Free /\ Go(w, "idle") /\ run' = [run EXCEPT ![w] = NoRun] /\ UNCHANGED lock
    <3>1. pc' = [pc EXCEPT ![w] = pc'[w]] /\ pc'[w] = "idle"
      BY <2>2 DEF Go, TypeOK
    <3>2. run' = [run EXCEPT ![w] = run'[w]]
      BY <2>2 DEF TypeOK
    <3>3. TypeOK'
      BY <1>2, <2>2, <3>1, NoRunIsRun DEF LockVault, TypeOK, Phase
    <3>4. RunFits(w)'
      BY <3>1 DEF RunFits
    <3>. QED
      BY <1>2, <2>2, <3>1, <3>2, <3>3, <3>4, StepOfOneRun DEF LockVault, InLock
  <2>. QED
    BY <1>2, <2>1, <2>2 DEF LockVault
<1>3. CASE OpenVault(w)
  <2>. lock = w /\ UNCHANGED <<lock, env, file, vault, packages, remembered, faults>>
    BY <1>3 DEF OpenVault, IInv, LockHeld, InLock
  <2>1. CASE Go(w, "release") /\ UNCHANGED run
    BY <2>1, PlainStepInv DEF TypeOK
  <2>2. CASE run[w].pass \in vault.slots /\ vault.rev < MaxRevision /\ Go(w, "commit")
             /\ run' = [run EXCEPT ![w].seen = vault, ![w].target = [vault EXCEPT !.rev = @ + 1]]
    <3>1. PICK t \in Vault : /\ t = [vault EXCEPT !.rev = @ + 1]
                             /\ t.rev = vault.rev + 1 /\ t.rev > 0
      BY NextRevision DEF TypeOK
    <3>2. run' = [run EXCEPT ![w].seen = vault, ![w].target = t]
      BY <2>2, <3>1
    <3>. QED
      BY <2>2, <3>1, <3>2, TakeTargetInv
  <2>3. CASE ~Exists(vault) /\ Go(w, "commit")
             /\ run' = [run EXCEPT ![w].seen = vault,
                                   ![w].target = [rev |-> 1, slots |-> {run[w].pass}]]
    <3>1. run[w].pass \in Password
      BY <1>3 DEF OpenVault, RunFits
    <3>2. vault.rev = 0
      BY <2>3 DEF TypeOK, Vault, Exists
    <3>3. [rev |-> 1, slots |-> {run[w].pass}] \in Vault
      BY <3>1 DEF Vault
    <3>4. PICK t \in Vault : t = [rev |-> 1, slots |-> {run[w].pass}]
      BY <3>3
    <3>5. t.rev > 0 /\ t.rev \in {vault.rev, vault.rev + 1}
      BY <3>2, <3>4
    <3>6. run' = [run EXCEPT ![w].seen = vault, ![w].target = t] /\ Go(w, "commit")
      BY <2>3, <3>4
    <3>. QED
      BY <3>5, <3>6, TakeTargetInv
  <2>. QED
    BY <1>3, <2>1, <2>2, <2>3 DEF OpenVault
<1>. QED
  BY <1>1, <1>2, <1>3 DEF EncryptStep


\* The three manifests of a rotation have the revision it read.
LEMMA SlotsOfSeen ==
  ASSUME NEW v \in Vault, NEW S \in SUBSET Password
  PROVE  \E t \in Vault : t = [v EXCEPT !.slots = S] /\ t.rev = v.rev /\ t.slots = S
<1>1. [v EXCEPT !.slots = S] = [rev |-> v.rev, slots |-> S]
  BY DEF Vault
<1>2. [rev |-> v.rev, slots |-> S] \in Vault
  BY DEF Vault
<1>. QED
  BY <1>1, <1>2

LEMMA RotateStepInv ==
  ASSUME IInv, NEW w \in Writer, RotateStep(w)
  PROVE  IInv'
<1>. TypeOK /\ RunFits(w) /\ run[w] \in Run
  BY DEF IInv, TypeOK
<1>. lock = w
  BY DEF IInv, RotateStep, UnlockForRotation, WriteDualSlots, WriteNewPasswordFile,
         WriteFinalSlot, LockHeld, InLock
<1>1. CASE UnlockForRotation(w)
  <2>1. CASE CurrentPassword \in vault.slots
    <3>1. PICK c \in Password : c = CurrentPassword /\ c \in vault.slots
      BY <2>1 DEF TypeOK, Vault
    <3>2. Exists(vault)
      BY <3>1 DEF IInv
    <3>3. /\ run' = [run EXCEPT ![w] = run'[w]] /\ run'[w] \in Run
          /\ run'[w].pass = c /\ run'[w].new = run[w].new /\ run'[w].seen = vault
      BY <1>1, <2>1, <3>1 DEF UnlockForRotation, TypeOK, Run, Maybe
    <3>4. pc' = [pc EXCEPT ![w] = pc'[w]] /\ pc'[w] = "dual"
      BY <1>1, <2>1 DEF UnlockForRotation, Go, TypeOK
    <3>5. TypeOK'
      BY <1>1, <3>3, <3>4 DEF UnlockForRotation, TypeOK, Phase
    <3>6. RunFits(w)'
      BY <1>1, <3>2, <3>3, <3>4 DEF UnlockForRotation, RunFits
    <3>. QED
      BY <1>1, <3>3, <3>4, <3>5, <3>6, StepOfOneRun DEF UnlockForRotation
  <2>2. CASE CurrentPassword \notin vault.slots
    BY <1>1, <2>2, PlainStepInv DEF UnlockForRotation, TypeOK
  <2>. QED
    BY <2>1, <2>2
<1>2. CASE WriteDualSlots(w)
  <2>1. run[w].pass \in Password /\ run[w].new \in Password /\ Exists(vault)
        /\ run[w].seen \in Vault /\ run[w].seen.rev = vault.rev
    BY <1>2 DEF WriteDualSlots, RunFits, Run
  <2>2. PICK t \in Vault : t = [run[w].seen EXCEPT !.slots = {run[w].pass, run[w].new}]
                           /\ t.rev = run[w].seen.rev
    <3>1. PICK S \in SUBSET Password : S = {run[w].pass, run[w].new}
      BY <2>1
    <3>2. PICK v \in Vault : v = run[w].seen
      BY <2>1
    <3>3. PICK t \in Vault : t = [v EXCEPT !.slots = S] /\ t.rev = v.rev
      BY SlotsOfSeen
    <3>. QED
      BY <3>1, <3>2, <3>3
  <2>3. vault' \in Vault /\ vault'.rev = vault.rev
    BY <1>2, <2>1, <2>2 DEF WriteDualSlots
  <2>4. pc' = [pc EXCEPT ![w] = pc'[w]] /\ pc'[w] = "password file"
    BY <1>2 DEF WriteDualSlots, Go, TypeOK
  <2>5. run' = [run EXCEPT ![w] = run'[w]] /\ TypeOK'
    BY <1>2, <2>3, <2>4 DEF WriteDualSlots, TypeOK, Phase
  <2>6. RunFits(w)'
    BY <1>2, <2>1, <2>3, <2>4 DEF WriteDualSlots, RunFits, Exists
  <2>. QED
    BY <1>2, <2>1, <2>3, <2>4, <2>5, <2>6, StepOfOneRun DEF WriteDualSlots, Exists
<1>3. CASE WriteNewPasswordFile(w)
  <2>1. pc' = [pc EXCEPT ![w] = pc'[w]] /\ pc'[w] = "final"
    BY <1>3 DEF WriteNewPasswordFile, Go, TypeOK
  <2>2. run' = [run EXCEPT ![w] = run'[w]] /\ TypeOK'
    BY <1>3, <2>1 DEF WriteNewPasswordFile, TypeOK, Phase, Run
  <2>3. RunFits(w)'
    BY <1>3, <2>1 DEF WriteNewPasswordFile, RunFits
  <2>. QED
    BY <1>3, <2>1, <2>2, <2>3, StepOfOneRun DEF WriteNewPasswordFile
<1>4. CASE WriteFinalSlot(w)
  <2>1. run[w].new \in Password /\ Exists(vault)
        /\ run[w].seen \in Vault /\ run[w].seen.rev = vault.rev
    BY <1>4 DEF WriteFinalSlot, RunFits, Run
  <2>2. PICK t \in Vault : t = [run[w].seen EXCEPT !.slots = {run[w].new}]
                           /\ t.rev = run[w].seen.rev
    <3>1. PICK S \in SUBSET Password : S = {run[w].new}
      BY <2>1
    <3>2. PICK v \in Vault : v = run[w].seen
      BY <2>1
    <3>3. PICK t \in Vault : t = [v EXCEPT !.slots = S] /\ t.rev = v.rev
      BY SlotsOfSeen
    <3>. QED
      BY <3>1, <3>2, <3>3
  <2>3. vault' \in Vault /\ vault'.rev = vault.rev
    BY <1>4, <2>1, <2>2 DEF WriteFinalSlot
  <2>4. pc' = [pc EXCEPT ![w] = pc'[w]] /\ pc'[w] = "release"
    BY <1>4 DEF WriteFinalSlot, Go, TypeOK
  <2>5. run' = [run EXCEPT ![w] = run'[w]] /\ TypeOK'
    BY <1>4, <2>3, <2>4 DEF WriteFinalSlot, TypeOK, Phase
  <2>6. RunFits(w)'
    BY <2>4 DEF RunFits
  <2>. QED
    BY <1>4, <2>1, <2>3, <2>4, <2>5, <2>6, StepOfOneRun DEF WriteFinalSlot, Exists
<1>. QED
  BY <1>1, <1>2, <1>3, <1>4 DEF RotateStep

LEMMA CommitVaultInv ==
  ASSUME IInv, NEW w \in Writer, CommitVault(w)
  PROVE  IInv'
<1>. TypeOK /\ RunFits(w) /\ run[w] \in Run
  BY DEF IInv, TypeOK
<1>1. lock = w /\ vault' = run[w].target /\ vault' \in Vault /\ Exists(vault')
  BY DEF CommitVault, IInv, LockHeld, InLock, RunFits, Run
<1>2. pc' = [pc EXCEPT ![w] = pc'[w]] /\ pc'[w] = "release"
  BY DEF CommitVault, Go, TypeOK
<1>3. run' = [run EXCEPT ![w] = run'[w]] /\ TypeOK'
  BY <1>1, <1>2 DEF CommitVault, TypeOK, Phase
<1>4. RunFits(w)'
  BY <1>2 DEF RunFits
<1>. QED
  BY <1>1, <1>2, <1>3, <1>4, StepOfOneRun DEF CommitVault

LEMMA ValidatePackageInv ==
  ASSUME IInv, NEW w \in Writer, ValidatePackage(w)
  PROVE  IInv'
<1>. TypeOK
  BY DEF IInv
<1>. lock = w /\ UNCHANGED <<lock, env, file, vault, packages, remembered, faults>>
  BY DEF ValidatePackage, IInv, LockHeld, InLock
<1>1. CASE Go(w, "release") /\ UNCHANGED run
  BY <1>1, PlainStepInv DEF TypeOK
<1>2. ASSUME NEW p \in packages, Applicable(p), Go(w, "commit"),
             run' = [run EXCEPT ![w].seen = vault, ![w].target = p.target]
      PROVE  IInv'
  <2>1. PICK t \in Vault : t = p.target
    BY DEF TypeOK, Package
  <2>2. p.baseRev \in Nat /\ t.rev = p.baseRev + 1
    BY <2>1 DEF IInv, TypeOK, Package
  <2>3. t.rev > 0 /\ t.rev \in {vault.rev, vault.rev + 1}
    BY <1>2, <2>1, <2>2 DEF Applicable
  <2>4. run' = [run EXCEPT ![w].seen = vault, ![w].target = t]
    BY <1>2, <2>1
  <2>. QED
    BY <1>2, <2>3, <2>4, TakeTargetInv
<1>. QED
  BY <1>1, <1>2 DEF ValidatePackage

LEMMA StartRotateInv ==
  ASSUME IInv, NEW w \in Writer, StartRotate(w)
  PROVE  IInv'
<1>. TypeOK
  BY DEF IInv
<1>1. PICK p \in Password : run' = [run EXCEPT ![w] = [NoRun EXCEPT !.new = p]]
  BY DEF StartRotate
<1>2. run' = [run EXCEPT ![w] = run'[w]] /\ run'[w] \in Run /\ run'[w].new = p
  BY <1>1, NoRunIsRun DEF TypeOK, Run, Maybe
<1>3. pc' = [pc EXCEPT ![w] = pc'[w]] /\ pc'[w] = "unlock"
  BY DEF StartRotate, Go, TypeOK
<1>4. TypeOK'
  BY <1>2, <1>3 DEF StartRotate, AcquireLock, LockStates, TypeOK, Phase
<1>5. RunFits(w)'
  BY <1>2, <1>3 DEF RunFits
<1>. QED
  BY <1>2, <1>3, <1>4, <1>5, StepOfOneRun DEF StartRotate, AcquireLock

---------------------------------------------------------------------------------
(* Every step. *)

LEMMA NextInv == IInv /\ [Next]_vars => IInv'
<1>. SUFFICES ASSUME IInv, [Next]_vars PROVE IInv'
  OBVIOUS
<1>. TypeOK
  BY DEF IInv
<1>1. ASSUME NEW w \in Writer, StartApply(w) \/ Release(w) \/ Fail(w) \/ Kill(w)
      PROVE  IInv'
  <2>1. CASE StartApply(w)
    BY <2>1, PlainStepInv DEF StartApply, AcquireLock, LockStates, TypeOK
  <2>2. CASE Release(w)
    <3>1. lock = w
      BY <2>2 DEF Release, IInv, LockHeld, InLock
    <3>. QED
      BY <2>2, <3>1, PlainStepInv DEF Release, ReleaseLock, LockStates, TypeOK
  <2>3. CASE Fail(w)
    <3>1. UNCHANGED <<lock, env, file, vault, packages, remembered>>
      BY <2>3 DEF Fail
    <3>2. lock' \in LockStates /\ faults' \in Nat
      BY <2>3 DEF Fail, TypeOK
    <3>3. CASE lock = w
      <4>1. Go(w, "release") /\ run' = run
        BY <2>3, <3>3 DEF Fail
      <4>. QED
        BY <3>1, <3>2, <3>3, <4>1, PlainStepInv
    <3>4. CASE lock # w
      <4>1. Go(w, "idle") /\ run' = [run EXCEPT ![w] = NoRun]
        BY <2>3, <3>4 DEF Fail
      <4>. QED
        BY <3>1, <3>2, <4>1, PlainStepInv
    <3>. QED
      BY <3>3, <3>4
  <2>4. CASE Kill(w)
    <3>1. lock' = lock \/ (lock = w /\ lock' = Abandoned)
      BY <2>4 DEF Kill, AbandonLock
    <3>2. lock' \in LockStates
      BY <3>1 DEF LockStates, TypeOK
    <3>3. faults' \in Nat
      BY <2>4 DEF Kill, TypeOK
    <3>. QED
      BY <2>4, <3>1, <3>2, <3>3, PlainStepInv DEF Kill
  <2>. QED
    BY <1>1, <2>1, <2>2, <2>3, <2>4
<1>2. CASE MakePackage
  <2>1. PICK t \in Vault : t = [vault EXCEPT !.rev = @ + 1] /\ t.rev = vault.rev + 1
    BY NextRevision DEF TypeOK
  <2>2. packages' = packages \union {[baseRev |-> vault.rev, target |-> t]}
    BY <1>2, <2>1 DEF MakePackage
  <2>3. [baseRev |-> vault.rev, target |-> t] \in Package
    BY DEF TypeOK, Vault, Package
  <2>4. TypeOK'
    BY <1>2, <2>2, <2>3 DEF MakePackage, TypeOK
  <2>5. ASSUME NEW p \in packages' PROVE p.target.rev = p.baseRev + 1
    <3>1. CASE p \in packages
      BY <3>1 DEF IInv
    <3>2. CASE p = [baseRev |-> vault.rev, target |-> t]
      BY <2>1, <3>2
    <3>. QED
      BY <2>2, <3>1, <3>2
  <2>6. \A w \in Writer : RunFits(w)' /\ (pc'[w] \in InLock => lock' = w)
    BY <1>2 DEF MakePackage, IInv, RunFits, LockHeld
  <2>. QED
    BY <1>2, <2>4, <2>5, <2>6 DEF MakePackage, IInv, LockHeld
<1>3. CASE ClearAbandonedLock
  <2>1. TypeOK' /\ \A w \in Writer : pc'[w] = "idle"
    BY <1>3 DEF ClearAbandonedLock, RemoveAbandonedLock, LockStates, TypeOK
  <2>2. \A w \in Writer : RunFits(w)'
    BY <2>1 DEF RunFits
  <2>. QED
    BY <1>3, <2>1, <2>2 DEF ClearAbandonedLock, IInv, LockHeld, InLock
<1>4. CASE UNCHANGED vars
  BY <1>4 DEF vars, IInv, TypeOK, LockHeld, RunFits
<1>. QED
  BY <1>1, <1>2, <1>3, <1>4, ChoosePassphraseInv, EncryptStepInv, RotateStepInv,
     StartRotateInv, ValidatePackageInv, CommitVaultInv DEF Next, RunStep


\* The commit of a run is of the revision it read or the one after; the manifests
\* of a rotation are of the revision it read.
LEMMA RevisionStep ==
  ASSUME IInv, Next
  PROVE  vault'.rev \in {vault.rev, vault.rev + 1}
<1>1. ASSUME NEW w \in Writer, WriteDualSlots(w) \/ WriteFinalSlot(w)
      PROVE  vault'.rev = vault.rev
  <2>1. RunFits(w) /\ run[w].seen \in Vault
    BY DEF IInv, TypeOK, Run
  <2>2. vault'.rev = run[w].seen.rev
    BY <1>1, <2>1 DEF WriteDualSlots, WriteFinalSlot, Vault
  <2>. QED
    BY <1>1, <2>1, <2>2 DEF WriteDualSlots, WriteFinalSlot, RunFits
<1>2. ASSUME NEW w \in Writer, CommitVault(w)
      PROVE  vault'.rev \in {vault.rev, vault.rev + 1}
  BY <1>2 DEF CommitVault, IInv, RunFits
<1>3. ASSUME NEW w \in Writer,
             ChoosePassphrase(w) \/ StartRotate(w) \/ StartApply(w) \/ EncryptStep(w)
             \/ UnlockForRotation(w) \/ WriteNewPasswordFile(w) \/ ValidatePackage(w)
             \/ Release(w) \/ Fail(w) \/ Kill(w)
      PROVE  vault' = vault
  BY <1>3 DEF ChoosePassphrase, StartRotate, StartApply, EncryptStep, WritePassphraseFile,
     LockVault, OpenVault, UnlockForRotation, WriteNewPasswordFile, ValidatePackage, Release,
     Fail, Kill
<1>4. MakePackage \/ ClearAbandonedLock => vault' = vault
  BY DEF MakePackage, ClearAbandonedLock
<1>. QED
  BY <1>1, <1>2, <1>3, <1>4 DEF Next, RunStep, RotateStep

---------------------------------------------------------------------------------
(* Theorems for any number of first runs. *)

\* Every behaviour satisfies the inductive invariant: a run inside the lock holds
\* it, and what it read under the lock still fits the manifest it will replace.
THEOREM InductiveInvariant == Spec => []IInv
  BY InitInv, NextInv, PTL DEF Spec

\* Lock, vault, packages, password file and runs keep their types: a passphrase a
\* run works with is a password, a package is a revision and a manifest.
THEOREM TypeCorrect == Spec => []TypeOK
  BY InductiveInvariant, PTL DEF IInv

\* Whatever encryptions, rotations and applied packages overlap, fail and are
\* killed, the manifest is only replaced by one of the same revision (a rotation,
\* a package applied twice) or of the next: no run undoes what another committed.
THEOREM RevisionsAreKept == Spec => NoRevisionLost
<1>1. IInv /\ [Next]_vars => [vault'.rev \in {vault.rev, vault.rev + 1}]_vars
  BY RevisionStep
<1>. QED
  BY <1>1, InductiveInvariant, PTL DEF Spec, NoRevisionLost

---------------------------------------------------------------------------------
(* The vault stays unlockable. *)

\* At most one of the overlapping runs makes the first password file.  With two
\* the vault may be lost: run first_use_race.
OneInitializer == \A a, b \in Initializer : a = b

\* A run that is at work keeps what it relied on while another run moves: the
\* password file stays, more passwords are known, and the vault is replaced only
\* by who holds the lock.
LEMMA OthersKeepKnown ==
  ASSUME KnownInv, IInv', NEW w \in Writer, NEW v \in Writer, v # w,
         pc'[v] = pc[v], run'[v] = run[v],
         env' = env, file' = file, remembered \subseteq remembered',
         vault' = vault \/ (lock = w /\ Exists(vault'))
  PROVE  FirstFile(v)' /\ RunKeepsKnown(v)'
<1>1. FirstFile(v) /\ RunKeepsKnown(v) /\ Known \subseteq Known'
  BY DEF KnownInv, Known
<1>2. FirstFile(v)'
  BY <1>1 DEF FirstFile
<1>3. CASE vault' = vault
  BY <1>1, <1>2, <1>3 DEF RunKeepsKnown, CurrentPassword
<1>4. CASE lock = w /\ Exists(vault')
  <2>1. pc[v] \notin InLock
    BY <1>4 DEF KnownInv, IInv, LockHeld
  <2>. QED
    BY <1>1, <1>2, <1>4, <2>1 DEF RunKeepsKnown, InLock
<1>. QED
  BY <1>3, <1>4

\* A step of w that leaves the password file alone.
LEMMA StepKeepsKnown ==
  ASSUME KnownInv, IInv', NEW w \in Writer,
         pc' = [pc EXCEPT ![w] = pc'[w]], run' = [run EXCEPT ![w] = run'[w]],
         env' = env, file' = file, packages' = packages, remembered \subseteq remembered',
         vault' = vault \/ (lock = w /\ Exists(vault')),
         vault' = vault \/ vault'.slots \intersect Known # {},
         FirstFile(w)', RunKeepsKnown(w)'
  PROVE  KnownInv'
<1>. TypeOK
  BY DEF KnownInv, IInv
<1>1. ASSUME NEW v \in Writer, v # w PROVE FirstFile(v)' /\ RunKeepsKnown(v)'
  <2>1. pc'[v] = pc[v] /\ run'[v] = run[v]
    BY <1>1 DEF TypeOK
  <2>. QED
    BY <1>1, <2>1, OthersKeepKnown
<1>2. \A v \in Writer : FirstFile(v)' /\ RunKeepsKnown(v)'
  BY <1>1
<1>3. AlwaysUnlockable'
  BY DEF KnownInv, AlwaysUnlockable, Known
<1>4. (env \in remembered \union {NoPassword})'
  BY DEF KnownInv
<1>5. (file = NoPassword => \A p \in packages : p.target.slots \intersect remembered # {})'
  BY DEF KnownInv
<1>. QED
  BY <1>2, <1>3, <1>4, <1>5 DEF KnownInv

LEMMA InitKnown == Init => KnownInv
<1>. SUFFICES ASSUME Init PROVE KnownInv
  OBVIOUS
<1>1. env \in remembered \union {NoPassword} /\ packages = {}
  BY DEF Init
<1>2. AlwaysUnlockable
  BY DEF Init, NoVault, Exists, AlwaysUnlockable
<1>. QED
  BY <1>1, <1>2, InitInv DEF KnownInv, Init, FirstFile, RunKeepsKnown

\* A passphrase that is not typed is known: it is in the environment or in the
\* password file; a generated one waits to be written there.
LEMMA ChoosePassphraseKnown ==
  ASSUME KnownInv, NEW w \in Writer, ChoosePassphrase(w)
  PROVE  KnownInv'
<1>. TypeOK /\ IInv /\ IInv'
  BY ChoosePassphraseInv DEF KnownInv, IInv
<1>1. UNCHANGED <<lock, env, file, vault, packages>> /\ remembered \subseteq remembered'
  BY DEF ChoosePassphrase
<1>2. PICK p \in Maybe :
         /\ run' = [run EXCEPT ![w].pass = p]
         /\ \/ pc' = [pc EXCEPT ![w] = "lock"] /\ p \in Known'
            \/ /\ pc' = [pc EXCEPT ![w] = "write file"]
               /\ w \in Initializer /\ env = NoPassword /\ file = NoPassword
  BY PasswordAssumption
     DEF ChoosePassphrase, Go, FreshPasswords, KnownInv, TypeOK, Maybe, Known
<1>3. run' = [run EXCEPT ![w] = run'[w]] /\ run'[w].pass = p
  BY <1>2 DEF TypeOK, Run
<1>4. /\ pc' = [pc EXCEPT ![w] = pc'[w]]
      /\ \/ pc'[w] = "lock" /\ p \in Known'
         \/ pc'[w] = "write file" /\ w \in Initializer /\ env = NoPassword /\ file = NoPassword
  BY <1>2 DEF TypeOK
<1>5. FirstFile(w)' /\ RunKeepsKnown(w)'
  BY <1>1, <1>3, <1>4 DEF FirstFile, RunKeepsKnown
<1>. QED
  BY <1>1, <1>3, <1>4, <1>5, StepKeepsKnown

\* The first password file makes no known password unknown: there was none before.
LEMMA WritePassphraseFileKnown ==
  ASSUME KnownInv, OneInitializer, NEW w \in Writer, WritePassphraseFile(w)
  PROVE  KnownInv'
<1>. TypeOK /\ IInv
  BY DEF KnownInv, IInv
<1>1. IInv'
  BY EncryptStepInv DEF EncryptStep
<1>2. /\ UNCHANGED <<lock, env, vault, packages, remembered, run>>
      /\ pc' = [pc EXCEPT ![w] = "lock"]
      /\ file = NoPassword /\ env = NoPassword /\ w \in Initializer
      /\ file' = run[w].pass /\ file' \in Password
  BY DEF WritePassphraseFile, Go, KnownInv, FirstFile, IInv, RunFits
<1>3. NoPassword \notin Password
  BY PasswordAssumption
<1>4. ASSUME NEW v \in Writer PROVE FirstFile(v)' /\ RunKeepsKnown(v)'
  <2>. FirstFile(v) /\ RunKeepsKnown(v) /\ RunFits(v) /\ run[v] \in Run
    BY DEF KnownInv, IInv, TypeOK
  <2>1. CASE v = w
    BY <1>2, <2>1 DEF TypeOK, FirstFile, RunKeepsKnown, Known
  <2>2. CASE v # w
    <3>1. pc'[v] = pc[v] /\ run'[v] = run[v]
      BY <1>2, <2>2 DEF TypeOK
    <3>2. pc[v] \notin {"write file", "dual", "password file", "final"}
      BY <1>2, <2>2 DEF FirstFile, OneInitializer, RunKeepsKnown, CurrentPassword
    <3>3. pc[v] \in {"lock", "open"} /\ ~Exists(vault) => run[v].pass \in remembered
      BY <1>2, <1>3 DEF RunFits, RunKeepsKnown, Known
    <3>4. pc[v] = "commit" => run[v].target.slots \intersect remembered # {}
      BY <1>2, <1>3 DEF Run, Vault, RunKeepsKnown, Known
    <3>. QED
      BY <1>2, <3>1, <3>2, <3>3, <3>4 DEF FirstFile, RunKeepsKnown, Known
  <2>. QED
    BY <2>1, <2>2
<1>5. AlwaysUnlockable'
  BY <1>2, <1>3 DEF KnownInv, AlwaysUnlockable, TypeOK, Vault, Exists
<1>. QED
  BY <1>1, <1>2, <1>3, <1>4, <1>5 DEF KnownInv

\* A run that waits, ends, or holds nothing it relies on.
LEMMA PlainStepKnown ==
  ASSUME KnownInv, IInv', NEW w \in Writer,
         pc' = [pc EXCEPT ![w] = pc'[w]], run' = [run EXCEPT ![w] = run'[w]],
         UNCHANGED <<env, file, vault, packages, remembered>>,
         pc'[w] \in {"idle", "validate", "unlock", "release"}
  PROVE  KnownInv'
<1>1. FirstFile(w)' /\ RunKeepsKnown(w)'
  BY DEF FirstFile, RunKeepsKnown
<1>. QED
  BY <1>1, StepKeepsKnown

LEMMA EncryptStepKnown ==
  ASSUME KnownInv, NEW w \in Writer, LockVault(w) \/ OpenVault(w)
  PROVE  KnownInv'
<1>. TypeOK /\ IInv /\ run[w] \in Run /\ RunKeepsKnown(w)
  BY DEF KnownInv, IInv, TypeOK
<1>. IInv' /\ UNCHANGED <<env, file, vault, packages, remembered>>
  BY EncryptStepInv DEF EncryptStep, LockVault, OpenVault
<1>1. CASE LockVault(w)
  <2>1. run' = [run EXCEPT ![w] = run'[w]] /\ pc' = [pc EXCEPT ![w] = pc'[w]]
    BY <1>1 DEF LockVault, Go, TypeOK
  <2>2. pc'[w] = "idle" \/ (pc'[w] = "open" /\ pc[w] = "lock" /\ run' = run)
    BY <1>1 DEF LockVault, Go, TypeOK
  <2>3. FirstFile(w)' /\ RunKeepsKnown(w)'
    BY <2>2 DEF FirstFile, RunKeepsKnown, Known
  <2>. QED
    BY <2>1, <2>3, StepKeepsKnown
<1>2. CASE OpenVault(w)
  <2>0. pc' = [pc EXCEPT ![w] = pc'[w]] /\ pc[w] = "open"
    BY <1>2 DEF OpenVault, Go, TypeOK
  <2>1. CASE Go(w, "release") /\ UNCHANGED run
    <3>1. pc'[w] = "release" /\ run' = [run EXCEPT ![w] = run'[w]]
      BY <2>1 DEF Go, TypeOK
    <3>. QED
      BY <2>0, <3>1, PlainStepKnown
  <2>2. ASSUME NEW t \in Vault, t.slots \intersect Known # {}, Go(w, "commit"),
               run' = [run EXCEPT ![w].seen = vault, ![w].target = t]
        PROVE  KnownInv'
    <3>1. run' = [run EXCEPT ![w] = run'[w]] /\ run'[w].target = t
      BY <2>2 DEF TypeOK, Run
    <3>2. pc'[w] = "commit"
      BY <2>2 DEF Go, TypeOK
    <3>3. FirstFile(w)' /\ RunKeepsKnown(w)'
      BY <2>2, <3>1, <3>2 DEF FirstFile, RunKeepsKnown, Known
    <3>. QED
      BY <2>0, <3>1, <3>3, StepKeepsKnown
  <2>3. CASE run[w].pass \in vault.slots /\ vault.rev < MaxRevision /\ Go(w, "commit")
             /\ run' = [run EXCEPT ![w].seen = vault, ![w].target = [vault EXCEPT !.rev = @ + 1]]
    <3>1. PICK t \in Vault : t = [vault EXCEPT !.rev = @ + 1] /\ t.slots = vault.slots
      BY NextRevision DEF TypeOK
    <3>2. Exists(vault)
      BY <2>3 DEF IInv
    <3>3. t.slots \intersect Known # {}
      BY <3>1, <3>2 DEF KnownInv, AlwaysUnlockable, Known
    <3>4. run' = [run EXCEPT ![w].seen = vault, ![w].target = t] /\ Go(w, "commit")
      BY <2>3, <3>1
    <3>. QED
      BY <2>2, <3>3, <3>4
  <2>4. CASE ~Exists(vault) /\ Go(w, "commit")
             /\ run' = [run EXCEPT ![w].seen = vault,
                                   ![w].target = [rev |-> 1, slots |-> {run[w].pass}]]
    <3>1. run[w].pass \in Password /\ run[w].pass \in Known
      BY <2>0, <2>4 DEF IInv, RunFits, RunKeepsKnown
    <3>2. [rev |-> 1, slots |-> {run[w].pass}] \in Vault
      BY <3>1 DEF Vault
    <3>3. PICK t \in Vault : t = [rev |-> 1, slots |-> {run[w].pass}]
      BY <3>2
    <3>4. t.slots \intersect Known # {}
      BY <3>1, <3>3
    <3>5. run' = [run EXCEPT ![w].seen = vault, ![w].target = t] /\ Go(w, "commit")
      BY <2>4, <3>3
    <3>. QED
      BY <2>2, <3>4, <3>5
  <2>. QED
    BY <1>2, <2>1, <2>3, <2>4 DEF OpenVault
<1>. QED
  BY <1>1, <1>2

\* A rotation opens the vault with the environment or the file, keeps that slot
\* until the password file holds the new one, and drops it only then.
LEMMA RotateStepKnown ==
  ASSUME KnownInv, NEW w \in Writer, RotateStep(w)
  PROVE  KnownInv'
<1>. TypeOK /\ IInv /\ run[w] \in Run /\ RunKeepsKnown(w) /\ RunFits(w)
  BY DEF KnownInv, IInv, TypeOK
<1>. IInv'
  BY RotateStepInv
<1>. lock = w
  BY DEF IInv, RotateStep, UnlockForRotation, WriteDualSlots, WriteNewPasswordFile,
         WriteFinalSlot, LockHeld, InLock
<1>0. NoPassword \notin Password
  BY PasswordAssumption
<1>1. CASE UnlockForRotation(w)
  <2>1. pc' = [pc EXCEPT ![w] = pc'[w]] /\ UNCHANGED <<env, file, vault, packages, remembered>>
    BY <1>1 DEF UnlockForRotation, Go, TypeOK
  <2>2. CASE CurrentPassword \in vault.slots
    <3>1. PICK c \in Password : c = CurrentPassword
      BY <2>2 DEF TypeOK, Vault
    <3>2. c \in Known /\ CurrentPassword # NoPassword
      BY <1>0, <3>1 DEF CurrentPassword, KnownInv, Known
    <3>3. run' = [run EXCEPT ![w] = run'[w]] /\ run'[w].pass = c
      BY <1>1, <2>2, <3>1 DEF UnlockForRotation, TypeOK, Run, Maybe
    <3>4. pc'[w] = "dual"
      BY <1>1, <2>2 DEF UnlockForRotation, Go, TypeOK
    <3>5. FirstFile(w)' /\ RunKeepsKnown(w)'
      BY <2>1, <3>2, <3>3, <3>4 DEF FirstFile, RunKeepsKnown, CurrentPassword, Known
    <3>. QED
      BY <2>1, <3>3, <3>5, StepKeepsKnown
  <2>3. CASE CurrentPassword \notin vault.slots
    <3>1. pc'[w] = "release" /\ run' = [run EXCEPT ![w] = run'[w]]
      BY <1>1, <2>3 DEF UnlockForRotation, Go, TypeOK
    <3>. QED
      BY <2>1, <3>1, PlainStepKnown
  <2>. QED
    BY <2>2, <2>3
<1>2. CASE WriteDualSlots(w)
  <2>1. run[w].pass \in Known /\ CurrentPassword # NoPassword /\ Exists(vault)
    BY <1>2 DEF WriteDualSlots, RunFits, RunKeepsKnown
  <2>2. vault'.slots = {run[w].pass, run[w].new} /\ vault'.rev = run[w].seen.rev
        /\ run[w].seen.rev = vault.rev
    BY <1>2 DEF WriteDualSlots, Run, Vault, RunFits
  <2>3. pc' = [pc EXCEPT ![w] = pc'[w]] /\ pc'[w] = "password file"
    BY <1>2 DEF WriteDualSlots, Go, TypeOK
  <2>4. run' = [run EXCEPT ![w] = run'[w]]
    BY <1>2 DEF WriteDualSlots, TypeOK
  <2>5. FirstFile(w)' /\ RunKeepsKnown(w)'
    BY <1>2, <2>1, <2>2, <2>3 DEF WriteDualSlots, FirstFile, RunKeepsKnown, CurrentPassword
  <2>. QED
    BY <1>2, <2>1, <2>2, <2>3, <2>4, <2>5, StepKeepsKnown DEF WriteDualSlots, Exists
<1>3. CASE WriteNewPasswordFile(w)
  <2>1. /\ UNCHANGED <<lock, env, vault, packages, remembered, run>>
        /\ pc' = [pc EXCEPT ![w] = "final"]
        /\ file' = run[w].new /\ file' \in Password /\ file' \in vault.slots
        /\ CurrentPassword # NoPassword
    BY <1>3 DEF WriteNewPasswordFile, Go, RunFits, RunKeepsKnown
  <2>2. ASSUME NEW v \in Writer PROVE FirstFile(v)' /\ RunKeepsKnown(v)'
    <3>. FirstFile(v)
      BY DEF KnownInv
    <3>1. CASE v = w
      BY <1>0, <2>1, <3>1 DEF TypeOK, FirstFile, RunKeepsKnown, CurrentPassword
    <3>2. CASE v # w
      <4>1. pc'[v] = pc[v] /\ pc[v] \notin InLock /\ Exists(vault')
        BY <1>3, <2>1, <3>2 DEF WriteNewPasswordFile, TypeOK, IInv, LockHeld, RunFits
      <4>2. pc[v] # "write file"
        BY <2>1 DEF FirstFile, CurrentPassword
      <4>. QED
        BY <4>1, <4>2 DEF InLock, FirstFile, RunKeepsKnown
    <3>. QED
      BY <3>1, <3>2
  <2>. QED
    BY <1>0, <2>1, <2>2 DEF KnownInv, AlwaysUnlockable
<1>4. CASE WriteFinalSlot(w)
  <2>1. file = run[w].new /\ Exists(vault)
    BY <1>4 DEF WriteFinalSlot, RunFits, RunKeepsKnown
  <2>2. vault'.slots = {file} /\ vault'.rev = run[w].seen.rev /\ run[w].seen.rev = vault.rev
    BY <1>4, <2>1 DEF WriteFinalSlot, Run, Vault, RunFits
  <2>3. pc' = [pc EXCEPT ![w] = pc'[w]] /\ pc'[w] = "release"
    BY <1>4 DEF WriteFinalSlot, Go, TypeOK
  <2>4. run' = [run EXCEPT ![w] = run'[w]]
    BY <1>4 DEF WriteFinalSlot, TypeOK
  <2>5. FirstFile(w)' /\ RunKeepsKnown(w)'
    BY <2>3 DEF FirstFile, RunKeepsKnown
  <2>6. vault'.slots \intersect Known # {} /\ Exists(vault')
    BY <2>1, <2>2 DEF Known, Exists
  <2>. QED
    BY <1>4, <2>3, <2>4, <2>5, <2>6, StepKeepsKnown DEF WriteFinalSlot
<1>. QED
  BY <1>1, <1>2, <1>3, <1>4 DEF RotateStep

LEMMA CommitVaultKnown ==
  ASSUME KnownInv, NEW w \in Writer, CommitVault(w)
  PROVE  KnownInv'
<1>. TypeOK /\ IInv /\ RunKeepsKnown(w) /\ RunFits(w)
  BY DEF KnownInv, IInv
<1>1. lock = w /\ Exists(vault') /\ vault'.slots \intersect Known # {}
  BY DEF CommitVault, IInv, LockHeld, InLock, RunFits, RunKeepsKnown
<1>2. pc' = [pc EXCEPT ![w] = pc'[w]] /\ pc'[w] = "release" /\ run' = [run EXCEPT ![w] = run'[w]]
  BY DEF CommitVault, Go, TypeOK
<1>3. FirstFile(w)' /\ RunKeepsKnown(w)'
  BY <1>2 DEF FirstFile, RunKeepsKnown
<1>. QED
  BY <1>1, <1>2, <1>3, CommitVaultInv, StepKeepsKnown DEF CommitVault

\* A package is made from a vault that opens, and one that is applied opens with
\* the current password, when there is one.
LEMMA ValidatePackageKnown ==
  ASSUME KnownInv, NEW w \in Writer, ValidatePackage(w)
  PROVE  KnownInv'
<1>. TypeOK /\ IInv /\ IInv'
  BY ValidatePackageInv DEF KnownInv, IInv
<1>. UNCHANGED <<env, file, vault, packages, remembered>>
     /\ pc' = [pc EXCEPT ![w] = pc'[w]]
  BY DEF ValidatePackage, Go, TypeOK
<1>1. CASE Go(w, "release") /\ UNCHANGED run
  <2>1. pc'[w] = "release" /\ run' = [run EXCEPT ![w] = run'[w]]
    BY <1>1 DEF Go, TypeOK
  <2>. QED
    BY <2>1, PlainStepKnown
<1>2. ASSUME NEW p \in packages, Applicable(p), Go(w, "commit"),
             run' = [run EXCEPT ![w].seen = vault, ![w].target = p.target]
      PROVE  KnownInv'
  <2>1. PICK t \in Vault : t = p.target
    BY DEF TypeOK, Package
  <2>2. t.slots \intersect Known # {}
    <3>1. CASE CurrentPassword = NoPassword
      BY <2>1, <3>1 DEF CurrentPassword, KnownInv, Known
    <3>2. CASE CurrentPassword # NoPassword
      <4>1. CurrentPassword \in t.slots
        BY <1>2, <2>1, <3>2 DEF Applicable
      <4>2. CurrentPassword \in Known
        BY <3>2 DEF CurrentPassword, KnownInv, Known
      <4>. QED
        BY <4>1, <4>2
    <3>. QED
      BY <3>1, <3>2
  <2>3. run' = [run EXCEPT ![w] = run'[w]] /\ run'[w].target = t
    BY <1>2, <2>1 DEF TypeOK, Run
  <2>4. pc'[w] = "commit"
    BY <1>2 DEF Go, TypeOK
  <2>5. FirstFile(w)' /\ RunKeepsKnown(w)'
    <3>1. (run[w].target.slots \intersect Known # {})'
      BY <2>2, <2>3 DEF Known
    <3>. QED
      BY <2>4, <3>1 DEF FirstFile, RunKeepsKnown
  <2>. QED
    BY <2>3, <2>5, StepKeepsKnown
<1>. QED
  BY <1>1, <1>2 DEF ValidatePackage

LEMMA MakePackageKnown ==
  ASSUME KnownInv, MakePackage
  PROVE  KnownInv'
<1>. TypeOK /\ IInv
  BY DEF KnownInv, IInv
<1>0. IInv' /\ NoPassword \notin Password
  BY NextInv, PasswordAssumption DEF Next
<1>1. PICK t \in Vault : t = [vault EXCEPT !.rev = @ + 1] /\ t.slots = vault.slots
  BY NextRevision DEF TypeOK
<1>2. packages' = packages \union {[baseRev |-> vault.rev, target |-> t]}
  BY <1>1 DEF MakePackage
<1>3. ASSUME file = NoPassword, NEW p \in packages'
      PROVE  p.target.slots \intersect remembered # {}
  <2>1. CASE p \in packages
    BY <1>3, <2>1 DEF KnownInv
  <2>2. CASE p = [baseRev |-> vault.rev, target |-> t]
    <3>1. p.target.slots = vault.slots /\ vault.slots \subseteq Password
      BY <1>1, <2>2 DEF TypeOK, Vault
    <3>2. vault.slots \intersect (remembered \union {file}) # {}
      BY DEF MakePackage, KnownInv, AlwaysUnlockable
    <3>. QED
      BY <1>0, <1>3, <3>1, <3>2
  <2>. QED
    BY <1>2, <2>1, <2>2
<1>4. \A w \in Writer : FirstFile(w)' /\ RunKeepsKnown(w)'
  BY DEF MakePackage, KnownInv, FirstFile, RunKeepsKnown, Known, CurrentPassword
<1>. QED
  BY <1>0, <1>3, <1>4 DEF MakePackage, KnownInv, AlwaysUnlockable

LEMMA NextKnown == OneInitializer /\ KnownInv /\ [Next]_vars => KnownInv'
<1>. SUFFICES ASSUME OneInitializer, KnownInv, [Next]_vars PROVE KnownInv'
  OBVIOUS
<1>. TypeOK /\ IInv /\ IInv'
  BY NextInv DEF KnownInv, IInv
<1>1. ASSUME NEW w \in Writer, StartRotate(w) \/ StartApply(w) \/ Release(w) \/ Fail(w) \/ Kill(w)
      PROVE  KnownInv'
  <2>1. UNCHANGED <<env, file, vault, packages, remembered>>
    BY <1>1 DEF StartRotate, StartApply, Release, Fail, Kill
  <2>2. pc' = [pc EXCEPT ![w] = pc'[w]] /\ pc'[w] \in {"idle", "validate", "unlock", "release"}
    BY <1>1 DEF StartRotate, StartApply, Release, Fail, Kill, Go, TypeOK
  <2>3. run' = [run EXCEPT ![w] = run'[w]]
    BY <1>1 DEF StartRotate, StartApply, Release, Fail, Kill, TypeOK
  <2>. QED
    BY <2>1, <2>2, <2>3, PlainStepKnown
<1>2. CASE ClearAbandonedLock \/ UNCHANGED vars
  <2>1. UNCHANGED <<env, file, vault, packages, remembered, pc, run>>
    BY <1>2 DEF ClearAbandonedLock, vars
  <2>2. \A w \in Writer : FirstFile(w)' /\ RunKeepsKnown(w)'
    BY <2>1 DEF KnownInv, FirstFile, RunKeepsKnown, Known, CurrentPassword
  <2>. QED
    BY <2>1, <2>2 DEF KnownInv, AlwaysUnlockable
<1>. QED
  BY <1>1, <1>2, ChoosePassphraseKnown, WritePassphraseFileKnown, EncryptStepKnown,
     RotateStepKnown, CommitVaultKnown, ValidatePackageKnown, MakePackageKnown
     DEF Next, RunStep, EncryptStep

\* The vault opens with the password file or with a password a person knows, after
\* every step of every encryption, rotation and applied package, wherever they were
\* interrupted, as long as one run at most makes the first password file: what the
\* failpoint tests of the rotation try at four points of one run.
THEOREM VaultStaysUnlockable == OneInitializer /\ Spec => []AlwaysUnlockable
<1>1. KnownInv => AlwaysUnlockable
  BY DEF KnownInv
<1>2. SUFFICES ASSUME OneInitializer PROVE Spec => []AlwaysUnlockable
  OBVIOUS
<1>3. KnownInv /\ [Next]_vars => KnownInv'
  BY <1>2, NextKnown
<1>. QED
  BY <1>1, <1>3, InitKnown, PTL DEF Spec

---------------------------------------------------------------------------------
(* A rotation settles: what there is to prove of RotationSettles without fairness. *)

\* From its first write to its last one, only a rotation itself changes the vault and the
\* password file, and its last write leaves one slot, for the password in the file.
RotationIsItsOwn ==
    [][\A w \in Writer :
          /\ pc[w] \in {"dual", "password file", "final"} /\ (vault' # vault \/ file' # file)
                => RotateStep(w)
          /\ WriteFinalSlot(w) => vault'.slots = {file'}]_vars

\* While a rotation writes, the others neither replace the vault nor write a password
\* file: the vault is behind the lock, and the first file is there or not needed.
LEMMA OthersLeaveRotation ==
  ASSUME KnownInv, [Next]_vars, NEW w \in Writer,
         pc[w] \in {"dual", "password file", "final"}, ~RotateStep(w)
  PROVE  vault' = vault /\ file' = file
<1>1. lock = w
  BY DEF KnownInv, IInv, LockHeld, InLock
<1>2. env # NoPassword \/ file # NoPassword
  BY DEF KnownInv, RunKeepsKnown, CurrentPassword
<1>3. \A v \in Writer : pc[v] \in InLock => v = w
  BY <1>1 DEF KnownInv, IInv, LockHeld
<1>4. ASSUME NEW v \in Writer, RunStep(v) PROVE vault' = vault /\ file' = file
  <2>1. CASE WritePassphraseFile(v)
    <3>1. pc[v] = "write file"
      BY <2>1 DEF WritePassphraseFile
    <3>2. FirstFile(v)
      BY DEF KnownInv
    <3>. QED
      BY <1>2, <3>1, <3>2 DEF FirstFile
  <2>2. CASE LockVault(v) \/ OpenVault(v)
    BY <2>2 DEF LockVault, OpenVault
  <2>3. CASE CommitVault(v)
    <3>1. pc[v] = "commit"
      BY <2>3 DEF CommitVault
    <3>. QED
      BY <1>3, <3>1 DEF InLock
  <2>4. CASE RotateStep(v)
    <3>1. pc[v] \in {"unlock", "dual", "password file", "final"}
      BY <2>4 DEF RotateStep, UnlockForRotation, WriteDualSlots, WriteNewPasswordFile,
                  WriteFinalSlot
    <3>. QED
      BY <1>3, <2>4, <3>1 DEF InLock
  <2>5. CASE ValidatePackage(v) \/ Release(v)
    BY <2>5 DEF ValidatePackage, Release
  <2>. QED
    BY <1>4, <2>1, <2>2, <2>3, <2>4, <2>5 DEF RunStep, EncryptStep
<1>5. ASSUME NEW v \in Writer,
             ChoosePassphrase(v) \/ StartRotate(v) \/ StartApply(v) \/ Fail(v) \/ Kill(v)
      PROVE  vault' = vault /\ file' = file
  BY <1>5 DEF ChoosePassphrase, StartRotate, StartApply, Fail, Kill
<1>6. CASE MakePackage \/ ClearAbandonedLock \/ UNCHANGED vars
  BY <1>6 DEF MakePackage, ClearAbandonedLock, vars
<1>. QED
  BY <1>4, <1>5, <1>6 DEF Next

\* set_password.mjs: whatever runs beside it, a rotation that is not interrupted ends
\* with one slot, for the password file it has written, as long as one run at most makes
\* the first password file.
THEOREM RotationEndsWithOneSlot == OneInitializer /\ Spec => RotationIsItsOwn
<1>1. SUFFICES ASSUME OneInitializer PROVE Spec => RotationIsItsOwn
  OBVIOUS
<1>2. KnownInv /\ [Next]_vars => KnownInv'
  BY <1>1, NextKnown
<1>3. ASSUME KnownInv, NEW w \in Writer, WriteFinalSlot(w) PROVE vault'.slots = {file'}
  <2>1. /\ vault' = [run[w].seen EXCEPT !.slots = {run[w].new}] /\ file' = file
        /\ file = run[w].new /\ run[w].seen \in Vault
    BY <1>3 DEF WriteFinalSlot, KnownInv, RunKeepsKnown, IInv, TypeOK, Run
  <2>. QED
    BY <2>1 DEF Vault
<1>4. KnownInv /\ [Next]_vars =>
        [\A w \in Writer :
            /\ pc[w] \in {"dual", "password file", "final"} /\ (vault' # vault \/ file' # file)
                  => RotateStep(w)
            /\ WriteFinalSlot(w) => vault'.slots = {file'}]_vars
  BY <1>3, OthersLeaveRotation
<1>. QED
  BY <1>2, <1>4, InitKnown, PTL DEF Spec, RotationIsItsOwn
=================================================================================
