-------------------------- MODULE BrowserSessionProofs --------------------------
(***************************************************************************)
(* A page that shows a share link holds nothing of a vault and an open     *)
(* vault has its timer; until an unlock begins beside another one, a       *)
(* locked page holds nothing at all and no decrypted file outlives its     *)
(* session: for any number of operations, keys and links.                  *)
(***************************************************************************)
EXTENDS BrowserSession, SequenceTheorems, TLAPS

---------------------------------------------------------------------------------
(* Operations. *)

LEMMA NoOperationFields ==
  /\ NoOperation \in Operation
  /\ NoOperation.kind = "file" /\ ~NoOperation.live
  /\ NoOperation.key = None /\ NoOperation.share = None
  BY DEF NoOperation, Operation, TrustedKind, PublicKind

LEMMA BeginFields ==
  ASSUME NEW kind \in TrustedKind \union PublicKind
  PROVE  /\ Begin(kind) \in Operation
         /\ Begin(kind).kind = kind /\ Begin(kind).live
         /\ Begin(kind).key = None /\ Begin(kind).share = None
  BY DEF Begin, Operation, TrustedKind, PublicKind

LEMMA OutdatedFields ==
  ASSUME SortsOK, NEW kinds
  PROVE  /\ Outdated(kinds) \in [Op -> Operation]
         /\ \A o \in Op :
               /\ Outdated(kinds)[o].kind = op[o].kind
               /\ Outdated(kinds)[o].key = op[o].key
               /\ Outdated(kinds)[o].share = op[o].share
               /\ Outdated(kinds)[o].live => op[o].live /\ op[o].kind \notin kinds
<1>1. ASSUME NEW o \in Op
      PROVE  /\ [op[o] EXCEPT !.live = @ /\ op[o].kind \notin kinds] \in Operation
             /\ Outdated(kinds)[o] = [op[o] EXCEPT !.live = @ /\ op[o].kind \notin kinds]
  BY DEF SortsOK, Operation, Outdated
<1>2. ASSUME NEW o \in Op
      PROVE  /\ Outdated(kinds)[o].kind = op[o].kind
             /\ Outdated(kinds)[o].key = op[o].key
             /\ Outdated(kinds)[o].share = op[o].share
             /\ Outdated(kinds)[o].live = (op[o].live /\ op[o].kind \notin kinds)
  BY <1>1 DEF SortsOK, Operation
<1>3. Outdated(kinds) \in [Op -> Operation]
  BY <1>1 DEF Outdated
<1>. QED
  BY <1>2, <1>3

\* An operation that a step of another one leaves where it is, or outdates.
Rests(o) ==
    /\ pc'[o] = pc[o]
    /\ op'[o].kind = op[o].kind /\ op'[o].key = op[o].key /\ op'[o].share = op[o].share
    /\ op'[o].live => op[o].live

\* The steps of one operation.
LEMMA StartMoves ==
  ASSUME SortsOK, NEW o \in Op, NEW kind \in TrustedKind \union PublicKind, NEW phase \in Phase,
         Start(o, kind, phase)
  PROVE  /\ ~frozen /\ pc[o] = "free"
         /\ pc' \in [Op -> Phase] /\ pc'[o] = phase
         /\ op' \in [Op -> Operation]
         /\ op'[o].kind = kind /\ op'[o].live /\ op'[o].key = None /\ op'[o].share = None
         /\ \A other \in Op \ {o} : Rests(other)
  BY BeginFields DEF Start, At, SortsOK, Rests

LEMMA AwaitMoves ==
  ASSUME SortsOK, NEW o \in Op, NEW phase \in Phase, Await(o, phase)
  PROVE  /\ pc' \in [Op -> Phase] /\ pc'[o] = phase
         /\ op' = op /\ op' \in [Op -> Operation]
         /\ \A other \in Op \ {o} : Rests(other)
  BY DEF Await, SortsOK, Rests

LEMMA EndMoves ==
  ASSUME SortsOK, NEW o \in Op, End(o)
  PROVE  /\ pc' \in [Op -> Phase] /\ pc'[o] = "free"
         /\ op' \in [Op -> Operation] /\ ~op'[o].live
         /\ \A other \in Op \ {o} : Rests(other)
  BY NoOperationFields DEF End, SortsOK, Rests, Phase

\* A step that outdates kinds and gives the place of o to another operation.
LEMMA OutdatedMoves ==
  ASSUME SortsOK, NEW o \in Op, NEW kinds, NEW phase \in Phase, NEW new \in Operation,
         pc' = [pc EXCEPT ![o] = phase],
         op' = [Outdated(kinds) EXCEPT ![o] = new]
  PROVE  /\ pc' \in [Op -> Phase] /\ pc'[o] = phase
         /\ op' \in [Op -> Operation] /\ op'[o] = new
         /\ \A other \in Op \ {o} :
               Rests(other) /\ (op'[other].live => op[other].live /\ op[other].kind \notin kinds)
<1>. DEFINE outdated == Outdated(kinds)
<1>1. /\ outdated \in [Op -> Operation]
      /\ \A other \in Op : /\ outdated[other].kind = op[other].kind
                           /\ outdated[other].key = op[other].key
                           /\ outdated[other].share = op[other].share
                           /\ outdated[other].live => op[other].live /\ op[other].kind \notin kinds
  BY OutdatedFields
<1>2. op' = [outdated EXCEPT ![o] = new]
  OBVIOUS
<1>. HIDE DEF outdated
<1>. QED
  BY <1>1, <1>2 DEF SortsOK, Rests

LEMMA OutdatedRests ==
  ASSUME SortsOK, NEW kinds, op' = Outdated(kinds), pc' = pc
  PROVE  /\ pc' \in [Op -> Phase] /\ op' \in [Op -> Operation]
         /\ \A o \in Op :
               Rests(o) /\ (op'[o].live => op[o].live /\ op[o].kind \notin kinds)
  BY OutdatedFields DEF SortsOK, Rests

---------------------------------------------------------------------------------
(* Initial states. *)

LEMMA NothingTyped ==
  ASSUME pc = [o \in Op |-> "free"], op = [o \in Op |-> NoOperation]
  PROVE  /\ pc \in [Op -> Phase] /\ op \in [Op -> Operation]
         /\ \A o \in Op : pc[o] = "free" /\ ~op[o].live
  BY NoOperationFields DEF Phase

LEMMA InitType == Init => TypeOK
<1>. SUFFICES ASSUME Init PROVE TypeOK
  OBVIOUS
<1>1. /\ pc \in [Op -> Phase] /\ op \in [Op -> Operation]
      /\ registering \in Seq(Op)
  BY NothingTyped DEF Init
<1>. QED
  BY <1>1 DEF Init, TypeOK, SortsOK, FlagsOK, View

LEMMA InitShare == Init => ShareInv
<1>. SUFFICES ASSUME Init PROVE ShareInv
  OBVIOUS
<1>1. \A o \in Op : pc[o] = "free" /\ ~op[o].live
  BY NothingTyped DEF Init
<1>2. \A o \in Op : KindFits(o) /\ PublicFits(o)
  BY <1>1 DEF KindFits, PublicFits, LivePublic
<1>3. RegistrationFits
  BY <1>1 DEF Init, RegistrationFits
<1>. QED
  BY <1>1, <1>2, <1>3, InitType DEF TypeOK, Init, ShareInv, HideFits, NoShare, OpenShareIsCleanAndTimed

LEMMA InitVault == Init => VaultInv
<1>. SUFFICES ASSUME Init PROVE VaultInv
  OBVIOUS
<1>1. \A o \in Op : pc[o] = "free" /\ ~op[o].live
  BY NothingTyped DEF Init
<1>2. \A o \in Op : TrustedFits(o)
  BY <1>1 DEF TrustedFits, LiveAt
<1>. QED
  BY <1>1, <1>2 DEF Init, VaultInv, NothingLeft, NoKeyLeft

---------------------------------------------------------------------------------
(* Types. *)

LEMMA TrustedType ==
  ASSUME SortsOK, NEW o \in Op,
         Derived(o) \/ NotDerived(o) \/ Unlocked(o) \/ NotUnlocked(o)
         \/ Refreshed(o) \/ PromptForFreshPassword(o) \/ Deliver(o) \/ DropFile(o)
         \/ SubmitPassword(o) \/ StartRefresh(o) \/ StartFile(o)
  PROVE  SortsOK'
<1>. USE DEF pageVars, vaultVars, trustedVars, shareVars, publicVars, workerVars
<1>1. CASE Derived(o)
  <2>1. PICK k \in Key :
           /\ decryptKey' = k /\ raw' = raw \union {k}
           /\ pc' = [pc EXCEPT ![o] = "reload"] /\ op' = [op EXCEPT ![o].key = k]
    BY <1>1 DEF Derived, FreshKeys
  <2>2. pc' \in [Op -> Phase] /\ op' \in [Op -> Operation]
    BY <2>1 DEF SortsOK, Operation, Phase
  <2>. QED
    BY <1>1, <2>1, <2>2 DEF Derived, SortsOK, View
<1>2. CASE Unlocked(o)
  <2>1. Begin("worker") \in Operation
    BY BeginFields DEF TrustedKind
  <2>2. pc' \in [Op -> Phase] /\ op' \in [Op -> Operation]
    BY <1>2, <2>1 DEF Unlocked, SortsOK, Phase
  <2>3. registering' \in Seq(Op) /\ registration' \in Op
    BY <1>2, AppendProperties DEF Unlocked, SortsOK
  <2>. QED
    BY <1>2, <2>2, <2>3 DEF Unlocked, SortsOK, View
<1>3. CASE PromptForFreshPassword(o)
  <2>1. pc' \in [Op -> Phase] /\ op' \in [Op -> Operation]
    BY <1>3, OutdatedMoves, NoOperationFields
       DEF PromptForFreshPassword, EndAndInvalidate, Phase
  <2>. QED
    BY <1>3, <2>1 DEF PromptForFreshPassword, ClearVaultMemory, SortsOK, View
<1>4. CASE SubmitPassword(o) \/ StartRefresh(o)
  <2>1. \E kind \in TrustedKind, phase \in Phase : Start(o, kind, phase)
    BY <1>4 DEF SubmitPassword, StartRefresh, TrustedKind, Phase
  <2>2. pc' \in [Op -> Phase] /\ op' \in [Op -> Operation]
    BY <2>1, StartMoves
  <2>. QED
    BY <1>4, <2>2 DEF SubmitPassword, StartRefresh, SortsOK, View
<1>5. CASE StartFile(o)
  <2>1. Begin("file") \in Operation
    BY BeginFields DEF TrustedKind
  <2>2. [Begin("file") EXCEPT !.key = decryptKey] \in Operation
    BY <2>1 DEF Operation, SortsOK
  <2>3. pc' \in [Op -> Phase] /\ op' \in [Op -> Operation]
    BY <1>5, <2>2 DEF StartFile, SortsOK, Phase
  <2>. QED
    BY <1>5, <2>3 DEF StartFile, SortsOK, View
<1>6. CASE NotDerived(o) \/ NotUnlocked(o) \/ Refreshed(o) \/ Deliver(o) \/ DropFile(o)
  <2>1. pc' \in [Op -> Phase] /\ op' \in [Op -> Operation]
    BY <1>6, EndMoves DEF NotDerived, NotUnlocked, Refreshed, Deliver, DropFile
  <2>2. CASE NotDerived(o)
    BY <2>1, <2>2 DEF NotDerived, SortsOK, View
  <2>3. CASE NotUnlocked(o)
    BY <2>1, <2>3 DEF NotUnlocked, ClearVaultMemory, SortsOK, View
  <2>4. CASE Refreshed(o) \/ Deliver(o) \/ DropFile(o)
    BY <2>1, <2>4 DEF Refreshed, Deliver, DropFile, SortsOK
  <2>. QED
    BY <1>6, <2>2, <2>3, <2>4
<1>. QED
  BY <1>1, <1>2, <1>3, <1>4, <1>5, <1>6

LEMMA LockType == SortsOK /\ LockDrive => SortsOK'
<1>. SUFFICES ASSUME SortsOK, LockDrive PROVE SortsOK'
  OBVIOUS
<1>1. op' \in [Op -> Operation]
  BY OutdatedFields DEF LockDrive
<1>. QED
  BY <1>1 DEF LockDrive, ClearVaultMemory, SortsOK, View, publicVars, shareVars, workerVars

LEMMA WorkerType ==
  ASSUME SortsOK, NEW o \in Op, Registered(o) \/ NotRegistered(o) \/ Unregistered(o),
         Unregistered(o) \/ registering # <<>>
  PROVE  SortsOK'
<1>. USE DEF pageVars, vaultVars, trustedVars, shareVars, publicVars, workerVars
<1>1. pc' \in [Op -> Phase] /\ op' \in [Op -> Operation]
  BY EndMoves, AwaitMoves DEF Registered, NotRegistered, Unregistered, Phase
<1>2. registering' \in Seq(Op)
  BY HeadTailProperties DEF Registered, NotRegistered, Unregistered, SortsOK
<1>3. registration' \in Op \union {None}
  BY DEF Registered, NotRegistered, Unregistered, Unregister, SortsOK
<1>. QED
  BY <1>1, <1>2, <1>3 DEF Registered, NotRegistered, Unregistered, SortsOK

LEMMA PublicType ==
  ASSUME SortsOK, NEW o \in Op,
         Settled(o) \/ Cleared(o) \/ Opened(o) \/ Decrypted(o) \/ NotOpened(o),
         KindFits(o)
  PROVE  SortsOK'
<1>. USE DEF pageVars, vaultVars, trustedVars, shareVars, publicVars, workerVars
<1>1. pc' \in [Op -> Phase] /\ op' \in [Op -> Operation]
  BY EndMoves, AwaitMoves DEF Settled, Cleared, Opened, Decrypted, NotOpened, Phase
<1>2. CASE Settled(o) \/ Decrypted(o) \/ NotOpened(o)
  BY <1>1, <1>2 DEF Settled, Decrypted, NotOpened, SortsOK
<1>3. CASE Cleared(o)
  BY <1>1, <1>3 DEF Cleared, SortsOK, View
<1>4. CASE Opened(o)
  BY <1>1, <1>4 DEF Opened, KindFits, At, SortsOK
<1>. QED
  BY <1>2, <1>3, <1>4

LEMMA OpenShareMoves ==
  ASSUME SortsOK, NEW o \in Op, NEW s \in Share, OpenShare(o, s)
  PROVE  /\ ~frozen /\ pc[o] = "free"
         /\ pc' \in [Op -> Phase] /\ pc'[o] = "settle"
         /\ op' \in [Op -> Operation]
         /\ op'[o].kind = "share" /\ op'[o].live /\ op'[o].share = s
         /\ \A other \in Op \ {o} : Rests(other) /\ ~op'[other].live
<1>. DEFINE new == [Begin("share") EXCEPT !.share = s]
<1>1. Begin("share") \in Operation /\ Begin("share").kind = "share" /\ Begin("share").live
  BY BeginFields DEF PublicKind
<1>2. new \in Operation /\ new.kind = "share" /\ new.live /\ new.share = s
  BY <1>1 DEF Operation
<1>3. /\ pc' = [pc EXCEPT ![o] = "settle"]
      /\ op' = [Outdated(TrustedKind \union PublicKind) EXCEPT ![o] = new]
      /\ ~frozen /\ pc[o] = "free"
  BY DEF OpenShare, At
<1>. HIDE DEF new
<1>4. /\ pc' \in [Op -> Phase] /\ pc'[o] = "settle"
      /\ op' \in [Op -> Operation] /\ op'[o] = new
      /\ \A other \in Op \ {o} :
            /\ Rests(other)
            /\ op'[other].live => op[other].live /\ op[other].kind \notin TrustedKind \union PublicKind
  BY <1>2, <1>3, OutdatedMoves DEF Phase
<1>5. \A other \in Op : op[other].kind \in TrustedKind \union PublicKind
  BY DEF SortsOK, Operation
<1>. QED
  BY <1>2, <1>3, <1>4, <1>5

LEMMA CleanupMoves ==
  ASSUME SortsOK, NEW o \in Op, NEW kind \in PublicKind, BeginCleanup(o, kind)
  PROVE  /\ ~frozen /\ pc[o] = "free"
         /\ pc' \in [Op -> Phase] /\ pc'[o] = "settle"
         /\ op' \in [Op -> Operation] /\ op'[o].kind = kind /\ op'[o].live
         /\ \A other \in Op \ {o} :
               Rests(other) /\ (op'[other].live => op[other].kind \notin PublicKind)
<1>1. PICK new \in Operation : new = Begin(kind) /\ new.kind = kind /\ new.live
  BY BeginFields
<1>2. /\ pc' = [pc EXCEPT ![o] = "settle"]
      /\ op' = [Outdated(PublicKind) EXCEPT ![o] = new]
      /\ ~frozen /\ pc[o] = "free"
  BY <1>1 DEF BeginCleanup, At
<1>3. "settle" \in Phase
  BY DEF Phase
<1>4. /\ pc' \in [Op -> Phase] /\ pc'[o] = "settle"
      /\ op' \in [Op -> Operation] /\ op'[o] = new
      /\ \A other \in Op \ {o} :
            Rests(other) /\ (op'[other].live => op[other].live /\ op[other].kind \notin PublicKind)
  BY <1>2, <1>3, OutdatedMoves
<1>. QED
  BY <1>1, <1>2, <1>4

LEMMA ShareType ==
  ASSUME SortsOK, NEW o \in Op,
         \/ \E s \in Share : OpenShare(o, s)
         \/ \E kind \in PublicKind : BeginCleanup(o, kind) /\ publicEnd' \in {publicEnd, o}
  PROVE  SortsOK'
<1>. USE DEF pageVars, vaultVars, trustedVars, shareVars, publicVars, workerVars
<1>1. ASSUME NEW s \in Share, OpenShare(o, s)
      PROVE  SortsOK'
  <2>1. pc' \in [Op -> Phase] /\ op' \in [Op -> Operation]
    BY <1>1, OpenShareMoves
  <2>. QED
    BY <1>1, <2>1 DEF OpenShare, ForgetShare, ClearVaultMemory, SortsOK, View
<1>2. ASSUME NEW kind \in PublicKind, BeginCleanup(o, kind), publicEnd' \in {publicEnd, o}
      PROVE  SortsOK'
  <2>1. pc' \in [Op -> Phase] /\ op' \in [Op -> Operation]
    BY <1>2, CleanupMoves
  <2>. QED
    BY <1>2, <2>1 DEF BeginCleanup, TearDownShare, ForgetShare, ClearVaultMemory, SortsOK
<1>. QED
  BY <1>1, <1>2

\* The operation that clears the browser's data when a share is hidden: nobody waits
\* for it.
LEMMA HiddenMoves ==
  ASSUME SortsOK, NEW o \in Op, pc' = [pc EXCEPT ![o] = "clear"],
         op' = [Outdated(PublicKind) EXCEPT ![o] = [NoOperation EXCEPT !.kind = "hide"]]
  PROVE  /\ pc' \in [Op -> Phase] /\ pc'[o] = "clear"
         /\ op' \in [Op -> Operation] /\ ~op'[o].live
         /\ \A other \in Op \ {o} :
               Rests(other) /\ (op'[other].live => op[other].kind \notin PublicKind)
<1>1. [NoOperation EXCEPT !.kind = "hide"] \in Operation
  BY NoOperationFields DEF Operation, PublicKind
<1>2. ~[NoOperation EXCEPT !.kind = "hide"].live
  BY NoOperationFields DEF Operation
<1>3. PICK new \in Operation : new = [NoOperation EXCEPT !.kind = "hide"]
  BY <1>1
<1>4. ~new.live /\ op' = [Outdated(PublicKind) EXCEPT ![o] = new]
  BY <1>2, <1>3
<1>5. "clear" \in Phase
  BY DEF Phase
<1>6. /\ pc' \in [Op -> Phase] /\ pc'[o] = "clear"
      /\ op' \in [Op -> Operation] /\ op'[o] = new
      /\ \A other \in Op \ {o} :
            /\ Rests(other)
            /\ op'[other].live => op[other].live /\ op[other].kind \notin PublicKind
  BY <1>4, <1>5, OutdatedMoves
<1>. QED
  BY <1>4, <1>6

LEMMA PageType ==
  ASSUME SortsOK,
         ClosePreview \/ RescheduleOnReturn \/ Activity \/ RouteToFile
         \/ ShowUnlockAfterExit \/ StartPage \/ HidePage \/ ShowPage \/ LoadPage \/ TimePasses
  PROVE  SortsOK'
<1>. USE DEF pageVars, vaultVars, trustedVars, shareVars, publicVars, workerVars
<1>1. CASE ClosePreview \/ RescheduleOnReturn \/ Activity \/ ShowUnlockAfterExit \/ RouteToFile
  BY <1>1 DEF ClosePreview, RescheduleOnReturn, Activity, ShowUnlockAfterExit, RouteToFile,
     SortsOK, View
<1>2. CASE TimePasses
  <2>1. expired' \subseteq Share
    BY <1>2 DEF TimePasses, SortsOK
  <2>. QED
    BY <1>2, <2>1 DEF TimePasses, SortsOK
<1>3. CASE StartPage
  <2>1. ASSUME NEW o \in Op, NEW s \in Share, OpenShare(o, s)
        PROVE  SortsOK'
    BY <2>1, ShareType
  <2>2. ASSUME NEW o \in Op, Start(o, "stored", "fetch"), view' = "loading",
               UNCHANGED <<frozen, afterHide, trustedVars, publicVars, stored, workerVars>>
        PROVE  SortsOK'
    <3>1. pc' \in [Op -> Phase] /\ op' \in [Op -> Operation]
      BY <2>2, StartMoves DEF TrustedKind, Phase
    <3>. QED
      BY <2>2, <3>1 DEF SortsOK, View
  <2>3. ASSUME view' = "auth",
               UNCHANGED <<frozen, afterHide, trustedVars, publicVars, stored, workerVars, pc, op>>
        PROVE  SortsOK'
    BY <2>3 DEF SortsOK, View
  <2>. QED
    BY <1>3, <2>1, <2>2, <2>3 DEF StartPage
<1>4. CASE HidePage
  <2>1. pc' \in [Op -> Phase] /\ op' \in [Op -> Operation]
    <3>1. ASSUME NEW o \in Op, pc' = [pc EXCEPT ![o] = "clear"],
                 op' = [Outdated(PublicKind) EXCEPT ![o] = [NoOperation EXCEPT !.kind = "hide"]]
          PROVE  pc' \in [Op -> Phase] /\ op' \in [Op -> Operation]
      BY <3>1, HiddenMoves
    <3>. QED
      BY <1>4, <3>1, OutdatedFields DEF HidePage, SortsOK
  <2>. QED
    BY <1>4, <2>1 DEF HidePage, TearDownShare, ForgetShare, ClearVaultMemory, SortsOK
<1>5. CASE ShowPage
  BY <1>5 DEF ShowPage, SortsOK, View
<1>6. CASE LoadPage
  <2>1. pc' \in [Op -> Phase] /\ op' \in [Op -> Operation]
    BY <1>6, NoOperationFields DEF LoadPage, Phase
  <2>. QED
    BY <1>6, <2>1 DEF LoadPage, SortsOK, View
<1>. QED
  BY <1>1, <1>2, <1>3, <1>4, <1>5, <1>6
---------------------------------------------------------------------------------
(* The invariant of the shares. *)

\* An operation that a step moves, and that is not one of a share afterwards.
MovesBesideShare(o) ==
    /\ ~frozen
    /\ pc[o] # "register" /\ pc'[o] # "register"
    /\ KindFits(o)' /\ ~LivePublic(o)'
    /\ op'[o].live => view' \notin {"share", "exit"}

\* A step in which no share link is opened or closed.
LEMMA StepBesideShare ==
  ASSUME ShareInv, SortsOK',
         UNCHANGED <<frozen, afterHide, capability, exitTimer, expiryTimer>>,
         UNCHANGED <<registering, registration>>,
         opening' => opening,
         \A p \in Op : Rests(p) \/ MovesBesideShare(p),
         view' = view \/ (view # "share" /\ view' \notin {"share", "exit"}),
         view = "share" => decryptKey' = None /\ ~idleTimer',
         stored' => stored, worker' => worker
  PROVE  ShareInv'
<1>1. ASSUME NEW p \in Op
      PROVE  KindFits(p)'
  <2>1. CASE MovesBesideShare(p)
    BY <2>1 DEF MovesBesideShare
  <2>2. CASE Rests(p)
    BY <2>2 DEF ShareInv, KindFits, Rests
  <2>. QED
    BY <2>1, <2>2
<1>2. ASSUME NEW p \in Op, LivePublic(p)'
      PROVE  LivePublic(p) /\ Rests(p)
  BY <1>2 DEF LivePublic, Rests, MovesBesideShare
<1>3. ASSUME NEW p \in Op
      PROVE  PublicFits(p)'
  <2>. SUFFICES ASSUME LivePublic(p)' PROVE PublicFits(p)'
    BY DEF PublicFits
  <2>1. LivePublic(p) /\ Rests(p) /\ PublicFits(p)
    BY <1>2 DEF ShareInv
  <2>2. \A other \in Op : LivePublic(other)' => other = p
    BY <1>2, <2>1 DEF PublicFits
  <2>3. view' = "share"
    BY <2>1 DEF PublicFits
  <2>. QED
    BY <2>1, <2>2, <2>3 DEF PublicFits, NoShare, Rests
<1>4. RegistrationFits'
  <2>1. \A p \in Op : pc'[p] = "register" <=> pc[p] = "register"
    BY DEF Rests, MovesBesideShare
  <2>2. \A i \in 1 .. Len(registering) : registering[i] \in Op
    BY ElementOfSeq DEF ShareInv, SortsOK
  <2>. QED
    BY <2>1, <2>2 DEF ShareInv, RegistrationFits
<1>5. HideFits'
  <2>1. afterHide = "exit" => \A o \in Op : ~op'[o].live
    BY DEF ShareInv, HideFits, Rests, MovesBesideShare
  <2>. QED
    BY <2>1 DEF ShareInv, HideFits, NoShare
<1>6. ASSUME view' \in {"share", "exit"}, NEW o \in Op, op'[o].live
      PROVE  op'[o].kind \in PublicKind
  BY <1>6 DEF ShareInv, Rests, MovesBesideShare
<1>7. (IF view = "share" THEN decryptKey = None /\ ~idleTimer ELSE NoShare)'
  BY DEF ShareInv, NoShare
<1>8. OpenShareIsCleanAndTimed' /\ (capability' # None => registering' = <<>>)
  BY DEF ShareInv, OpenShareIsCleanAndTimed
<1>. QED
  BY <1>1, <1>3, <1>4, <1>5, <1>6, <1>7, <1>8 DEF ShareInv

\* Where an operation of the vault is, no share is shown.
LEMMA VaultOperationAlone ==
  ASSUME ShareInv, NEW o \in Op, op[o].live, pc[o] \notin PublicPhase
  PROVE  /\ op[o].kind \in TrustedKind /\ op[o].kind \notin PublicKind
         /\ view \notin {"share", "exit"}
         /\ NoShare
         /\ \A p \in Op : ~LivePublic(p)
<1>1. op[o].kind \notin PublicKind
  BY DEF ShareInv, KindFits
<1>2. op[o].kind \in TrustedKind
  BY <1>1 DEF ShareInv, SortsOK, Operation
<1>3. view \notin {"share", "exit"}
  BY <1>1 DEF ShareInv
<1>. QED
  BY <1>1, <1>2, <1>3 DEF ShareInv, PublicFits

LEMMA TrustedStepsShare ==
  ASSUME ShareInv, NEW o \in Op,
         Derived(o) \/ NotDerived(o) \/ NotUnlocked(o)
         \/ Refreshed(o) \/ PromptForFreshPassword(o) \/ Deliver(o) \/ DropFile(o)
         \/ SubmitPassword(o) \/ StartRefresh(o) \/ StartFile(o)
  PROVE  ShareInv'
<1>. USE DEF pageVars, vaultVars, trustedVars, shareVars, publicVars, workerVars
<1>1. SortsOK /\ SortsOK'
  BY TrustedType DEF ShareInv
<1>2. /\ pc[o] \in {"free", "fetch", "reload", "refresh", "file"} /\ ~frozen
      /\ UNCHANGED <<frozen, afterHide, capability, opening, exitTimer, expiryTimer>>
      /\ UNCHANGED <<registering, registration>>
      /\ UNCHANGED worker
      /\ stored' => stored
  BY DEF Derived, NotDerived, NotUnlocked, Refreshed, PromptForFreshPassword, Deliver,
     DropFile, SubmitPassword, StartRefresh, StartFile, Start, At
<1>3. ASSUME op[o].live
      PROVE  view \notin {"share", "exit"}
  BY <1>2, <1>3, VaultOperationAlone DEF PublicPhase
<1>4. /\ view' = view \/ (view # "share" /\ view' \notin {"share", "exit"})
      /\ view = "share" => decryptKey' = None /\ ~idleTimer'
  <2>1. view = "share" => decryptKey = None /\ ~idleTimer /\ ~op[o].live
    BY <1>3 DEF ShareInv
  <2>. USE DEF Derived, NotDerived, NotUnlocked, ClearVaultMemory, Current, Refreshed,
         PromptForFreshPassword, Deliver, DropFile, SubmitPassword, StartRefresh, StartFile
  <2>2. view' = view \/ (view # "share" /\ view' \notin {"share", "exit"})
    BY <1>3
  <2>3. view = "share" => decryptKey' = None /\ ~idleTimer'
    BY <2>1
  <2>. QED
    BY <2>2, <2>3
<1>5. /\ \A p \in Op \ {o} : Rests(p)
      /\ pc'[o] # "register"
      /\ KindFits(o)' /\ ~LivePublic(o)'
      /\ op'[o].live => view' \notin {"share", "exit"}
  <2>1. CASE Derived(o)
    <3>1. PICK k \in Key : /\ pc' = [pc EXCEPT ![o] = "reload"]
                           /\ op' = [op EXCEPT ![o].key = k]
      BY <2>1 DEF Derived, FreshKeys
    <3>2. /\ pc'[o] = "reload" /\ op'[o].live /\ op'[o].kind = op[o].kind
          /\ \A p \in Op \ {o} : Rests(p)
      BY <1>1, <3>1, <2>1 DEF SortsOK, Operation, Rests, Derived
    <3>3. op[o].live /\ pc[o] = "fetch"
      BY <2>1 DEF Derived, At
    <3>4. op[o].kind \notin PublicKind
      BY <3>3, VaultOperationAlone DEF PublicPhase
    <3>. QED
      BY <1>3, <3>2, <3>3, <3>4, <2>1 DEF KindFits, LivePublic, PublicPhase, PublicKind, Derived
  <2>2. CASE NotDerived(o) \/ NotUnlocked(o) \/ Refreshed(o) \/ Deliver(o) \/ DropFile(o)
    <3>1. End(o)
      BY <2>2 DEF NotDerived, NotUnlocked, Refreshed, Deliver, DropFile
    <3>. QED
      BY <1>1, <3>1, EndMoves DEF KindFits, LivePublic
  <2>3. CASE PromptForFreshPassword(o)
    <3>1. /\ pc' = [pc EXCEPT ![o] = "free"]
          /\ op' = [Outdated(TrustedKind) EXCEPT ![o] = NoOperation]
      BY <2>3 DEF PromptForFreshPassword, EndAndInvalidate
    <3>2. "free" \in Phase
      BY DEF Phase
    <3>3. /\ pc'[o] = "free" /\ op'[o] = NoOperation
          /\ \A p \in Op \ {o} : Rests(p)
      BY <1>1, <3>1, <3>2, OutdatedMoves, NoOperationFields
    <3>. QED
      BY <3>3, NoOperationFields DEF KindFits, LivePublic
  <2>4. CASE SubmitPassword(o) \/ StartRefresh(o)
    <3>1. PICK kind \in TrustedKind, phase \in {"fetch", "refresh"} : Start(o, kind, phase)
      BY <2>4 DEF SubmitPassword, StartRefresh, TrustedKind
    <3>2. view' \notin {"share", "exit"}
      BY <2>4 DEF SubmitPassword, StartRefresh
    <3>3. phase \in Phase
      BY DEF Phase
    <3>4. /\ pc'[o] = phase /\ op'[o].kind = kind
          /\ \A p \in Op \ {o} : Rests(p)
      BY <1>1, <3>1, <3>3, StartMoves
    <3>. QED
      BY <3>2, <3>4 DEF KindFits, LivePublic, PublicPhase, TrustedKind, PublicKind
  <2>5. CASE StartFile(o)
    <3>1. Begin("file") \in Operation /\ Begin("file").kind = "file"
      BY BeginFields DEF TrustedKind
    <3>2. PICK new \in Operation : new = [Begin("file") EXCEPT !.key = decryptKey]
      BY <1>1, <3>1 DEF Operation, SortsOK
    <3>3. new.kind = "file"
      BY <3>1, <3>2 DEF Operation
    <3>4. pc' = [pc EXCEPT ![o] = "file"] /\ op' = [op EXCEPT ![o] = new]
      BY <2>5, <3>2 DEF StartFile
    <3>5. /\ pc'[o] = "file" /\ op'[o].kind = "file"
          /\ \A p \in Op \ {o} : Rests(p)
      BY <1>1, <3>3, <3>4 DEF SortsOK, Rests
    <3>6. view' \notin {"share", "exit"}
      BY <2>5 DEF StartFile
    <3>. QED
      BY <3>5, <3>6 DEF KindFits, LivePublic, PublicPhase, PublicKind
  <2>. QED
    BY <2>1, <2>2, <2>3, <2>4, <2>5
<1>6. MovesBesideShare(o)
  BY <1>2, <1>5 DEF MovesBesideShare
<1>. QED
  BY <1>1, <1>2, <1>4, <1>5, <1>6, StepBesideShare

LEMMA QuietStepsShare ==
  ASSUME ShareInv,
         LockButton \/ IdleTimerFires \/ LockOnReturn \/ ClosePreview \/ RouteToFile
         \/ ShowUnlockAfterExit \/ TimePasses
  PROVE  ShareInv'
<1>. USE DEF pageVars, vaultVars, trustedVars, shareVars, publicVars, workerVars
<1>1. CASE LockDrive /\ view # "share"
  <2>1. SortsOK' /\ \A p \in Op : Rests(p)
    BY <1>1, LockType, OutdatedRests DEF ShareInv, LockDrive
  <2>. QED
    BY <1>1, <2>1, StepBesideShare DEF LockDrive
<1>2. LockButton \/ IdleTimerFires \/ LockOnReturn => LockDrive /\ view # "share"
  BY DEF LockButton, IdleTimerFires, LockOnReturn, ShareInv
<1>3. CASE ClosePreview \/ RouteToFile \/ ShowUnlockAfterExit \/ TimePasses
  <2>1. SortsOK'
    BY <1>3, PageType DEF ShareInv
  <2>2. \A p \in Op : Rests(p)
    BY <1>3 DEF ClosePreview, RouteToFile, ShowUnlockAfterExit, TimePasses, Rests
  <2>3. view = "share" => decryptKey = None /\ ~idleTimer
    BY DEF ShareInv
  <2>4. CASE ClosePreview \/ TimePasses
    BY <2>1, <2>2, <2>3, <2>4, StepBesideShare DEF ClosePreview, TimePasses
  <2>5. CASE RouteToFile \/ ShowUnlockAfterExit
    <3>1. view # "share" /\ view' = "auth"
      BY <2>5 DEF RouteToFile, ShowUnlockAfterExit, PublicActive
    <3>. QED
      BY <2>1, <2>2, <2>5, <3>1, StepBesideShare DEF RouteToFile, ShowUnlockAfterExit
  <2>. QED
    BY <1>3, <2>4, <2>5
<1>. QED
  BY <1>1, <1>2, <1>3

LEMMA TimersShare ==
  ASSUME ShareInv, Activity \/ RescheduleOnReturn
  PROVE  ShareInv'
<1>. USE DEF pageVars, vaultVars, trustedVars, shareVars, publicVars, workerVars
<1>1. SortsOK'
  BY PageType DEF ShareInv
<1>2. /\ UNCHANGED <<view, frozen, afterHide, capability, opening, expiryTimer, registering,
                     registration, stored, worker, pc, op, decryptKey>>
      /\ exitTimer' => exitTimer \/ capability # None
      /\ exitTimer => exitTimer'
      /\ idleTimer' => idleTimer \/ decryptKey # None
  BY DEF Activity, RescheduleOnReturn
<1>3. NoShare => NoShare'
  BY <1>2 DEF NoShare
<1>4. \A p \in Op : KindFits(p)' /\ PublicFits(p)'
  BY <1>2, <1>3 DEF ShareInv, KindFits, PublicFits, LivePublic
<1>5. RegistrationFits' /\ HideFits'
  BY <1>2, <1>3 DEF ShareInv, RegistrationFits, HideFits
<1>6. (IF view = "share" THEN decryptKey = None /\ ~idleTimer ELSE NoShare)'
  BY <1>2, <1>3 DEF ShareInv
<1>7. OpenShareIsCleanAndTimed'
  BY <1>2 DEF ShareInv, OpenShareIsCleanAndTimed
<1>. QED
  BY <1>1, <1>2, <1>4, <1>5, <1>6, <1>7 DEF ShareInv

LEMMA UnlockedShare ==
  ASSUME ShareInv, NEW o \in Op, Unlocked(o)
  PROVE  ShareInv'
<1>. USE DEF pageVars, vaultVars, trustedVars, shareVars, publicVars, workerVars
<1>1. SortsOK' /\ SortsOK
  BY TrustedType DEF ShareInv
<1>2. /\ op[o].live /\ pc[o] = "reload" /\ ~frozen
      /\ view' = "app"
      /\ pc' = [pc EXCEPT ![o] = "register"] /\ op' = [op EXCEPT ![o] = Begin("worker")]
      /\ registering' = Append(registering, o) /\ registration' = o
      /\ UNCHANGED <<frozen, afterHide, capability, opening, exitTimer, expiryTimer>>
  BY DEF Unlocked, At, Current
<1>3. /\ NoShare /\ NoShare' /\ capability' = None
      /\ \A p \in Op : ~LivePublic(p)
  BY <1>2, VaultOperationAlone DEF PublicPhase, NoShare
<1>4. /\ pc'[o] = "register" /\ op'[o].kind = "worker"
      /\ \A p \in Op \ {o} : pc'[p] = pc[p] /\ op'[p] = op[p]
  BY <1>1, <1>2, BeginFields DEF SortsOK, TrustedKind
<1>5. \A p \in Op : KindFits(p)' /\ ~LivePublic(p)'
  BY <1>3, <1>4 DEF ShareInv, KindFits, LivePublic, PublicPhase, PublicKind
<1>6. RegistrationFits'
  <2>. DEFINE n == Len(registering)
  <2>1. /\ n \in Nat /\ Len(registering') = n + 1 /\ registering' # <<>>
        /\ registering'[n + 1] = o
        /\ \A i \in 1 .. n : registering'[i] = registering[i] /\ registering[i] \in Op
    BY <1>1, <1>2, AppendProperties, ElementOfSeq, LenProperties DEF SortsOK
  <2>2. \A i \in 1 .. n : pc[registering[i]] = "register" /\ registering[i] # o
    BY <1>2 DEF ShareInv, RegistrationFits
  <2>3. \A i \in 1 .. n + 1 : i \in 1 .. n \/ i = n + 1
    BY <2>1
  <2>4. \A i, j \in 1 .. n : registering[i] = registering[j] => i = j
    BY DEF ShareInv, RegistrationFits
  <2>5. \A p \in Op : pc[p] = "register" => \E i \in 1 .. n : registering[i] = p
    BY DEF ShareInv, RegistrationFits
  <2>6. 1 .. n \subseteq 1 .. n + 1 /\ n + 1 \in 1 .. n + 1
    BY <2>1
  <2>. HIDE DEF n
  <2>7. \A i \in 1 .. n + 1 : pc'[registering'[i]] = "register"
    BY <1>4, <2>1, <2>2, <2>3
  <2>8. \A i, j \in 1 .. n + 1 : registering'[i] = registering'[j] => i = j
    BY <2>1, <2>2, <2>3, <2>4
  <2>9. \A p \in Op : pc'[p] = "register" => \E i \in 1 .. n + 1 : registering'[i] = p
    BY <1>4, <2>1, <2>5, <2>6
  <2>10. registration' = registering'[n + 1]
    BY <1>2, <2>1
  <2>. QED
    BY <2>1, <2>7, <2>8, <2>9, <2>10 DEF RegistrationFits
<1>7. HideFits'
  BY <1>2 DEF ShareInv, HideFits
<1>. QED
  BY <1>1, <1>2, <1>3, <1>5, <1>6, <1>7 DEF ShareInv, PublicFits, OpenShareIsCleanAndTimed

\* The registration that the browser is done with is the first one; if others wait,
\* the promise is another one's.
LEMMA RegistrationDone ==
  ASSUME SortsOK, RegistrationFits, NEW o \in Op, pc[o] = "register", Head(registering) = o,
         registering' = Tail(registering),
         pc'[o] # "register", \A p \in Op \ {o} : pc'[p] = pc[p],
         registration # o => registration' = registration
  PROVE  registering # <<>> /\ RegistrationFits'
<1>. DEFINE n == Len(registering)
<1>1. PICK k \in 1 .. n : registering[k] = o
  BY DEF RegistrationFits
<1>2. registering \in Seq(Op) /\ n \in Nat /\ n >= 1 /\ registering # <<>>
  BY <1>1, LenProperties, EmptySeq DEF SortsOK
<1>3. /\ registering[1] = o
      /\ Tail(registering) \in Seq(Op) /\ Len(Tail(registering)) = n - 1
      /\ \A i \in 1 .. n - 1 : Tail(registering)[i] = registering[i + 1]
  BY <1>2, HeadTailProperties
<1>4. \A i \in 1 .. n : registering[i] \in Op
  BY <1>2, ElementOfSeq
<1>5. \A i, j \in 1 .. n : registering[i] = registering[j] => i = j
  BY DEF RegistrationFits
<1>6. \A i \in 1 .. n - 1 : i + 1 \in 1 .. n /\ i + 1 # 1 /\ 1 \in 1 .. n /\ n \in 1 .. n
  BY <1>2
<1>7. \A i \in 1 .. n - 1 : pc'[Tail(registering)[i]] = "register"
  <2>. SUFFICES ASSUME NEW i \in 1 .. n - 1 PROVE pc'[Tail(registering)[i]] = "register"
    OBVIOUS
  <2>1. registering[i + 1] # o /\ registering[i + 1] \in Op
    BY <1>3, <1>4, <1>5, <1>6
  <2>2. pc[registering[i + 1]] = "register"
    BY <1>6 DEF RegistrationFits
  <2>. QED
    BY <1>3, <2>1, <2>2
<1>8. ASSUME NEW i \in 1 .. n - 1, NEW j \in 1 .. n - 1, Tail(registering)[i] = Tail(registering)[j]
      PROVE  i = j
  <2>1. i + 1 = j + 1
    BY <1>3, <1>5, <1>6, <1>8
  <2>. QED
    BY <2>1
<1>9. ASSUME NEW p \in Op, pc'[p] = "register"
      PROVE  \E i \in 1 .. n - 1 : Tail(registering)[i] = p
  <2>1. p # o /\ pc[p] = "register"
    BY <1>9
  <2>2. PICK i \in 1 .. n : registering[i] = p
    BY <2>1 DEF RegistrationFits
  <2>3. i # 1 /\ i - 1 \in 1 .. n - 1 /\ (i - 1) + 1 = i
    BY <1>2, <1>3, <2>1, <2>2
  <2>. QED
    BY <1>3, <2>2, <2>3
<1>10. ASSUME Tail(registering) # <<>>
       PROVE  registration' = Tail(registering)[n - 1]
  <2>1. n - 1 >= 1
    BY <1>2, <1>3, <1>10, EmptySeq
  <2>2. n - 1 \in 1 .. n - 1 /\ (n - 1) + 1 = n
    BY <1>2, <2>1
  <2>3. registration = registering[n] /\ registering[n] # o
    BY <1>2, <1>3, <1>5, <1>6, <2>1 DEF RegistrationFits
  <2>. QED
    BY <1>3, <2>2, <2>3
<1>. HIDE DEF n
<1>. QED
  BY <1>2, <1>3, <1>7, <1>8, <1>9, <1>10 DEF RegistrationFits

LEMMA WorkerShare ==
  ASSUME ShareInv, NEW o \in Op, Registered(o) \/ NotRegistered(o) \/ Unregistered(o)
  PROVE  ShareInv'
<1>. USE DEF pageVars, vaultVars, trustedVars, shareVars, publicVars, workerVars
<1>1. /\ ~frozen /\ pc[o] \in {"register", "unregister"}
      /\ UNCHANGED <<view, frozen, afterHide, capability, opening, exitTimer, expiryTimer, stored,
                     decryptKey, idleTimer>>
      /\ Await(o, "unregister") \/ End(o)
      /\ registration' \in {registration, IF registration = o THEN None ELSE registration}
  BY DEF Registered, NotRegistered, Unregistered, Unregister, At
<1>2. /\ pc'[o] \in {"unregister", "free"}
      /\ pc'[o] = "free" => ~op'[o].live
      /\ op'[o].live => op[o].live /\ op'[o].kind = op[o].kind
      /\ \A p \in Op \ {o} : Rests(p)
  <2>1. CASE Await(o, "unregister")
    BY <2>1, AwaitMoves DEF ShareInv, Phase
  <2>2. CASE End(o)
    BY <2>2, EndMoves DEF ShareInv
  <2>. QED
    BY <1>1, <2>1, <2>2
<1>3. RegistrationFits' /\ (registering # <<>> \/ Unregistered(o))
  <2>1. CASE Registered(o) \/ NotRegistered(o)
    <3>1. /\ pc[o] = "register" /\ Head(registering) = o /\ registering' = Tail(registering)
          /\ registration # o => registration' = registration
      BY <2>1 DEF Registered, NotRegistered, Unregister, At
    <3>2. pc'[o] # "register" /\ \A p \in Op \ {o} : pc'[p] = pc[p]
      BY <1>2 DEF Rests
    <3>. QED
      BY <3>1, <3>2, RegistrationDone DEF ShareInv
  <2>2. CASE Unregistered(o)
    <3>1. /\ registering' = registering /\ pc[o] = "unregister"
          /\ registration # o => registration' = registration
      BY <2>2 DEF Unregistered, Unregister, At
    <3>2. registering # <<>> => Len(registering) \in 1 .. Len(registering)
      BY LenProperties, EmptySeq DEF ShareInv, SortsOK
    <3>3. registering # <<>> => registration # o
      BY <3>1, <3>2 DEF ShareInv, RegistrationFits
    <3>4. \A i \in 1 .. Len(registering) : registering[i] \in Op
      BY ElementOfSeq DEF ShareInv, SortsOK
    <3>5. \A p \in Op : pc'[p] = "register" <=> pc[p] = "register"
      BY <1>2, <3>1 DEF Rests
    <3>. QED
      BY <2>2, <3>1, <3>3, <3>4, <3>5 DEF ShareInv, RegistrationFits
  <2>. QED
    BY <2>1, <2>2
<1>4. SortsOK'
  BY <1>3, WorkerType DEF ShareInv
<1>5. \A p \in Op : KindFits(p)'
  <2>1. KindFits(o)'
    BY <1>1, <1>2 DEF ShareInv, KindFits, PublicPhase, PublicKind
  <2>2. \A p \in Op \ {o} : KindFits(p)'
    BY <1>2 DEF ShareInv, KindFits, Rests
  <2>. QED
    BY <2>1, <2>2
<1>6. \A p \in Op : LivePublic(p)' => LivePublic(p) /\ p # o /\ Rests(p)
  <2>1. ~LivePublic(o)'
    BY <1>1, <1>2 DEF ShareInv, KindFits, LivePublic, PublicPhase
  <2>. QED
    BY <1>2, <2>1 DEF LivePublic, Rests
<1>7. ASSUME NEW p \in Op
      PROVE  PublicFits(p)'
  <2>. SUFFICES ASSUME LivePublic(p)' PROVE PublicFits(p)'
    BY DEF PublicFits
  <2>1. /\ LivePublic(p) /\ Rests(p) /\ PublicFits(p) /\ KindFits(p)
        /\ \A other \in Op : LivePublic(other)' => other = p
    BY <1>6 DEF ShareInv, PublicFits
  <2>2. op[p].kind # "share" => NoShare'
    BY <1>1, <2>1 DEF PublicFits, NoShare
  <2>3. CASE registering # <<>>
    <3>1. op[p].kind = "share" => pc[p] = "settle"
      BY <2>1, <2>3 DEF PublicFits
    <3>2. pc[p] \notin {"open", "decrypt"}
      BY <2>1, <3>1 DEF KindFits, LivePublic
    <3>. QED
      BY <1>1, <2>1, <2>2, <3>1, <3>2 DEF PublicFits, Rests
  <2>4. CASE Unregistered(o)
    <3>1. registering' = registering /\ worker' = FALSE
      BY <2>4 DEF Unregistered
    <3>. QED
      BY <1>1, <2>1, <2>2, <3>1 DEF PublicFits, Rests
  <2>. QED
    BY <1>3, <2>3, <2>4
<1>8. HideFits'
  BY <1>1, <1>2 DEF ShareInv, HideFits
<1>9. (IF view = "share" THEN decryptKey = None /\ ~idleTimer ELSE NoShare)'
  BY <1>1 DEF ShareInv, NoShare
<1>10. ASSUME view' \in {"share", "exit"}, NEW p \in Op, op'[p].live
       PROVE  op'[p].kind \in PublicKind
  BY <1>1, <1>2, <1>10 DEF ShareInv, Rests
<1>11. OpenShareIsCleanAndTimed' /\ (capability' # None => registering' = <<>>)
  <2>. SUFFICES ASSUME capability # None
                PROVE  OpenShareIsCleanAndTimed' /\ registering' = <<>>
    BY <1>1 DEF OpenShareIsCleanAndTimed
  <2>1. registering = <<>> /\ Unregistered(o)
    BY <1>3 DEF ShareInv
  <2>. QED
    BY <1>1, <2>1 DEF ShareInv, OpenShareIsCleanAndTimed, Unregistered
<1>. QED
  BY <1>3, <1>4, <1>5, <1>7, <1>8, <1>9, <1>10, <1>11 DEF ShareInv

\* A step after which at most the operation o is live, and that one is of a share.
LEMMA StepToOneShare ==
  ASSUME ShareInv, SortsOK', NEW o \in Op,
         UNCHANGED <<registering, registration>>,
         pc[o] # "register", pc'[o] # "register",
         \A p \in Op \ {o} : Rests(p) /\ ~op'[p].live,
         op'[o].live => op'[o].kind \in PublicKind,
         KindFits(o)', PublicFits(o)', HideFits',
         (IF view = "share" THEN decryptKey = None /\ ~idleTimer ELSE NoShare)',
         OpenShareIsCleanAndTimed', capability' # None => registering = <<>>
  PROVE  ShareInv'
<1>1. \A p \in Op : KindFits(p)'
  BY DEF ShareInv, KindFits, Rests
<1>2. \A p \in Op : PublicFits(p)'
  BY DEF PublicFits, LivePublic
<1>3. \A p \in Op : op'[p].live => op'[p].kind \in PublicKind
  OBVIOUS
<1>4. RegistrationFits'
  <2>1. \A p \in Op : pc'[p] = "register" <=> pc[p] = "register"
    BY DEF Rests
  <2>2. \A i \in 1 .. Len(registering) : registering[i] \in Op
    BY ElementOfSeq DEF ShareInv, SortsOK
  <2>. QED
    BY <2>1, <2>2 DEF ShareInv, RegistrationFits
<1>. QED
  BY <1>1, <1>2, <1>3, <1>4 DEF ShareInv

LEMMA OpenShareShare ==
  ASSUME ShareInv, NEW o \in Op, NEW s \in Share, OpenShare(o, s)
  PROVE  ShareInv'
<1>. USE DEF pageVars, vaultVars, trustedVars, shareVars, publicVars, workerVars
<1>1. SortsOK'
  BY ShareType DEF ShareInv
<1>2. /\ ~frozen /\ pc[o] = "free" /\ pc'[o] = "settle"
      /\ op'[o].kind = "share" /\ op'[o].live /\ op'[o].share = s
      /\ \A p \in Op \ {o} : Rests(p) /\ ~op'[p].live
  BY OpenShareMoves DEF ShareInv
<1>3. /\ view' = "share" /\ capability' = None /\ decryptKey' = None /\ ~idleTimer'
      /\ UNCHANGED <<frozen, afterHide, registering, registration>>
  BY DEF OpenShare, ForgetShare, ClearVaultMemory
<1>4. HideFits'
  BY <1>2, <1>3 DEF ShareInv, HideFits
<1>5. KindFits(o)' /\ PublicFits(o)'
  BY <1>2, <1>3 DEF KindFits, PublicFits, LivePublic, PublicPhase, PublicKind
<1>. QED
  BY <1>1, <1>2, <1>3, <1>4, <1>5, StepToOneShare DEF OpenShareIsCleanAndTimed, PublicKind

\* What closes a share begins where one is open, opened or closed.
LEMMA CleanupShare ==
  ASSUME ShareInv, NEW o \in Op,
         EndByButton(o) \/ EndByIdleTimer(o) \/ EndOnReturn(o)
         \/ ExpireByTimer(o) \/ ExpireByUse(o) \/ RouteFromShare(o)
  PROVE  ShareInv' /\ view = "share"
<1>. USE DEF pageVars, vaultVars, trustedVars, shareVars, publicVars, workerVars
<1>1. view = "share"
  <2>1. ~NoShare \/ view = "share"
    BY SessionAssumption DEF EndByButton, EndByIdleTimer, EndOnReturn, ExpireByTimer, ExpireByUse,
       RouteFromShare, PublicActive, NoShare, ShareInv, SortsOK
  <2>. QED
    BY <2>1 DEF ShareInv
<1>2. PICK kind \in {"end", "expire", "route"} :
         BeginCleanup(o, kind) /\ publicEnd' \in {publicEnd, o}
  BY DEF EndByButton, EndByIdleTimer, EndOnReturn, ExpireByTimer, ExpireByUse, RouteFromShare
<1>3. kind \in PublicKind /\ kind # "share"
  BY DEF PublicKind
<1>4. SortsOK'
  BY <1>2, <1>3, ShareType DEF ShareInv
<1>5. /\ ~frozen /\ pc[o] = "free" /\ pc'[o] = "settle"
      /\ op'[o].kind = kind /\ op'[o].live
      /\ \A p \in Op \ {o} : Rests(p) /\ (op'[p].live => op[p].kind \notin PublicKind)
  BY <1>2, <1>3, CleanupMoves DEF ShareInv
<1>6. \A p \in Op \ {o} : Rests(p) /\ ~op'[p].live
  BY <1>1, <1>5 DEF ShareInv, Rests
<1>7. /\ NoShare' /\ decryptKey' = None
      /\ UNCHANGED <<view, frozen, afterHide, registering, registration, idleTimer>>
  BY <1>2 DEF BeginCleanup, TearDownShare, ForgetShare, ClearVaultMemory, NoShare
<1>8. HideFits'
  BY <1>5, <1>7 DEF ShareInv, HideFits
<1>9. KindFits(o)' /\ PublicFits(o)'
  BY <1>1, <1>3, <1>5, <1>6, <1>7 DEF KindFits, PublicFits, LivePublic, PublicPhase, PublicKind
<1>10. view' = "share" => decryptKey' = None /\ ~idleTimer'
  BY <1>1, <1>7 DEF ShareInv
<1>11. capability' = None
  BY <1>7 DEF NoShare
<1>12. pc[o] # "register" /\ pc'[o] # "register" /\ op'[o].kind \in PublicKind
  BY <1>3, <1>5
<1>13. OpenShareIsCleanAndTimed' /\ (capability' # None => registering = <<>>)
  BY <1>11 DEF OpenShareIsCleanAndTimed
<1>14. (IF view = "share" THEN decryptKey = None /\ ~idleTimer ELSE NoShare)'
  BY <1>7, <1>10
<1>. QED
  BY <1>1, <1>4, <1>6, <1>7, <1>8, <1>9, <1>12, <1>13, <1>14, StepToOneShare

\* Where a share is opened or closed, nothing else is live.
LEMMA ShareOperationAlone ==
  ASSUME ShareInv, NEW o \in Op, op[o].live, pc[o] \in PublicPhase
  PROVE  /\ LivePublic(o) /\ KindFits(o) /\ PublicFits(o)
         /\ view = "share" /\ decryptKey = None /\ ~idleTimer
         /\ op[o].kind \in PublicKind
         /\ \A p \in Op \ {o} : ~op[p].live
<1>1. LivePublic(o) /\ KindFits(o) /\ PublicFits(o) /\ op[o].kind \in PublicKind
  BY DEF ShareInv, KindFits, LivePublic
<1>2. view = "share" /\ decryptKey = None /\ ~idleTimer
  BY <1>1 DEF PublicFits, ShareInv
<1>3. \A p \in Op \ {o} : ~op[p].live
  BY <1>1, <1>2 DEF ShareInv, PublicFits, LivePublic
<1>. QED
  BY <1>1, <1>2, <1>3

LEMMA PublicStepsShare ==
  ASSUME ShareInv, NEW o \in Op,
         Settled(o) \/ Cleared(o) \/ Opened(o) \/ Decrypted(o) \/ NotOpened(o)
  PROVE  ShareInv'
<1>. USE DEF pageVars, vaultVars, trustedVars, shareVars, publicVars, workerVars
<1>1. SortsOK /\ SortsOK'
  BY PublicType DEF ShareInv
<1>2. /\ ~frozen /\ pc[o] \in PublicPhase
      /\ UNCHANGED <<frozen, afterHide, registering, registration, decryptKey, idleTimer>>
      /\ Await(o, "clear") \/ Await(o, "open") \/ Await(o, "decrypt") \/ End(o)
      /\ stored' => stored
      /\ worker' => worker
      /\ opening' => opening
  <2>1. /\ ~frozen /\ pc[o] \in PublicPhase
        /\ Await(o, "clear") \/ Await(o, "open") \/ Await(o, "decrypt") \/ End(o)
    BY DEF Settled, Cleared, Opened, Decrypted, NotOpened, At, PublicPhase
  <2>2. UNCHANGED <<frozen, afterHide, registering, registration, decryptKey, idleTimer>>
    BY DEF Settled, Cleared, Opened, Decrypted, NotOpened
  <2>3. (stored' => stored) /\ (worker' => worker)
    BY DEF Settled, Cleared, Opened, Decrypted, NotOpened
  <2>4. opening' => opening
    BY DEF Settled, Cleared, Opened, Decrypted, NotOpened
  <2>. QED
    BY <2>1, <2>2, <2>3, <2>4
<1>3. /\ \A p \in Op \ {o} : Rests(p)
      /\ pc[o] # "register" /\ pc'[o] # "register"
      /\ op'[o].live => /\ op[o].live /\ op'[o] = op[o] /\ pc'[o] \in PublicPhase
      /\ pc'[o] = "free" => ~op'[o].live
  <2>1. CASE Await(o, "clear") \/ Await(o, "open") \/ Await(o, "decrypt")
    <3>1. PICK phase \in {"clear", "open", "decrypt"} : Await(o, phase)
      BY <2>1
    <3>2. phase \in Phase /\ phase \in PublicPhase /\ phase # "free" /\ phase # "register"
      BY DEF Phase, PublicPhase
    <3>. QED
      BY <1>1, <1>2, <3>1, <3>2, AwaitMoves DEF PublicPhase
  <2>2. CASE End(o)
    BY <1>1, <1>2, <2>2, EndMoves DEF PublicPhase
  <2>. QED
    BY <1>2, <2>1, <2>2
<1>4. view = "share" => decryptKey = None /\ ~idleTimer
  BY DEF ShareInv
<1>5. CASE ~op'[o].live /\ UNCHANGED <<view, capability, exitTimer, expiryTimer>>
  <2>1. MovesBesideShare(o)
    BY <1>2, <1>3, <1>5 DEF MovesBesideShare, KindFits, LivePublic
  <2>. QED
    BY <1>1, <1>2, <1>3, <1>4, <1>5, <2>1, StepBesideShare
<1>6. CASE op[o].live /\ (Settled(o) \/ Cleared(o) \/ Opened(o))
  <2>1. /\ LivePublic(o) /\ KindFits(o) /\ PublicFits(o)
        /\ view = "share" /\ decryptKey = None /\ ~idleTimer
        /\ op[o].kind \in PublicKind
        /\ \A p \in Op \ {o} : ~op[p].live
    BY <1>2, <1>6, ShareOperationAlone
  <2>2. /\ \A p \in Op \ {o} : Rests(p) /\ ~op'[p].live
        /\ op'[o].live => op'[o].kind \in PublicKind
    BY <1>3, <2>1 DEF Rests
  <2>3. HideFits'
    BY <1>2 DEF ShareInv, HideFits
  <2>4. registration = None => registering = <<>>
    <3>1. registering # <<>> => Len(registering) \in 1 .. Len(registering)
      BY LenProperties, EmptySeq DEF ShareInv, SortsOK
    <3>2. \A i \in 1 .. Len(registering) : registering[i] \in Op
      BY ElementOfSeq DEF ShareInv, SortsOK
    <3>. QED
      BY <3>1, <3>2, SessionAssumption DEF ShareInv, RegistrationFits
  <2>5. CASE Settled(o)
    <3>1. /\ registering = <<>> /\ ~stored' /\ pc'[o] = "clear" /\ op' = op
          /\ UNCHANGED <<view, capability, exitTimer, expiryTimer, opening, worker>>
      BY <1>1, <1>6, <2>4, <2>5, AwaitMoves DEF Settled, Phase
    <3>2. KindFits(o)' /\ PublicFits(o)'
      BY <1>2, <2>1, <2>2, <3>1 DEF KindFits, PublicFits, LivePublic, PublicPhase, NoShare
    <3>3. OpenShareIsCleanAndTimed'
      BY <3>1 DEF ShareInv, OpenShareIsCleanAndTimed
    <3>. QED
      BY <1>1, <1>2, <1>3, <2>1, <2>2, <2>3, <3>1, <3>2, <3>3, StepToOneShare
  <2>6. CASE Cleared(o)
    <3>1. /\ worker' = FALSE
          /\ UNCHANGED <<stored, capability, exitTimer, expiryTimer, opening>>
          /\ view' = CASE op[o].kind = "end" -> "exit"
                       [] op[o].kind = "route" -> "auth"
                       [] OTHER -> "share"
          /\ pc[o] = "clear"
      BY <1>6, <2>6 DEF Cleared, At
    <3>2. op[o].kind # "share" => NoShare /\ NoShare'
      BY <2>1, <3>1 DEF PublicFits, NoShare
    <3>3. capability' # None => registering = <<>> /\ OpenShareIsCleanAndTimed'
      BY <3>1 DEF ShareInv, OpenShareIsCleanAndTimed
    <3>4. OpenShareIsCleanAndTimed'
      BY <3>3 DEF OpenShareIsCleanAndTimed
    <3>5. (IF view = "share" THEN decryptKey = None /\ ~idleTimer ELSE NoShare)'
      BY <1>2, <2>1, <3>1, <3>2
    <3>6. CASE op[o].kind = "share"
      <4>1. Await(o, "open")
        BY <1>6, <2>6, <3>6 DEF Cleared
      <4>2. pc'[o] = "open" /\ op' = op
        BY <1>1, <4>1, AwaitMoves DEF Phase
      <4>3. view' = "share" /\ ~stored' /\ ~worker' /\ registering' = <<>>
        BY <1>2, <2>1, <3>1, <3>6 DEF PublicFits
      <4>4. KindFits(o)'
        BY <1>2, <2>1, <3>6, <4>2 DEF KindFits, PublicPhase
      <4>5. PublicFits(o)'
        BY <2>2, <3>6, <4>2, <4>3 DEF PublicFits, LivePublic
      <4>. QED
        BY <1>1, <1>2, <1>3, <2>2, <2>3, <3>3, <3>4, <3>5, <4>4, <4>5,
           StepToOneShare
    <3>7. CASE op[o].kind # "share"
      <4>1. End(o)
        BY <2>6, <3>7 DEF Cleared
      <4>2. ~op'[o].live
        BY <1>1, <4>1, EndMoves
      <4>3. KindFits(o)' /\ PublicFits(o)'
        BY <4>2 DEF KindFits, PublicFits, LivePublic
      <4>. QED
        BY <1>1, <1>2, <1>3, <2>2, <2>3, <3>3, <3>4, <3>5, <4>3, StepToOneShare
    <3>. QED
      BY <3>6, <3>7
  <2>7. CASE Opened(o)
    <3>1. /\ pc[o] = "open" /\ pc'[o] = "decrypt" /\ op' = op
          /\ UNCHANGED <<view, opening, stored, worker>>
          /\ capability' = op[o].share /\ expiryTimer' = op[o].share /\ exitTimer'
      BY <1>1, <2>7, AwaitMoves DEF Opened, At, Phase
    <3>2. op[o].kind = "share" /\ ~stored /\ ~worker /\ registering = <<>>
      BY <1>6, <2>1, <3>1 DEF KindFits, PublicFits
    <3>3. KindFits(o)' /\ PublicFits(o)'
      BY <1>2, <2>1, <2>2, <3>1, <3>2 DEF KindFits, PublicFits, LivePublic, PublicPhase
    <3>4. OpenShareIsCleanAndTimed'
      BY <3>1, <3>2 DEF OpenShareIsCleanAndTimed
    <3>. QED
      BY <1>1, <1>2, <1>3, <2>1, <2>2, <2>3, <3>1, <3>2, <3>3, <3>4, StepToOneShare
  <2>. QED
    BY <1>6, <2>5, <2>6, <2>7
<1>7. \/ ~op'[o].live /\ UNCHANGED <<view, capability, exitTimer, expiryTimer>>
      \/ op[o].live /\ (Settled(o) \/ Cleared(o) \/ Opened(o))
  <2>1. Opened(o) => op[o].live
    BY DEF Opened
  <2>2. Decrypted(o) \/ NotOpened(o) => ~op'[o].live
    BY <1>1, EndMoves DEF Decrypted, NotOpened
  <2>. QED
    BY <1>3, <2>1, <2>2 DEF Settled, Cleared, Decrypted, NotOpened
<1>. QED
  BY <1>5, <1>6, <1>7

LEMMA StartPageShare ==
  ASSUME ShareInv, StartPage
  PROVE  ShareInv'
<1>. USE DEF pageVars, vaultVars, trustedVars, shareVars, publicVars, workerVars
<1>1. SortsOK /\ SortsOK' /\ view = "boot" /\ ~frozen
  BY PageType DEF ShareInv, StartPage
<1>2. ASSUME NEW o \in Op, NEW s \in Share, OpenShare(o, s)
      PROVE  ShareInv'
  BY <1>2, OpenShareShare
<1>3. ASSUME NEW o \in Op, Start(o, "stored", "fetch"), view' = "loading",
             UNCHANGED <<frozen, afterHide, trustedVars, publicVars, stored, workerVars>>
      PROVE  ShareInv'
  <2>1. /\ pc[o] = "free" /\ pc'[o] = "fetch" /\ op'[o].kind = "stored"
        /\ \A p \in Op \ {o} : Rests(p)
    BY <1>1, <1>3, StartMoves DEF TrustedKind, Phase
  <2>2. MovesBesideShare(o)
    BY <1>1, <1>3, <2>1 DEF MovesBesideShare, KindFits, LivePublic, PublicPhase, PublicKind
  <2>. QED
    BY <1>1, <1>3, <2>1, <2>2, StepBesideShare
<1>4. ASSUME view' = "auth",
             UNCHANGED <<frozen, afterHide, trustedVars, publicVars, stored, workerVars, pc, op>>
      PROVE  ShareInv'
  <2>1. \A p \in Op : Rests(p)
    BY <1>4 DEF Rests
  <2>. QED
    BY <1>1, <1>4, <2>1, StepBesideShare
<1>. QED
  BY <1>2, <1>3, <1>4 DEF StartPage

LEMMA HidePageShare ==
  ASSUME ShareInv, HidePage
  PROVE  ShareInv'
<1>. USE DEF pageVars, vaultVars, trustedVars, shareVars, publicVars, workerVars
<1>1. SortsOK /\ SortsOK' /\ ~frozen /\ frozen' /\ UNCHANGED <<view, registering, registration, worker>>
  BY PageType DEF ShareInv, HidePage
<1>2. CASE PublicActive
  <2>1. PICK o \in Op :
           /\ pc[o] = "free" /\ pc' = [pc EXCEPT ![o] = "clear"]
           /\ op' = [Outdated(PublicKind) EXCEPT ![o] = [NoOperation EXCEPT !.kind = "hide"]]
    BY <1>2 DEF HidePage, At
  <2>2. view = "share"
    BY <1>2 DEF PublicActive, ShareInv, NoShare
  <2>3. /\ pc'[o] = "clear" /\ ~op'[o].live
        /\ \A p \in Op \ {o} : Rests(p) /\ (op'[p].live => op[p].kind \notin PublicKind)
    BY <1>1, <2>1, HiddenMoves
  <2>4. \A p \in Op \ {o} : Rests(p) /\ ~op'[p].live
    BY <2>2, <2>3 DEF ShareInv, Rests
  <2>5. /\ NoShare' /\ afterHide' = "exit" /\ decryptKey' = None /\ UNCHANGED idleTimer
    BY <1>2 DEF HidePage, TearDownShare, ForgetShare, ClearVaultMemory, NoShare
  <2>6. HideFits'
    BY <1>1, <2>2, <2>3, <2>4, <2>5 DEF HideFits
  <2>7. KindFits(o)' /\ PublicFits(o)'
    BY <2>3 DEF KindFits, PublicFits, LivePublic
  <2>8. (IF view = "share" THEN decryptKey = None /\ ~idleTimer ELSE NoShare)'
    BY <1>1, <2>2, <2>5 DEF ShareInv
  <2>9. OpenShareIsCleanAndTimed' /\ capability' = None
    BY <2>5 DEF OpenShareIsCleanAndTimed, NoShare
  <2>. QED
    BY <1>1, <2>1, <2>3, <2>4, <2>6, <2>7, <2>8, <2>9, StepToOneShare
<1>3. CASE ~PublicActive
  <2>1. /\ afterHide' \in {"nothing", "lock"}
        /\ \A p \in Op : Rests(p)
        /\ UNCHANGED <<capability, opening, exitTimer, expiryTimer>>
        /\ stored' => stored
    <3>1. CASE decryptKey # None
      BY <1>1, <1>3, <3>1, OutdatedRests DEF HidePage
    <3>2. CASE decryptKey = None
      BY <1>1, <1>3, <3>2 DEF HidePage, Rests, ShareInv, HideFits
    <3>. QED
      BY <3>1, <3>2
  <2>2. view # "share"
    BY <1>3 DEF PublicActive
  <2>3. \A p \in Op : KindFits(p)' /\ ~LivePublic(p)'
    BY <2>1, <2>2 DEF ShareInv, KindFits, PublicFits, LivePublic, Rests
  <2>4. RegistrationFits'
    <3>1. \A i \in 1 .. Len(registering) : registering[i] \in Op
      BY <1>1, ElementOfSeq DEF SortsOK
    <3>. QED
      BY <1>1, <2>1, <3>1 DEF ShareInv, RegistrationFits, Rests
  <2>5. HideFits'
    BY <1>1, <2>1, <2>2 DEF HideFits
  <2>6. NoShare /\ NoShare' /\ capability' = None
    BY <2>1, <2>2 DEF ShareInv, NoShare
  <2>7. \A p \in Op : view' \in {"share", "exit"} /\ op'[p].live => op'[p].kind \in PublicKind
    BY <1>1, <2>1 DEF ShareInv, Rests
  <2>. QED
    BY <1>1, <2>2, <2>3, <2>4, <2>5, <2>6, <2>7 DEF ShareInv, PublicFits, OpenShareIsCleanAndTimed
<1>. QED
  BY <1>2, <1>3

LEMMA ShowPageShare ==
  ASSUME ShareInv, ShowPage
  PROVE  ShareInv'
<1>. USE DEF pageVars, vaultVars, trustedVars, shareVars, publicVars, workerVars
<1>1. /\ SortsOK' /\ ~frozen' /\ afterHide' = "nothing"
      /\ UNCHANGED <<trustedVars, publicVars, stored, workerVars, pc, op>>
  BY PageType DEF ShareInv, ShowPage
<1>2. HideFits' /\ RegistrationFits'
  BY <1>1 DEF HideFits, ShareInv, RegistrationFits
<1>3. NoShare <=> NoShare'
  BY <1>1 DEF NoShare
<1>4. OpenShareIsCleanAndTimed' /\ (capability' # None => registering' = <<>>)
  BY <1>1 DEF ShareInv, OpenShareIsCleanAndTimed
<1>5. CASE view' = view
  BY <1>1, <1>2, <1>3, <1>4, <1>5 DEF ShareInv, KindFits, PublicFits, LivePublic
<1>6. CASE afterHide = "exit"
  <2>1. view' = "exit" /\ NoShare /\ \A p \in Op : ~op[p].live
    BY <1>6 DEF ShowPage, ShareInv, HideFits
  <2>2. \A p \in Op : KindFits(p)' /\ PublicFits(p)' /\ ~op'[p].live
    BY <1>1, <2>1 DEF KindFits, PublicFits, LivePublic
  <2>. QED
    BY <1>1, <1>2, <1>3, <1>4, <2>1, <2>2 DEF ShareInv
<1>7. CASE afterHide = "lock"
  <2>1. view' = "auth" /\ view # "share"
    BY <1>7 DEF ShowPage, ShareInv, HideFits
  <2>2. NoShare /\ \A p \in Op : ~LivePublic(p)
    BY <2>1 DEF ShareInv, PublicFits
  <2>3. \A p \in Op : KindFits(p)' /\ PublicFits(p)'
    BY <1>1, <2>2 DEF ShareInv, KindFits, PublicFits, LivePublic
  <2>. QED
    BY <1>1, <1>2, <1>3, <1>4, <2>1, <2>2, <2>3 DEF ShareInv
<1>. QED
  BY <1>5, <1>6, <1>7 DEF ShowPage

LEMMA LoadPageShare ==
  ASSUME ShareInv, LoadPage
  PROVE  ShareInv'
<1>1. SortsOK'
  BY PageType DEF ShareInv
<1>2. \A p \in Op : pc'[p] = "free" /\ ~op'[p].live
  BY NoOperationFields DEF LoadPage
<1>3. \A p \in Op : KindFits(p)' /\ PublicFits(p)'
  BY <1>2 DEF KindFits, PublicFits, LivePublic
<1>4. RegistrationFits'
  BY <1>2 DEF LoadPage, RegistrationFits
<1>5. /\ view' = "boot" /\ afterHide' = "nothing" /\ NoShare'
  BY DEF LoadPage, NoShare
<1>6. HideFits' /\ OpenShareIsCleanAndTimed'
  BY <1>5 DEF HideFits, NoShare, OpenShareIsCleanAndTimed
<1>. QED
  BY <1>1, <1>2, <1>3, <1>4, <1>5, <1>6 DEF ShareInv, NoShare

LEMMA NextShare == ShareInv /\ [Next]_vars => ShareInv'
<1>. SUFFICES ASSUME ShareInv, [Next]_vars PROVE ShareInv'
  OBVIOUS
<1>1. CASE UNCHANGED vars
  <2>1. UNCHANGED <<view, frozen, afterHide, decryptKey, raw, idleTimer, capability, opening,
                    exitTimer, expiryTimer, expired, publicEnd, stored, worker, registering,
                    registration, pc, op>>
    BY <1>1 DEF vars, pageVars, vaultVars, trustedVars, shareVars, publicVars, workerVars
  <2>2. HideFits' /\ OpenShareIsCleanAndTimed'
    BY <2>1 DEF ShareInv, HideFits, NoShare, OpenShareIsCleanAndTimed
  <2>3. SortsOK'
    BY <2>1 DEF ShareInv, SortsOK
  <2>4. \A o \in Op : KindFits(o)'
    BY <2>1 DEF ShareInv, KindFits
  <2>5. \A o \in Op : PublicFits(o)'
    BY <2>1 DEF ShareInv, PublicFits, LivePublic, NoShare
  <2>6. RegistrationFits'
    BY <2>1 DEF ShareInv, RegistrationFits
  <2>. QED
    BY <2>1, <2>2, <2>3, <2>4, <2>5, <2>6 DEF ShareInv, NoShare
<1>2. ASSUME NEW o \in Op, Continue(o)
      PROVE  ShareInv'
  BY <1>2, TrustedStepsShare, UnlockedShare, WorkerShare, PublicStepsShare DEF Continue
<1>3. ASSUME NEW o \in Op, Begins(o)
      PROVE  ShareInv'
  BY <1>3, TrustedStepsShare, CleanupShare, OpenShareShare DEF Begins
<1>4. CASE \/ ClosePreview \/ LockButton \/ IdleTimerFires \/ LockOnReturn \/ RescheduleOnReturn
           \/ Activity \/ RouteToFile \/ ShowUnlockAfterExit \/ TimePasses
  BY <1>4, QuietStepsShare, TimersShare
<1>5. CASE StartPage \/ HidePage \/ ShowPage \/ LoadPage
  BY <1>5, StartPageShare, HidePageShare, ShowPageShare, LoadPageShare
<1>. QED
  BY <1>1, <1>2, <1>3, <1>4, <1>5 DEF Next

\* The inductive invariant of the shares: what opens or closes a share is alone, and the
\* tab is clean before the link is opened (initializePublicShare, cleanupPublicSessionData,
\* settleServiceWorkerRegistration).
THEOREM ShareInvariant == Spec => []ShareInv
  BY InitShare, NextShare, PTL DEF Spec

\* While a share link is open the browser keeps neither a stored key nor a worker,
\* and both timers of the link are set (initializePublicShare,
\* clearAppManagedBrowserData, schedulePublicCapabilityExpiry).
THEOREM OpenSharesAreCleanAndTimed == Spec => []OpenShareIsCleanAndTimed
<1>1. ShareInv => OpenShareIsCleanAndTimed
  BY DEF ShareInv
<1>. QED
  BY <1>1, ShareInvariant, PTL

---------------------------------------------------------------------------------
(* The invariant of the vault. *)

\* Where an operation holds, or is about to hold, the key of the vault.
VaultPhase == {"fetch", "reload", "file"}

\* A share is shown or has been closed: no operation of the vault is under way.
LEMMA NoVaultBesideShare ==
  ASSUME ShareInv, VaultInv, view \in {"share", "exit"}
  PROVE  /\ decryptKey = None /\ raw = {} /\ ~files /\ ~preview
         /\ \A p \in Op : ~LiveAt(p, VaultPhase)
<1>1. \A p \in Op : ~LiveAt(p, VaultPhase)
  BY VaultOperationAlone DEF LiveAt, VaultPhase, PublicPhase
<1>2. decryptKey = None /\ ~files /\ ~preview
  BY <1>1 DEF VaultInv, NothingLeft, LiveAt, VaultPhase
<1>3. raw = {}
  BY <1>2, SessionAssumption DEF VaultInv, NoKeyLeft, ShareInv, SortsOK
<1>. QED
  BY <1>1, <1>2, <1>3

\* The same of a page that shows neither the list nor that it loads, when no unlock is
\* under way behind it.
LEMMA NoVaultBehindForm ==
  ASSUME ShareInv, VaultInv, view \in {"boot", "auth"},
         \A p \in Op : ~LiveAt(p, {"fetch", "reload"})
  PROVE  /\ decryptKey = None /\ raw = {} /\ ~files /\ ~preview
         /\ \A p \in Op : ~LiveAt(p, VaultPhase)
<1>1. \A p \in Op : ~LiveAt(p, VaultPhase)
  BY DEF VaultInv, TrustedFits, LiveAt, VaultPhase
<1>2. decryptKey = None /\ ~files /\ ~preview
  BY <1>1 DEF VaultInv, NothingLeft, LiveAt, VaultPhase
<1>3. raw = {}
  BY <1>2, SessionAssumption DEF VaultInv, NoKeyLeft, ShareInv, SortsOK
<1>. QED
  BY <1>1, <1>2, <1>3

\* The vault is closed: nothing of it is left.
VaultClosed ==
    /\ decryptKey = None /\ raw = {} /\ ~files /\ ~preview
    /\ \A p \in Op : ~LiveAt(p, VaultPhase)
    /\ view # "app" \/ afterHide = "lock"

LEMMA ClosedVault == VaultClosed' => VaultInv'
<1>. SUFFICES ASSUME VaultClosed' PROVE VaultInv'
  OBVIOUS
<1>1. \A p \in Op : /\ ~LiveAt(p, {"fetch"})' /\ ~LiveAt(p, {"reload"})' /\ ~LiveAt(p, {"file"})'
                    /\ ~LiveAt(p, {"fetch", "reload"})' /\ ~LiveAt(p, {"fetch", "reload", "file"})'
  BY DEF VaultClosed, LiveAt, VaultPhase
<1>2. \A p \in Op : TrustedFits(p)'
  BY <1>1 DEF TrustedFits
<1>. QED
  BY <1>1, <1>2 DEF VaultInv, VaultClosed, NothingLeft, NoKeyLeft

LEMMA WipedKeys ==
  ASSUME ShareInv, VaultInv, ClearVaultMemory
  PROVE  decryptKey' = None /\ raw' = {} /\ ~files'
  BY DEF ClearVaultMemory, VaultInv, NoKeyLeft

\* An operation of the vault is outdated with its kind.
LEMMA TrustedOutdated ==
  ASSUME ShareInv, NEW p \in Op, Rests(p), op'[p].live => op[p].kind \notin TrustedKind
  PROVE  ~LiveAt(p, VaultPhase)'
  BY VaultOperationAlone DEF LiveAt, VaultPhase, PublicPhase, Rests

\* An operation that a step leaves as it is, or that is not one of the vault when the
\* step is over and does not hold the key of an unlock when it begins.
VaultRests(p) ==
    \/ pc'[p] = pc[p] /\ op'[p] = op[p]
    \/ ~LiveAt(p, VaultPhase)' /\ ~LiveAt(p, {"reload"})

\* A step that leaves the vault as it is, but for a file that is delivered.
LEMMA VaultUntouched ==
  ASSUME VaultInv, UNCHANGED <<view, afterHide, decryptKey, files>>, raw' \subseteq raw,
         preview' => preview \/ (view = "app" /\ afterHide # "lock"),
         \A p \in Op : VaultRests(p)
  PROVE  VaultInv'
<1>1. ASSUME NEW p \in Op, LiveAt(p, VaultPhase)'
      PROVE  pc'[p] = pc[p] /\ op'[p] = op[p]
  BY <1>1 DEF VaultRests
<1>2. ASSUME NEW p \in Op
      PROVE  TrustedFits(p)'
  <2>1. CASE LiveAt(p, VaultPhase)'
    <3>1. pc'[p] = pc[p] /\ op'[p] = op[p]
      BY <1>1, <2>1
    <3>2. \A other \in Op : LiveAt(other, {"fetch", "reload"})' => LiveAt(other, {"fetch", "reload"})
      BY <1>1 DEF LiveAt, VaultPhase
    <3>. QED
      BY <3>1, <3>2 DEF VaultInv, TrustedFits, LiveAt
  <2>2. CASE ~LiveAt(p, VaultPhase)'
    BY <2>2 DEF TrustedFits, LiveAt, VaultPhase
  <2>. QED
    BY <2>1, <2>2
<1>3. ASSUME afterHide = "lock", NEW p \in Op
      PROVE  ~LiveAt(p, {"fetch", "reload", "file"})'
  BY <1>1, <1>3 DEF VaultInv, LiveAt, VaultPhase
<1>4. NothingLeft'
  <2>. SUFFICES ASSUME view # "app"
                PROVE  /\ ~files' /\ ~preview'
                       /\ decryptKey # None =>
                             \E o \in Op : pc'[o] = "reload" /\ op'[o].live
                                           /\ op'[o].key = decryptKey
    BY DEF NothingLeft
  <2>1. ~files' /\ ~preview'
    BY DEF VaultInv, NothingLeft
  <2>2. ASSUME decryptKey # None
        PROVE  \E o \in Op : pc'[o] = "reload" /\ op'[o].live /\ op'[o].key = decryptKey
    <3>1. PICK o \in Op : pc[o] = "reload" /\ op[o].live /\ op[o].key = decryptKey
      BY <2>2 DEF VaultInv, NothingLeft
    <3>2. pc'[o] = pc[o] /\ op'[o] = op[o]
      BY <3>1 DEF VaultRests, LiveAt
    <3>. QED
      BY <3>1, <3>2
  <2>. QED
    BY <2>1, <2>2
<1>5. NoKeyLeft'
  BY DEF VaultInv, NoKeyLeft
<1>. QED
  BY <1>2, <1>3, <1>4, <1>5 DEF VaultInv

\* An unlock begins on a page without one.
LEMMA FetchVault ==
  ASSUME ShareInv, VaultInv, NEW o \in Op, NEW kind \in {"stored", "password"},
         view \in {"boot", "auth"}, \A p \in Op : ~LiveAt(p, {"fetch", "reload"}), Start(o, kind, "fetch"), view' = "loading",
         UNCHANGED <<afterHide, decryptKey, raw, files, preview>>
  PROVE  VaultInv'
<1>1. /\ decryptKey = None /\ raw = {} /\ ~files /\ ~preview
      /\ \A p \in Op : ~LiveAt(p, VaultPhase)
  BY NoVaultBehindForm
<1>2. ~frozen /\ pc'[o] = "fetch" /\ \A p \in Op \ {o} : Rests(p)
  BY StartMoves DEF ShareInv, TrustedKind, Phase
<1>3. \A p \in Op \ {o} : ~LiveAt(p, VaultPhase)'
  BY <1>1, <1>2 DEF LiveAt, Rests
<1>4. \A p \in Op \ {o} : /\ ~LiveAt(p, {"fetch"})' /\ ~LiveAt(p, {"reload"})' /\ ~LiveAt(p, {"file"})'
                          /\ ~LiveAt(p, {"fetch", "reload"})'
  BY <1>3 DEF LiveAt, VaultPhase
<1>5. TrustedFits(o)'
  BY <1>1, <1>2, <1>4 DEF TrustedFits, LiveAt
<1>6. \A p \in Op : TrustedFits(p)'
  BY <1>4, <1>5 DEF TrustedFits
<1>7. afterHide' = "nothing"
  BY <1>2 DEF ShareInv, HideFits
<1>. QED
  BY <1>1, <1>6, <1>7 DEF VaultInv, NothingLeft, NoKeyLeft

LEMMA DerivedVault ==
  ASSUME ShareInv, VaultInv, NEW o \in Op, Derived(o)
  PROVE  VaultInv'
<1>1. /\ ~frozen /\ op[o].live /\ pc[o] = "fetch"
      /\ UNCHANGED <<afterHide, files, preview>>
  BY DEF Derived, At, publicVars
<1>2. LiveAt(o, {"fetch"}) /\ LiveAt(o, {"fetch", "reload"})
  BY <1>1 DEF LiveAt
<1>3. /\ view \in {"loading", "auth"} /\ decryptKey = None
      /\ \A p \in Op \ {o} : ~LiveAt(p, {"fetch", "reload"})
  BY <1>2 DEF VaultInv, TrustedFits
<1>4. \A p \in Op \ {o} : ~LiveAt(p, {"fetch", "reload"}) /\ ~LiveAt(p, {"file"})
  BY <1>3 DEF VaultInv, TrustedFits
<1>5. ~files /\ ~preview /\ raw = {}
  BY <1>3, SessionAssumption DEF VaultInv, NothingLeft, NoKeyLeft, ShareInv, SortsOK
<1>6. PICK k \in Key : /\ decryptKey' = k /\ raw' = raw \union {k}
                       /\ pc' = [pc EXCEPT ![o] = "reload"] /\ op' = [op EXCEPT ![o].key = k]
  BY DEF Derived, FreshKeys
<1>7. /\ pc'[o] = "reload" /\ op'[o].live /\ op'[o].key = k
      /\ \A p \in Op \ {o} : pc'[p] = pc[p] /\ op'[p] = op[p]
  BY <1>1, <1>6 DEF ShareInv, SortsOK, Operation
<1>8. view' = "loading" /\ k # None /\ afterHide' = "nothing"
  BY <1>1, <1>3, SessionAssumption DEF Derived, ShareInv, HideFits
<1>9. \A p \in Op \ {o} : /\ ~LiveAt(p, {"fetch"})' /\ ~LiveAt(p, {"reload"})'
                          /\ ~LiveAt(p, {"file"})' /\ ~LiveAt(p, {"fetch", "reload"})'
  BY <1>4, <1>7 DEF LiveAt
<1>10. TrustedFits(o)'
  BY <1>6, <1>7, <1>8, <1>9 DEF TrustedFits, LiveAt
<1>11. \A p \in Op : TrustedFits(p)'
  BY <1>9, <1>10 DEF TrustedFits
<1>12. NothingLeft' /\ NoKeyLeft'
  BY <1>1, <1>5, <1>6, <1>7 DEF NothingLeft, NoKeyLeft
<1>. QED
  BY <1>8, <1>11, <1>12 DEF VaultInv

\* A reload that is not outdated: the one unlock, with the key of the page.
LEMMA ReloadAlone ==
  ASSUME VaultInv, NEW o \in Op, pc[o] \in {"fetch", "reload"}, op[o].live
  PROVE  /\ view \in {"loading", "auth"} /\ ~files /\ ~preview
         /\ pc[o] = "reload" => decryptKey # None /\ op[o].key = decryptKey
         /\ pc[o] = "fetch" => decryptKey = None
         /\ \A p \in Op \ {o} : ~LiveAt(p, VaultPhase)
<1>1. /\ LiveAt(o, {"fetch", "reload"})
      /\ pc[o] = "fetch" => LiveAt(o, {"fetch"})
      /\ pc[o] = "reload" => LiveAt(o, {"reload"})
  BY DEF LiveAt
<1>2. /\ view \in {"loading", "auth"}
      /\ pc[o] = "reload" => decryptKey # None /\ op[o].key = decryptKey
      /\ pc[o] = "fetch" => decryptKey = None
      /\ \A p \in Op \ {o} : ~LiveAt(p, {"fetch", "reload"})
  BY <1>1 DEF VaultInv, TrustedFits
<1>3. \A p \in Op \ {o} : ~LiveAt(p, {"fetch", "reload"}) /\ ~LiveAt(p, {"file"})
  BY <1>2 DEF VaultInv, TrustedFits
<1>4. ~files /\ ~preview
  BY <1>2 DEF VaultInv, NothingLeft
<1>. QED
  BY <1>2, <1>3, <1>4 DEF LiveAt, VaultPhase

LEMMA FailedUnlockVault ==
  ASSUME ShareInv, VaultInv, NEW o \in Op, NotDerived(o) \/ NotUnlocked(o)
  PROVE  VaultInv'
<1>. USE DEF pageVars, vaultVars, trustedVars, shareVars, publicVars, workerVars
<1>1. /\ ~frozen /\ pc[o] \in {"fetch", "reload"} /\ End(o)
      /\ NotDerived(o) => pc[o] = "fetch"
      /\ NotUnlocked(o) => pc[o] = "reload"
      /\ UNCHANGED <<afterHide, preview>>
  BY DEF NotDerived, NotUnlocked, At
<1>2. /\ pc'[o] = "free" /\ ~op'[o].live
      /\ \A p \in Op \ {o} : pc'[p] = pc[p] /\ op'[p] = op[p]
  BY <1>1, EndMoves DEF ShareInv, SortsOK, End
<1>3. CASE op[o].live
  <2>1. /\ view \in {"loading", "auth"} /\ ~files /\ ~preview
        /\ pc[o] = "reload" => decryptKey # None /\ op[o].key = decryptKey
        /\ pc[o] = "fetch" => decryptKey = None
        /\ \A p \in Op \ {o} : ~LiveAt(p, VaultPhase)
    BY <1>1, <1>3, ReloadAlone
  <2>2. \A p \in Op : ~LiveAt(p, VaultPhase)'
    BY <1>2, <2>1 DEF LiveAt
  <2>3. CASE NotDerived(o)
    <3>1. /\ decryptKey' = None /\ raw' = raw /\ ~files' /\ ~preview' /\ view' = "auth"
          /\ decryptKey = None
      BY <1>1, <1>3, <2>1, <2>3 DEF NotDerived
    <3>2. raw = {}
      BY <3>1, SessionAssumption DEF VaultInv, NoKeyLeft, ShareInv, SortsOK
    <3>. QED
      BY <2>2, <3>1, <3>2, ClosedVault DEF VaultClosed
  <2>4. CASE NotUnlocked(o)
    <3>1. Current(o) /\ decryptKey = op[o].key
      BY <1>1, <1>3, <2>1, <2>4 DEF Current
    <3>2. ClearVaultMemory /\ view' = "auth" /\ ~preview'
      BY <1>1, <2>1, <2>4, <3>1 DEF NotUnlocked
    <3>. QED
      BY <2>2, <3>2, WipedKeys, ClosedVault DEF VaultClosed
  <2>. QED
    BY <2>3, <2>4
<1>4. CASE ~op[o].live
  <2>1. UNCHANGED <<view, decryptKey, files>> /\ raw' \subseteq raw
    BY <1>4 DEF NotDerived, NotUnlocked, Current
  <2>2. \A p \in Op : VaultRests(p)
    BY <1>2, <1>4 DEF VaultRests, LiveAt
  <2>. QED
    BY <1>1, <2>1, <2>2, VaultUntouched
<1>. QED
  BY <1>3, <1>4

LEMMA UnlockedVault ==
  ASSUME ShareInv, VaultInv, NEW o \in Op, Unlocked(o)
  PROVE  VaultInv'
<1>1. /\ ~frozen /\ op[o].live /\ pc[o] = "reload" /\ view' = "app"
      /\ UNCHANGED <<afterHide, decryptKey, raw>>
      /\ pc' = [pc EXCEPT ![o] = "register"] /\ op' = [op EXCEPT ![o] = Begin("worker")]
  BY DEF Unlocked, At, Current
<1>2. decryptKey # None /\ \A p \in Op \ {o} : ~LiveAt(p, VaultPhase)
  BY <1>1, ReloadAlone
<1>3. pc'[o] = "register" /\ \A p \in Op \ {o} : pc'[p] = pc[p] /\ op'[p] = op[p]
  BY <1>1 DEF ShareInv, SortsOK
<1>4. \A p \in Op : ~LiveAt(p, VaultPhase)'
  BY <1>2, <1>3 DEF LiveAt, VaultPhase
<1>5. \A p \in Op : TrustedFits(p)'
  BY <1>4 DEF TrustedFits, LiveAt, VaultPhase
<1>6. afterHide' = "nothing"
  BY <1>1 DEF ShareInv, HideFits
<1>. QED
  BY <1>1, <1>2, <1>5, <1>6 DEF VaultInv, NothingLeft, NoKeyLeft

LEMMA StartFileVault ==
  ASSUME ShareInv, VaultInv, NEW o \in Op, StartFile(o)
  PROVE  VaultInv'
<1>1. /\ view = "app" /\ decryptKey # None /\ ~frozen
      /\ UNCHANGED <<view, afterHide, decryptKey, raw, files, preview>>
  BY DEF StartFile, At, pageVars, trustedVars, vaultVars
<1>2. Begin("file") \in Operation
  BY BeginFields DEF TrustedKind
<1>3. PICK new \in Operation : new = [Begin("file") EXCEPT !.key = decryptKey]
  BY <1>2 DEF Operation, ShareInv, SortsOK
<1>4. new.key = decryptKey
  BY <1>2, <1>3 DEF Operation
<1>5. pc' = [pc EXCEPT ![o] = "file"] /\ op' = [op EXCEPT ![o] = new]
  BY <1>3 DEF StartFile
<1>6. /\ pc'[o] = "file" /\ op'[o].key = decryptKey
      /\ \A p \in Op \ {o} : pc'[p] = pc[p] /\ op'[p] = op[p]
  BY <1>4, <1>5 DEF ShareInv, SortsOK
<1>7. \A p \in Op : ~LiveAt(p, {"fetch"}) /\ ~LiveAt(p, {"reload"})
  BY <1>1 DEF VaultInv, TrustedFits
<1>8. \A p \in Op : /\ ~LiveAt(p, {"fetch"})' /\ ~LiveAt(p, {"reload"})'
                    /\ ~LiveAt(p, {"fetch", "reload"})'
  BY <1>6, <1>7 DEF LiveAt
<1>9. \A p \in Op \ {o} : LiveAt(p, {"file"})' => op'[p].key = decryptKey
  BY <1>6 DEF VaultInv, TrustedFits, LiveAt
<1>10. \A p \in Op : TrustedFits(p)'
  BY <1>1, <1>6, <1>8, <1>9 DEF TrustedFits
<1>11. afterHide' # "lock"
  BY <1>1 DEF ShareInv, HideFits
<1>12. NothingLeft' /\ NoKeyLeft'
  BY <1>1 DEF VaultInv, NothingLeft, NoKeyLeft
<1>. QED
  BY <1>1, <1>10, <1>11, <1>12 DEF VaultInv

LEMMA FileVault ==
  ASSUME ShareInv, VaultInv, NEW o \in Op, Deliver(o) \/ DropFile(o)
  PROVE  VaultInv'
<1>. USE DEF pageVars, vaultVars, trustedVars
<1>1. /\ ~frozen /\ pc[o] = "file" /\ End(o)
      /\ UNCHANGED <<view, afterHide, decryptKey, raw, files>>
  BY DEF Deliver, DropFile, At
<1>2. /\ ~op'[o].live
      /\ \A p \in Op \ {o} : pc'[p] = pc[p] /\ op'[p] = op[p]
  BY <1>1, EndMoves DEF ShareInv, SortsOK, End
<1>3. \A p \in Op : VaultRests(p)
  BY <1>1, <1>2 DEF VaultRests, LiveAt
<1>4. preview' => preview \/ (view = "app" /\ afterHide # "lock")
  <2>1. CASE Deliver(o)
    <3>1. LiveAt(o, {"file"})
      BY <1>1, <2>1 DEF Deliver, Current, LiveAt
    <3>. QED
      BY <1>1, <3>1 DEF VaultInv, TrustedFits, ShareInv, HideFits
  <2>2. CASE DropFile(o)
    BY <2>2 DEF DropFile
  <2>. QED
    BY <2>1, <2>2
<1>. QED
  BY <1>1, <1>3, <1>4, VaultUntouched

LEMMA LockVault ==
  ASSUME ShareInv, VaultInv, LockDrive \/ \E o \in Op : PromptForFreshPassword(o)
  PROVE  VaultInv'
<1>1. ClearVaultMemory /\ ~preview' /\ view' = "auth"
  BY DEF LockDrive, PromptForFreshPassword
<1>2. \A p \in Op : ~LiveAt(p, VaultPhase)'
  <2>1. CASE LockDrive
    <3>1. \A p \in Op : Rests(p) /\ (op'[p].live => op[p].kind \notin TrustedKind)
      BY <2>1, OutdatedRests DEF LockDrive, ShareInv
    <3>. QED
      BY <3>1, TrustedOutdated
  <2>2. ASSUME NEW o \in Op, PromptForFreshPassword(o)
        PROVE  \A p \in Op : ~LiveAt(p, VaultPhase)'
    <3>1. /\ pc' = [pc EXCEPT ![o] = "free"]
          /\ op' = [Outdated(TrustedKind) EXCEPT ![o] = NoOperation]
      BY <2>2 DEF PromptForFreshPassword, EndAndInvalidate
    <3>2. "free" \in Phase /\ SortsOK /\ NoOperation \in Operation
      BY NoOperationFields DEF Phase, ShareInv
    <3>3. /\ pc'[o] = "free"
          /\ \A p \in Op \ {o} :
                Rests(p) /\ (op'[p].live => op[p].live /\ op[p].kind \notin TrustedKind)
      BY <3>1, <3>2, OutdatedMoves
    <3>4. \A p \in Op \ {o} : ~LiveAt(p, VaultPhase)'
      BY <3>3, TrustedOutdated
    <3>. QED
      BY <3>3, <3>4 DEF LiveAt, VaultPhase
  <2>. QED
    BY <2>1, <2>2
<1>. QED
  BY <1>1, <1>2, WipedKeys, ClosedVault DEF VaultClosed

\* The steps that have nothing to do with the vault.
LEMMA OtherStepsVault ==
  ASSUME ShareInv, VaultInv, NEW o \in Op,
         \/ StartRefresh(o) \/ Refreshed(o)
         \/ Registered(o) \/ NotRegistered(o) \/ Unregistered(o)
         \/ Settled(o) \/ Opened(o) \/ Decrypted(o) \/ NotOpened(o)
  PROVE  VaultInv'
<1>. USE DEF pageVars, vaultVars, trustedVars
<1>1. UNCHANGED <<view, afterHide, decryptKey, raw, files, preview>>
  BY DEF StartRefresh, Refreshed, Registered, NotRegistered, Unregistered, Settled, Opened,
     Decrypted, NotOpened
<1>2. pc[o] \notin VaultPhase
  BY DEF StartRefresh, Refreshed, Registered, NotRegistered, Unregistered, Settled, Opened,
     Decrypted, NotOpened, Start, At, VaultPhase
<1>3. \/ Start(o, "refresh", "refresh") \/ End(o)
      \/ \E phase \in {"unregister", "clear", "decrypt"} : Await(o, phase)
  BY DEF StartRefresh, Refreshed, Registered, NotRegistered, Unregistered, Settled, Opened,
     Decrypted, NotOpened
<1>4. /\ pc'[o] \notin VaultPhase
      /\ \A p \in Op \ {o} : pc'[p] = pc[p] /\ op'[p] = op[p]
  BY <1>3 DEF Start, End, Await, ShareInv, SortsOK, VaultPhase
<1>5. \A p \in Op : VaultRests(p)
  BY <1>2, <1>4 DEF VaultRests, LiveAt, VaultPhase
<1>. QED
  BY <1>1, <1>5, VaultUntouched

LEMMA QuietStepsVault ==
  ASSUME VaultInv, ClosePreview \/ Activity \/ RescheduleOnReturn \/ TimePasses
  PROVE  VaultInv'
<1>1. /\ UNCHANGED <<view, afterHide, decryptKey, raw, files, pc, op>>
      /\ preview' => preview
  BY DEF ClosePreview, Activity, RescheduleOnReturn, TimePasses, pageVars, vaultVars
<1>. QED
  BY <1>1, VaultUntouched DEF VaultRests

LEMMA ShareStepsVault ==
  ASSUME ShareInv, VaultInv, NEW o \in Op,
         \/ \E s \in Share : OpenShare(o, s)
         \/ EndByButton(o) \/ EndByIdleTimer(o) \/ EndOnReturn(o)
         \/ ExpireByTimer(o) \/ ExpireByUse(o) \/ RouteFromShare(o)
         \/ Cleared(o)
  PROVE  VaultInv'
<1>. USE DEF pageVars, vaultVars, trustedVars
<1>1. ASSUME NEW s \in Share, OpenShare(o, s)
      PROVE  VaultInv'
  <2>1. ClearVaultMemory /\ ~preview' /\ view' = "share"
    BY <1>1 DEF OpenShare, ForgetShare
  <2>2. /\ pc'[o] = "settle"
        /\ \A p \in Op \ {o} : ~op'[p].live
    BY <1>1, OpenShareMoves DEF ShareInv
  <2>3. \A p \in Op : ~LiveAt(p, VaultPhase)'
    BY <2>2 DEF LiveAt, VaultPhase
  <2>. QED
    BY <2>1, <2>3, WipedKeys, ClosedVault DEF VaultClosed
<1>2. CASE EndByButton(o) \/ EndByIdleTimer(o) \/ EndOnReturn(o)
           \/ ExpireByTimer(o) \/ ExpireByUse(o) \/ RouteFromShare(o)
  <2>1. view = "share"
    BY <1>2, CleanupShare
  <2>2. PICK kind \in {"end", "expire", "route"} : BeginCleanup(o, kind)
    BY <1>2 DEF EndByButton, EndByIdleTimer, EndOnReturn, ExpireByTimer, ExpireByUse,
       RouteFromShare
  <2>3. kind \in PublicKind
    BY DEF PublicKind
  <2>4. ClearVaultMemory /\ UNCHANGED <<view, preview>>
    BY <2>2 DEF BeginCleanup, TearDownShare, ForgetShare
  <2>5. ~preview /\ \A p \in Op : ~LiveAt(p, VaultPhase)
    BY <2>1, NoVaultBesideShare
  <2>6. pc'[o] = "settle" /\ \A p \in Op \ {o} : Rests(p)
    BY <2>2, <2>3, CleanupMoves DEF ShareInv
  <2>7. \A p \in Op : ~LiveAt(p, VaultPhase)'
    BY <2>5, <2>6 DEF LiveAt, VaultPhase, Rests
  <2>. QED
    BY <2>1, <2>4, <2>5, <2>7, WipedKeys, ClosedVault DEF VaultClosed
<1>3. CASE Cleared(o)
  <2>1. /\ pc[o] = "clear" /\ UNCHANGED <<afterHide, decryptKey, raw, files, preview>>
        /\ Await(o, "open") \/ End(o)
    BY <1>3 DEF Cleared, At
  <2>2. /\ pc'[o] \notin VaultPhase
        /\ \A p \in Op \ {o} : pc'[p] = pc[p] /\ op'[p] = op[p]
    BY <2>1 DEF Await, End, ShareInv, SortsOK, VaultPhase
  <2>3. CASE op[o].live
    <3>1. view = "share"
      BY <2>1, <2>3, ShareOperationAlone DEF PublicPhase
    <3>2. /\ decryptKey = None /\ raw = {} /\ ~files /\ ~preview
          /\ \A p \in Op : ~LiveAt(p, VaultPhase)
      BY <3>1, NoVaultBesideShare
    <3>3. \A p \in Op : ~LiveAt(p, VaultPhase)'
      BY <2>2, <3>2 DEF LiveAt
    <3>4. view' # "app"
      BY <1>3, <2>3 DEF Cleared
    <3>. QED
      BY <2>1, <3>2, <3>3, <3>4, ClosedVault DEF VaultClosed
  <2>4. CASE ~op[o].live
    <3>1. view' = view
      BY <1>3, <2>4 DEF Cleared
    <3>2. \A p \in Op : VaultRests(p)
      BY <2>1, <2>2 DEF VaultRests, LiveAt, VaultPhase
    <3>. QED
      BY <2>1, <3>1, <3>2, VaultUntouched
  <2>. QED
    BY <2>3, <2>4
<1>. QED
  BY <1>1, <1>2, <1>3

\* The password form is shown; an unlock may still be under way behind it.
LEMMA FormVault ==
  ASSUME ShareInv, VaultInv, RouteToFile \/ ShowUnlockAfterExit
  PROVE  VaultInv'
<1>1. /\ ~frozen /\ view' = "auth" /\ view # "app" /\ decryptKey = None
      /\ UNCHANGED <<afterHide, decryptKey, raw, files, preview, pc, op>>
  <2>1. CASE ShowUnlockAfterExit
    BY <2>1, NoVaultBesideShare DEF ShowUnlockAfterExit, trustedVars, vaultVars
  <2>2. CASE RouteToFile
    BY <2>2 DEF RouteToFile, trustedVars, vaultVars, VaultInv, ShareInv, HideFits
  <2>. QED
    BY <2>1, <2>2
<1>2. ASSUME NEW p \in Op
      PROVE  ~LiveAt(p, {"reload"}) /\ ~LiveAt(p, {"file"})
  BY <1>1 DEF VaultInv, TrustedFits
<1>3. ASSUME NEW p \in Op
      PROVE  TrustedFits(p)'
  BY <1>1, <1>2 DEF VaultInv, TrustedFits, LiveAt
<1>4. afterHide' = "nothing"
  BY <1>1 DEF ShareInv, HideFits
<1>5. NothingLeft' /\ NoKeyLeft'
  BY <1>1 DEF VaultInv, NothingLeft, NoKeyLeft
<1>. QED
  BY <1>1, <1>3, <1>4, <1>5 DEF VaultInv

LEMMA StartPageVault ==
  ASSUME ShareInv, VaultInv, StartPage
  PROVE  VaultInv'
<1>. USE DEF trustedVars, vaultVars
<1>0. \A p \in Op : ~LiveAt(p, {"fetch", "reload"})
  BY DEF StartPage, VaultInv, TrustedFits, LiveAt
<1>1. ASSUME NEW o \in Op, NEW s \in Share, OpenShare(o, s)
      PROVE  VaultInv'
  BY <1>1, ShareStepsVault
<1>2. ASSUME NEW o \in Op, Start(o, "stored", "fetch"), view' = "loading",
             UNCHANGED <<frozen, afterHide, trustedVars, publicVars, stored, workerVars>>
      PROVE  VaultInv'
  BY <1>0, <1>2, FetchVault DEF StartPage
<1>3. ASSUME view' = "auth",
             UNCHANGED <<frozen, afterHide, trustedVars, publicVars, stored, workerVars, pc, op>>
      PROVE  VaultInv'
  <2>1. /\ decryptKey = None /\ raw = {} /\ ~files /\ ~preview
        /\ \A p \in Op : ~LiveAt(p, VaultPhase)
    BY <1>0, NoVaultBehindForm DEF StartPage
  <2>2. \A p \in Op : ~LiveAt(p, VaultPhase)'
    BY <1>3, <2>1 DEF LiveAt
  <2>. QED
    BY <1>3, <2>1, <2>2, ClosedVault DEF VaultClosed
<1>. QED
  BY <1>1, <1>2, <1>3 DEF StartPage

LEMMA HidePageVault ==
  ASSUME ShareInv, VaultInv, HidePage
  PROVE  VaultInv'
<1>. USE DEF vaultVars, shareVars
<1>1. UNCHANGED view /\ ~frozen /\ SortsOK
  BY DEF HidePage, ShareInv
<1>2. CASE PublicActive
  <2>1. PICK o \in Op :
           /\ pc' = [pc EXCEPT ![o] = "clear"]
           /\ op' = [Outdated(PublicKind) EXCEPT ![o] = [NoOperation EXCEPT !.kind = "hide"]]
    BY <1>2 DEF HidePage
  <2>2. view = "share"
    BY <1>2 DEF PublicActive, ShareInv, NoShare
  <2>3. pc'[o] = "clear" /\ \A p \in Op \ {o} : Rests(p)
    BY <1>1, <2>1, HiddenMoves
  <2>4. ~preview /\ \A p \in Op : ~LiveAt(p, VaultPhase)
    BY <2>2, NoVaultBesideShare
  <2>5. \A p \in Op : ~LiveAt(p, VaultPhase)'
    BY <2>3, <2>4 DEF LiveAt, VaultPhase, Rests
  <2>6. ClearVaultMemory /\ UNCHANGED preview
    BY <1>2 DEF HidePage, TearDownShare, ForgetShare
  <2>. QED
    BY <1>1, <2>2, <2>4, <2>5, <2>6, WipedKeys, ClosedVault DEF VaultClosed
<1>3. CASE ~PublicActive /\ decryptKey # None
  <2>1. /\ ClearVaultMemory /\ ~preview' /\ afterHide' = "lock"
        /\ op' = Outdated(TrustedKind) /\ pc' = pc
    BY <1>3 DEF HidePage
  <2>2. \A p \in Op : Rests(p) /\ (op'[p].live => op[p].kind \notin TrustedKind)
    BY <1>1, <2>1, OutdatedRests
  <2>3. \A p \in Op : ~LiveAt(p, VaultPhase)'
    BY <2>2, TrustedOutdated
  <2>. QED
    BY <2>1, <2>3, WipedKeys, ClosedVault DEF VaultClosed
<1>4. CASE ~PublicActive /\ decryptKey = None
  BY <1>1, <1>4, VaultUntouched DEF HidePage, VaultRests
<1>. QED
  BY <1>2, <1>3, <1>4

LEMMA ShowPageVault ==
  ASSUME ShareInv, VaultInv, ShowPage
  PROVE  VaultInv'
<1>1. /\ afterHide' = "nothing"
      /\ UNCHANGED <<decryptKey, raw, files, preview, pc, op>>
  BY DEF ShowPage, trustedVars, vaultVars
<1>2. CASE afterHide \in {"exit", "lock"}
  <2>1. view' \in {"exit", "auth"}
    BY <1>2 DEF ShowPage
  <2>2. /\ decryptKey = None /\ raw = {} /\ ~files /\ ~preview
        /\ \A p \in Op : ~LiveAt(p, VaultPhase)
    <3>1. CASE afterHide = "exit"
      BY <3>1, NoVaultBesideShare DEF ShareInv, HideFits
    <3>2. CASE afterHide = "lock"
      <4>1. decryptKey = None /\ ~files /\ ~preview /\ \A p \in Op : ~LiveAt(p, VaultPhase)
        BY <3>2 DEF VaultInv, LiveAt, VaultPhase
      <4>2. raw = {}
        BY <4>1, SessionAssumption DEF VaultInv, NoKeyLeft, ShareInv, SortsOK
      <4>. QED
        BY <4>1, <4>2
    <3>. QED
      BY <1>2, <3>1, <3>2
  <2>3. \A p \in Op : ~LiveAt(p, VaultPhase)'
    BY <1>1, <2>2 DEF LiveAt
  <2>. QED
    BY <1>1, <2>1, <2>2, <2>3, ClosedVault DEF VaultClosed
<1>3. CASE afterHide = "nothing"
  <2>1. view' = view
    BY <1>3 DEF ShowPage
  <2>. QED
    BY <1>1, <1>3, <2>1, VaultUntouched DEF VaultRests
<1>. QED
  BY <1>2, <1>3 DEF ShareInv, SortsOK

LEMMA LoadPageVault ==
  ASSUME LoadPage
  PROVE  VaultInv'
<1>1. \A p \in Op : ~LiveAt(p, VaultPhase)'
  BY DEF LoadPage, LiveAt, VaultPhase
<1>. QED
  BY <1>1, ClosedVault DEF LoadPage, VaultClosed

LEMMA NextVault ==
  ASSUME ShareInv, VaultInv, [Next]_vars, ~overlapped'
  PROVE  VaultInv'
<1>1. CASE UNCHANGED vars
  BY <1>1, VaultUntouched DEF vars, pageVars, vaultVars, trustedVars, VaultRests
<1>2. ASSUME NEW o \in Op, Continue(o)
      PROVE  VaultInv'
  BY <1>2, DerivedVault, FailedUnlockVault, UnlockedVault, FileVault, LockVault, OtherStepsVault,
     ShareStepsVault DEF Continue
<1>3. ASSUME NEW o \in Op, Begins(o)
      PROVE  VaultInv'
  <2>1. CASE SubmitPassword(o)
    <3>1. \A p \in Op : ~LiveAt(p, {"fetch", "reload"})
      BY <2>1 DEF SubmitPassword
    <3>. QED
      BY <2>1, <3>1, FetchVault DEF SubmitPassword, trustedVars, vaultVars
  <2>. QED
    BY <1>3, <2>1, StartFileVault, OtherStepsVault, ShareStepsVault DEF Begins
<1>4. CASE ClosePreview \/ RescheduleOnReturn \/ Activity \/ TimePasses
  BY <1>4, QuietStepsVault
<1>5. CASE LockButton \/ IdleTimerFires \/ LockOnReturn
  BY <1>5, LockVault DEF LockButton, IdleTimerFires, LockOnReturn
<1>6. CASE RouteToFile \/ ShowUnlockAfterExit
  BY <1>6, FormVault
<1>7. CASE StartPage \/ HidePage \/ ShowPage \/ LoadPage
  BY <1>7, StartPageVault, HidePageVault, ShowPageVault, LoadPageVault
<1>. QED
  BY <1>1, <1>2, <1>3, <1>4, <1>5, <1>6, <1>7 DEF Next

\* What has overlapped is forgotten with the document only.
LEMMA OverlapStays ==
  ASSUME [Next]_vars, ~overlapped'
  PROVE  ~overlapped \/ LoadPage
<1>. USE DEF publicVars
<1>1. CASE UNCHANGED vars
  BY <1>1 DEF vars
<1>2. ASSUME NEW o \in Op, Continue(o)
      PROVE  UNCHANGED overlapped
  BY <1>2 DEF Continue, Derived, NotDerived, Unlocked, NotUnlocked, Refreshed,
     PromptForFreshPassword, Deliver, DropFile, Registered, NotRegistered, Unregistered, Settled,
     Cleared, Opened, Decrypted, NotOpened
<1>3. ASSUME NEW o \in Op, Begins(o)
      PROVE  overlapped => overlapped'
  BY <1>3 DEF Begins, SubmitPassword, StartRefresh, StartFile, EndByButton, EndByIdleTimer,
     EndOnReturn, ExpireByTimer, ExpireByUse, RouteFromShare, BeginCleanup, OpenShare
<1>4. CASE ClosePreview \/ LockButton \/ IdleTimerFires \/ LockOnReturn \/ RescheduleOnReturn
           \/ Activity \/ RouteToFile \/ ShowUnlockAfterExit \/ TimePasses
  BY <1>4 DEF ClosePreview, LockButton, IdleTimerFires, LockOnReturn, LockDrive,
     RescheduleOnReturn, Activity, RouteToFile, ShowUnlockAfterExit, TimePasses
<1>5. CASE StartPage \/ HidePage \/ ShowPage
  BY <1>5 DEF StartPage, OpenShare, HidePage, ShowPage
<1>. QED
  BY <1>1, <1>2, <1>3, <1>4, <1>5 DEF Next

\* The inductive invariant of the vault: one unlock at a time, its key and that of
\* every file under way is the key of the page, and a page that is not the list holds
\* nothing (unlockWithKey, reloadEncryptedManifest, lockDrive, clearVaultMemory).  It
\* holds until a password is submitted while another unlock runs, which the code allows
\* behind the form that a #file= link has shown (app.js:703).
THEOREM VaultInvariant == Spec => [](~overlapped => VaultInv)
<1>1. ShareInv /\ (~overlapped => VaultInv) /\ [Next]_vars => (~overlapped => VaultInv)'
  BY NextVault, OverlapStays, LoadPageVault
<1>. QED
  BY <1>1, InitVault, ShareInvariant, PTL DEF Spec

\* Away from the list there is no list, no plaintext and no key but that of the reload
\* under way: lockDrive, promptForFreshPassword, failed unlocks and pagehide leave nothing.
THEOREM ClosedPagesHoldNothing == Spec => []ClosedPageHoldsNothing
<1>1. (~overlapped => VaultInv) => ClosedPageHoldsNothing
  BY DEF VaultInv, ClosedPageHoldsNothing
<1>. QED
  BY <1>1, VaultInvariant, PTL

\* Every key but the one in use has been overwritten (clearVaultMemory, and the catch
\* of unlockWithKey).
THEOREM KeysDoNotOutliveTheirUse == Spec => []KeysAreWiped
<1>1. (~overlapped => VaultInv) => KeysAreWiped
  BY DEF VaultInv, KeysAreWiped
<1>. QED
  BY <1>1, VaultInvariant, PTL

\* A decrypted file is shown, printed or downloaded only in the session that asked for
\* it, with the list still in view (assertTrustedOperationCurrent after decryption).
THEOREM FilesStayInTheirSession == Spec => NothingDeliveredAcrossLocks
<1>. DEFINE Kept ==
        \A o \in Op : ~overlapped /\ Deliver(o) => op[o].key = decryptKey /\ view = "app"
<1>1. ASSUME VaultInv, NEW o \in Op, Deliver(o)
      PROVE  op[o].key = decryptKey /\ view = "app"
  <2>1. LiveAt(o, {"file"})
    BY <1>1 DEF Deliver, Current, At, LiveAt
  <2>. QED
    BY <1>1, <2>1 DEF VaultInv, TrustedFits
<1>2. (~overlapped => VaultInv) /\ [Next]_vars => [Kept]_vars
  BY <1>1
<1>. QED
  BY <1>2, VaultInvariant, PTL DEF Spec, NothingDeliveredAcrossLocks

---------------------------------------------------------------------------------
(* What holds of the vault whatever has overlapped. *)

\* A step from a page of a share to one does not open the vault, and a page that was
\* locked on its way to the cache stays so.
LEMMA LockKept ==
  ASSUME LockInv,
         view' \in {"share", "exit"} =>
            \/ decryptKey' = None /\ ~files' /\ ~preview'
            \/ /\ view \in {"share", "exit"}
               /\ decryptKey' = decryptKey /\ files' = files /\ preview' = preview,
         afterHide' = "lock" =>
            decryptKey' = None \/ (afterHide = "lock" /\ decryptKey' = decryptKey)
  PROVE  LockInv'
BY DEF LockInv

LEMMA ContinueLock ==
  ASSUME ShareInv, LockInv, NEW o \in Op, Continue(o)
  PROVE  LockInv'
<1>. USE DEF pageVars, vaultVars, trustedVars
<1>1. ~frozen /\ afterHide' = afterHide
  BY DEF Continue, Derived, NotDerived, Unlocked, NotUnlocked, Refreshed, PromptForFreshPassword,
     Deliver, DropFile, Registered, NotRegistered, Unregistered, Settled, Cleared, Opened,
     Decrypted, NotOpened, At
<1>2. afterHide' # "lock"
  BY <1>1 DEF ShareInv, HideFits
<1>3. CASE Derived(o) \/ Unlocked(o) \/ Deliver(o) \/ PromptForFreshPassword(o)
  <2>1. op[o].live /\ pc[o] \notin PublicPhase
    BY <1>3 DEF Derived, Unlocked, Deliver, PromptForFreshPassword, At, Current, PublicPhase
  <2>2. view \notin {"share", "exit"}
    BY <2>1, VaultOperationAlone
  <2>3. view' \notin {"share", "exit"}
    BY <1>3, <2>2 DEF Derived, Unlocked, Deliver, PromptForFreshPassword
  <2>. QED
    BY <1>2, <2>3, LockKept
<1>4. CASE NotDerived(o) \/ NotUnlocked(o)
  <2>1. view' = "auth" \/ UNCHANGED <<view, decryptKey, files, preview>>
    BY <1>4 DEF NotDerived, NotUnlocked
  <2>. QED
    BY <1>2, <2>1, LockKept
<1>5. CASE \/ Refreshed(o) \/ DropFile(o) \/ Registered(o) \/ NotRegistered(o) \/ Unregistered(o)
           \/ Settled(o) \/ Opened(o) \/ Decrypted(o) \/ NotOpened(o)
  <2>1. UNCHANGED <<view, decryptKey, files, preview>>
    BY <1>5 DEF Refreshed, DropFile, Registered, NotRegistered, Unregistered, Settled, Opened,
       Decrypted, NotOpened
  <2>. QED
    BY <1>2, <2>1, LockKept
<1>6. CASE Cleared(o)
  <2>1. pc[o] = "clear" /\ UNCHANGED <<decryptKey, files, preview>>
    BY <1>6 DEF Cleared, At
  <2>2. op[o].live => view = "share"
    BY <2>1, ShareOperationAlone DEF PublicPhase
  <2>3. ~op[o].live => view' = view
    BY <1>6 DEF Cleared
  <2>. QED
    BY <1>2, <2>1, <2>2, <2>3, LockKept
<1>. QED
  BY <1>3, <1>4, <1>5, <1>6 DEF Continue

LEMMA BeginsLock ==
  ASSUME ShareInv, LockInv, NEW o \in Op, Begins(o)
  PROVE  LockInv'
<1>. USE DEF pageVars, vaultVars, trustedVars
<1>1. ~frozen /\ afterHide' = afterHide
  BY DEF Begins, SubmitPassword, StartRefresh, StartFile, EndByButton, EndByIdleTimer, EndOnReturn,
     ExpireByTimer, ExpireByUse, RouteFromShare, BeginCleanup, OpenShare, Start, At
<1>2. afterHide' # "lock"
  BY <1>1 DEF ShareInv, HideFits
<1>3. CASE SubmitPassword(o)
  BY <1>2, <1>3, LockKept DEF SubmitPassword
<1>4. CASE StartRefresh(o) \/ StartFile(o)
  <2>1. UNCHANGED <<view, decryptKey, files, preview>>
    BY <1>4 DEF StartRefresh, StartFile
  <2>. QED
    BY <1>2, <2>1, LockKept
<1>5. ASSUME NEW kind, BeginCleanup(o, kind)
      PROVE  LockInv'
  <2>1. decryptKey' = None /\ ~files' /\ UNCHANGED <<view, preview>>
    BY <1>5 DEF BeginCleanup, TearDownShare, ForgetShare, ClearVaultMemory
  <2>2. view' \in {"share", "exit"} => ~preview'
    BY <2>1 DEF LockInv
  <2>. QED
    BY <1>2, <2>1, <2>2, LockKept
<1>6. ASSUME NEW s \in Share, OpenShare(o, s)
      PROVE  LockInv'
  BY <1>2, <1>6, LockKept DEF OpenShare, ForgetShare, ClearVaultMemory
<1>. QED
  BY <1>3, <1>4, <1>5, <1>6 DEF Begins, EndByButton, EndByIdleTimer, EndOnReturn, ExpireByTimer,
                                ExpireByUse, RouteFromShare

LEMMA NextLock ==
  ASSUME ShareInv, LockInv, [Next]_vars
  PROVE  LockInv'
<1>. USE DEF pageVars, vaultVars, trustedVars
<1>1. CASE \/ UNCHANGED vars \/ ClosePreview \/ RescheduleOnReturn \/ Activity \/ TimePasses
  <2>1. /\ UNCHANGED <<view, afterHide, decryptKey, files>>
        /\ preview' = preview \/ ~preview'
    BY <1>1 DEF vars, ClosePreview, RescheduleOnReturn, Activity, TimePasses
  <2>. QED
    BY <2>1 DEF LockInv
<1>2. CASE LockDrive
  BY <1>2, LockKept DEF LockDrive, ClearVaultMemory
<1>3. CASE RouteToFile \/ ShowUnlockAfterExit
  BY <1>3, LockKept DEF RouteToFile, ShowUnlockAfterExit
<1>4. CASE StartPage
  <2>1. ASSUME NEW o \in Op, NEW s \in Share, OpenShare(o, s)
        PROVE  LockInv'
    <3>1. /\ view' = "share" /\ afterHide' = afterHide
          /\ decryptKey' = None /\ ~files' /\ ~preview'
      BY <2>1 DEF OpenShare, ForgetShare, ClearVaultMemory
    <3>. QED
      BY <3>1, LockKept
  <2>2. CASE view' \in {"loading", "auth"} /\ UNCHANGED <<afterHide, trustedVars>>
    BY <2>2, LockKept
  <2>. QED
    BY <1>4, <2>1, <2>2 DEF StartPage
<1>5. CASE HidePage
  <2>1. \/ decryptKey' = None /\ ~files' /\ preview' = preview /\ afterHide' # "lock"
        \/ decryptKey' = None /\ ~files' /\ ~preview'
        \/ UNCHANGED <<decryptKey, files, preview, afterHide>>
    BY <1>5 DEF HidePage, TearDownShare, ForgetShare, ClearVaultMemory
  <2>2. view' = view
    BY <1>5 DEF HidePage
  <2>. QED
    BY <2>1, <2>2 DEF LockInv
<1>6. CASE ShowPage
  <2>1. afterHide' = "nothing" /\ UNCHANGED <<decryptKey, files, preview>>
    BY <1>6 DEF ShowPage
  <2>2. view' \in {"share", "exit"} => view \in {"share", "exit"}
    BY <1>6 DEF ShowPage, ShareInv, HideFits
  <2>. QED
    BY <2>1, <2>2, LockKept
<1>7. CASE LoadPage
  BY <1>7, LockKept DEF LoadPage
<1>. QED
  BY <1>1, <1>2, <1>3, <1>4, <1>5, <1>6, <1>7, ContinueLock, BeginsLock
     DEF Next, LockButton, IdleTimerFires, LockOnReturn

\* A page of a share, and one that was locked on its way to the back/forward cache, holds
\* nothing of the vault, also when unlocks have overlapped (initializePublicShare,
\* teardownPublicSessionMemory, handlePageHide).
THEOREM LockInvariant == Spec => []LockInv
<1>1. Init => LockInv
  BY DEF Init, LockInv
<1>2. ShareInv /\ LockInv /\ [Next]_vars => LockInv'
  BY NextLock
<1>. QED
  BY <1>1, <1>2, ShareInvariant, PTL DEF Spec

\* No unlock of an earlier session puts anything of the vault into a page that opens,
\* shows or has closed a share link, not even one of several that overlap
\* (initializePublicShare outdates every one); and their keys are overwritten, but for
\* those that an overlapping unlock has displaced.
THEOREM PublicPagesHoldNoVault == Spec => []PublicPageHoldsNoVault
<1>1. ShareInv /\ LockInv /\ (~overlapped => VaultInv) => PublicPageHoldsNoVault
  <2>. SUFFICES ASSUME ShareInv, LockInv, ~overlapped => VaultInv, view \in {"share", "exit"}
                PROVE  decryptKey = None /\ (raw = {} \/ overlapped) /\ ~files /\ ~preview
    BY DEF PublicPageHoldsNoVault, ShareInv, NoShare
  <2>. QED
    BY NoVaultBesideShare DEF LockInv
<1>. QED
  BY <1>1, ShareInvariant, LockInvariant, VaultInvariant, PTL

---------------------------------------------------------------------------------
(* An open vault has its timer: what there is to prove of VaultLocksWhenIdle  *)
(* without fairness.                                                          *)

OpenVaultIsTimed == view = "app" /\ decryptKey # None => idleTimer

\* A step leaves the list or the timer as it is, or sets the timer.
LEMMA TimerKept ==
  ASSUME TimedInv,
         \/ view' # "app"
         \/ afterHide' = "lock"
         \/ idleTimer'
         \/ UNCHANGED <<view, afterHide, idleTimer>>
  PROVE  TimedInv'
BY DEF TimedInv

LEMMA ContinueTimed ==
  ASSUME TimedInv, NEW o \in Op, Continue(o)
  PROVE  TimedInv'
<1>. USE DEF pageVars, vaultVars, trustedVars
<1>1. CASE Derived(o) \/ NotDerived(o) \/ NotUnlocked(o) \/ Cleared(o)
  <2>1. view' # "app" \/ UNCHANGED <<view, afterHide, idleTimer>>
    BY <1>1 DEF Derived, NotDerived, NotUnlocked, Cleared
  <2>. QED
    BY <2>1, TimerKept
<1>2. CASE \/ Refreshed(o) \/ Deliver(o) \/ DropFile(o)
           \/ Registered(o) \/ NotRegistered(o) \/ Unregistered(o)
           \/ Settled(o) \/ Opened(o) \/ Decrypted(o) \/ NotOpened(o)
  <2>1. UNCHANGED <<view, afterHide, idleTimer>>
    BY <1>2 DEF Refreshed, Deliver, DropFile, Registered, NotRegistered, Unregistered, Settled,
       Opened, Decrypted, NotOpened
  <2>. QED
    BY <2>1, TimerKept
<1>3. CASE Unlocked(o) \/ PromptForFreshPassword(o)
  BY <1>3, TimerKept DEF Unlocked, PromptForFreshPassword
<1>. QED
  BY <1>1, <1>2, <1>3 DEF Continue

LEMMA BeginsTimed ==
  ASSUME TimedInv, NEW o \in Op, Begins(o)
  PROVE  TimedInv'
<1>. USE DEF pageVars, vaultVars, trustedVars
<1>1. CASE SubmitPassword(o)
  BY <1>1, TimerKept DEF SubmitPassword
<1>2. CASE StartRefresh(o) \/ StartFile(o)
  <2>1. UNCHANGED <<view, afterHide, idleTimer>>
    BY <1>2 DEF StartRefresh, StartFile
  <2>. QED
    BY <2>1, TimerKept
<1>3. ASSUME NEW kind, BeginCleanup(o, kind)
      PROVE  TimedInv'
  BY <1>3, TimerKept DEF BeginCleanup
<1>4. ASSUME NEW s \in Share, OpenShare(o, s)
      PROVE  TimedInv'
  BY <1>4, TimerKept DEF OpenShare
<1>. QED
  BY <1>1, <1>2, <1>3, <1>4 DEF Begins, EndByButton, EndByIdleTimer, EndOnReturn, ExpireByTimer,
                                ExpireByUse, RouteFromShare

LEMMA NextTimed ==
  ASSUME ShareInv, TimedInv, [Next]_vars
  PROVE  TimedInv'
<1>. USE DEF pageVars, vaultVars, trustedVars
<1>1. CASE UNCHANGED vars \/ ClosePreview \/ TimePasses
  <2>1. UNCHANGED <<view, afterHide, idleTimer>>
    BY <1>1 DEF vars, ClosePreview, TimePasses
  <2>. QED
    BY <2>1, TimerKept
<1>2. CASE LockDrive
  BY <1>2, TimerKept DEF LockDrive
<1>3. CASE RescheduleOnReturn \/ Activity
  <2>1. /\ UNCHANGED <<view, afterHide>>
        /\ idleTimer => idleTimer'
    BY <1>3 DEF RescheduleOnReturn, Activity
  <2>. QED
    BY <2>1 DEF TimedInv
<1>4. CASE RouteToFile \/ ShowUnlockAfterExit \/ LoadPage
  BY <1>4, TimerKept DEF RouteToFile, ShowUnlockAfterExit, LoadPage
<1>5. CASE StartPage
  <2>1. view' # "app"
    BY <1>5 DEF StartPage, OpenShare
  <2>. QED
    BY <2>1, TimerKept
<1>6. CASE HidePage
  <2>1. ~frozen /\ (afterHide' = "lock" \/ UNCHANGED <<view, idleTimer>>)
    BY <1>6 DEF HidePage
  <2>2. afterHide # "lock"
    BY <2>1 DEF ShareInv, HideFits
  <2>. QED
    BY <2>1, <2>2 DEF TimedInv
<1>7. CASE ShowPage
  <2>1. afterHide = "lock" => view' = "auth"
    BY <1>7 DEF ShowPage
  <2>2. view' = "app" => view = "app"
    BY <1>7 DEF ShowPage
  <2>3. idleTimer' = idleTimer
    BY <1>7 DEF ShowPage
  <2>. QED
    BY <2>1, <2>2, <2>3 DEF TimedInv
<1>. QED
  BY <1>1, <1>2, <1>3, <1>4, <1>5, <1>6, <1>7, ContinueTimed, BeginsTimed
     DEF Next, LockButton, IdleTimerFires, LockOnReturn

\* resetIdleLockTimer: while the list is shown and there is a key, the idle timer is set,
\* so that nothing but its firing stands between an idle vault and its lock; also when
\* unlocks have overlapped.
THEOREM OpenVaultsAreTimed == Spec => []OpenVaultIsTimed
<1>1. Init => TimedInv
  BY DEF Init, TimedInv
<1>2. ShareInv /\ TimedInv /\ [Next]_vars => TimedInv'
  BY NextTimed
<1>3. TimedInv /\ LockInv => OpenVaultIsTimed
  BY DEF TimedInv, LockInv, OpenVaultIsTimed
<1>. QED
  BY <1>1, <1>2, <1>3, ShareInvariant, LockInvariant, PTL DEF Spec

---------------------------------------------------------------------------------
(* The flags. *)

\* A flag that is kept, set or cleared stays a flag.
LEMMA FlagsMove ==
  ASSUME FlagsOK,
         frozen' \in {frozen, TRUE, FALSE}, files' \in {files, TRUE, FALSE},
         preview' \in {preview, TRUE, FALSE}, loading' \in {loading, TRUE, FALSE},
         trustedIdle' \in {trustedIdle, TRUE, FALSE}, idleTimer' \in {idleTimer, TRUE, FALSE},
         blob' \in {blob, TRUE, FALSE}, opening' \in {opening, TRUE, FALSE},
         publicIdle' \in {publicIdle, TRUE, FALSE}, exitTimer' \in {exitTimer, TRUE, FALSE},
         stored' \in {stored, TRUE, FALSE}, worker' \in {worker, TRUE, FALSE},
         overlapped' \in {overlapped, TRUE, FALSE}
  PROVE  FlagsOK'
<1>1. frozen' \in BOOLEAN /\ files' \in BOOLEAN /\ preview' \in BOOLEAN /\ loading' \in BOOLEAN
  BY DEF FlagsOK
<1>2. /\ trustedIdle' \in BOOLEAN /\ idleTimer' \in BOOLEAN
      /\ blob' \in BOOLEAN /\ opening' \in BOOLEAN
  BY DEF FlagsOK
<1>3. /\ publicIdle' \in BOOLEAN /\ exitTimer' \in BOOLEAN
      /\ stored' \in BOOLEAN /\ worker' \in BOOLEAN /\ overlapped' \in BOOLEAN
  BY DEF FlagsOK
<1>. QED
  BY <1>1, <1>2, <1>3, Zenon DEF FlagsOK

LEMMA TrustedFlags ==
  ASSUME FlagsOK, NEW o \in Op, Continue(o) \/ Begins(o)
  PROVE  FlagsOK'
<1>. USE DEF pageVars, vaultVars, trustedVars, shareVars, publicVars, workerVars, ClearVaultMemory
<1>1. CASE Derived(o)
  BY <1>1, FlagsMove DEF Derived
<1>2. CASE NotDerived(o)
  BY <1>2, FlagsMove DEF NotDerived
<1>3. CASE Unlocked(o)
  BY <1>3, FlagsMove DEF Unlocked
<1>4. CASE NotUnlocked(o)
  BY <1>4, FlagsMove DEF NotUnlocked
<1>5. CASE Refreshed(o) \/ PromptForFreshPassword(o) \/ Deliver(o) \/ DropFile(o)
  <2>1. CASE Refreshed(o)
    BY <2>1, FlagsMove DEF Refreshed
  <2>2. CASE PromptForFreshPassword(o)
    BY <2>2, FlagsMove DEF PromptForFreshPassword
  <2>3. CASE Deliver(o)
    BY <2>3, FlagsMove DEF Deliver
  <2>4. CASE DropFile(o)
    BY <2>4, FlagsMove DEF DropFile
  <2>. QED
    BY <1>5, <2>1, <2>2, <2>3, <2>4
<1>6. CASE Registered(o) \/ NotRegistered(o) \/ Unregistered(o)
  <2>1. CASE Registered(o)
    BY <2>1, FlagsMove DEF Registered
  <2>2. CASE NotRegistered(o)
    BY <2>2, FlagsMove DEF NotRegistered
  <2>3. CASE Unregistered(o)
    BY <2>3, FlagsMove DEF Unregistered
  <2>. QED
    BY <1>6, <2>1, <2>2, <2>3
<1>7. CASE Settled(o) \/ Cleared(o)
  <2>1. CASE Settled(o)
    BY <2>1, FlagsMove DEF Settled
  <2>2. CASE Cleared(o)
    BY <2>2, FlagsMove DEF Cleared
  <2>. QED
    BY <1>7, <2>1, <2>2
<1>8. CASE Opened(o) \/ Decrypted(o) \/ NotOpened(o)
  <2>1. CASE Opened(o)
    BY <2>1, FlagsMove DEF Opened
  <2>2. CASE Decrypted(o)
    BY <2>2, FlagsMove DEF Decrypted
  <2>3. CASE NotOpened(o)
    BY <2>3, FlagsMove DEF NotOpened
  <2>. QED
    BY <1>8, <2>1, <2>2, <2>3
<1>9. CASE SubmitPassword(o) \/ StartRefresh(o) \/ StartFile(o)
  <2>1. CASE SubmitPassword(o)
    <3>1. (overlapped \/ \E p \in Op : LiveAt(p, {"fetch", "reload"})) \in {TRUE, FALSE}
      OBVIOUS
    <3>2. overlapped' \in {TRUE, FALSE}
      BY <2>1, <3>1 DEF SubmitPassword
    <3>. QED
      BY <2>1, <3>2, FlagsMove DEF SubmitPassword
  <2>2. CASE StartRefresh(o)
    BY <2>2, FlagsMove DEF StartRefresh
  <2>3. CASE StartFile(o)
    BY <2>3, FlagsMove DEF StartFile
  <2>. QED
    BY <1>9, <2>1, <2>2, <2>3
<1>10. ASSUME NEW kind, BeginCleanup(o, kind)
       PROVE  FlagsOK'
  BY <1>10, FlagsMove DEF BeginCleanup, TearDownShare, ForgetShare
<1>11. ASSUME NEW s, OpenShare(o, s)
       PROVE  FlagsOK'
  BY <1>11, FlagsMove DEF OpenShare, ForgetShare
<1>12. EndByButton(o) \/ EndByIdleTimer(o) \/ EndOnReturn(o) \/ ExpireByTimer(o) \/ ExpireByUse(o)
       \/ RouteFromShare(o) => \E kind \in PublicKind : BeginCleanup(o, kind)
  BY DEF EndByButton, EndByIdleTimer, EndOnReturn, ExpireByTimer, ExpireByUse, RouteFromShare,
     PublicKind
<1>. QED
  BY <1>1, <1>2, <1>3, <1>4, <1>5, <1>6, <1>7, <1>8, <1>9, <1>10, <1>11, <1>12 DEF Continue, Begins

LEMMA PageFlags ==
  ASSUME FlagsOK,
         ClosePreview \/ LockDrive \/ RescheduleOnReturn \/ Activity \/ RouteToFile
         \/ ShowUnlockAfterExit \/ StartPage \/ HidePage \/ ShowPage \/ LoadPage \/ TimePasses
  PROVE  FlagsOK'
<1>. USE DEF pageVars, vaultVars, trustedVars, shareVars, publicVars, workerVars, ClearVaultMemory
<1>1. CASE ClosePreview \/ LockDrive
  BY <1>1, FlagsMove DEF ClosePreview, LockDrive
<1>2. CASE RescheduleOnReturn \/ Activity
  <2>1. CASE RescheduleOnReturn
    BY <2>1, FlagsMove DEF RescheduleOnReturn
  <2>2. CASE Activity
    BY <2>2, FlagsMove DEF Activity
  <2>. QED
    BY <1>2, <2>1, <2>2
<1>3. CASE RouteToFile \/ ShowUnlockAfterExit \/ TimePasses
  <2>1. CASE RouteToFile
    BY <2>1, FlagsMove DEF RouteToFile
  <2>2. CASE ShowUnlockAfterExit
    BY <2>2, FlagsMove DEF ShowUnlockAfterExit
  <2>3. CASE TimePasses
    BY <2>3, FlagsMove DEF TimePasses
  <2>. QED
    BY <1>3, <2>1, <2>2, <2>3
<1>4. CASE StartPage
  <2>1. ASSUME NEW o \in Op, NEW s \in Share, OpenShare(o, s)
        PROVE  FlagsOK'
    BY <2>1, FlagsMove DEF OpenShare, ForgetShare
  <2>. QED
    BY <1>4, <2>1, FlagsMove DEF StartPage
<1>5. CASE HidePage
  BY <1>5, FlagsMove DEF HidePage, TearDownShare, ForgetShare
<1>6. CASE ShowPage
  BY <1>6, FlagsMove DEF ShowPage
<1>7. CASE LoadPage
  <2>1. (worker \/ registering # <<>>) \in BOOLEAN
    OBVIOUS
  <2>. QED
    BY <1>7, <2>1 DEF LoadPage, FlagsOK
<1>. QED
  BY <1>1, <1>2, <1>3, <1>4, <1>5, <1>6, <1>7

\* Every variable has its type.
THEOREM TypeCorrect == Spec => []TypeOK
<1>1. FlagsOK /\ [Next]_vars => FlagsOK'
  <2>. SUFFICES ASSUME FlagsOK, [Next]_vars PROVE FlagsOK'
    OBVIOUS
  <2>1. CASE UNCHANGED vars
    BY <2>1, FlagsMove DEF vars, pageVars, vaultVars, trustedVars, shareVars, publicVars, workerVars
  <2>2. CASE Next
    BY <2>2, TrustedFlags, PageFlags DEF Next, LockButton, IdleTimerFires, LockOnReturn
  <2>. QED
    BY <2>1, <2>2
<1>2. ShareInv /\ FlagsOK => TypeOK
  BY DEF ShareInv, TypeOK
<1>3. Init => FlagsOK
  BY InitType DEF TypeOK
<1>. QED
  BY <1>1, <1>2, <1>3, ShareInvariant, PTL DEF Spec
=================================================================================
