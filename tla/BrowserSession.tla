----------------------------- MODULE BrowserSession -----------------------------
(***************************************************************************)
(* One tab of the page (app.js): a vault that is unlocked and locked, or a *)
(* share link that is opened and closed, and the asynchronous operations   *)
(* between them.                                                           *)
(*                                                                         *)
(* JavaScript runs one event at a time.  A step here is an event handler,  *)
(* or what follows an await, up to the next await that may take time.      *)
(* Awaits with nothing but a check between them are one await.             *)
(*                                                                         *)
(* The code compares epochs: an operation keeps the epoch it began in, and *)
(* an epoch that has moved on never comes back.  So here an operation      *)
(* keeps whether its epoch is still the current one.  The clock is one bit *)
(* per deadline: ten idle minutes, two idle minutes, the time of a link.   *)
(* The browser's own cleanup calls are taken to succeed.                   *)
(***************************************************************************)
EXTENDS Naturals, Sequences

CONSTANTS
    Op,     \* operations (bound: how many are under way at once)
    Key,    \* vault keys (bound: how many exist at once)
    Share,  \* share links
    None    \* no key, no link, no operation

ASSUME SessionAssumption == None \notin Op \union Key \union Share

VARIABLES
    view,           \* the section showView has shown; "boot": bootstrap.js still runs
    frozen,         \* the page is in the back/forward cache
    afterHide,      \* what pageshow will show: restorePublicExit..., restoreTrustedLock...
    decryptKey,
    raw,            \* the keys whose bytes have not been overwritten
    files,          \* decryptedManifest and allFiles hold something
    preview,        \* a preview, print frame or download holds plaintext
    loading,        \* isLoading
    trustedIdle,    \* lastTrustedActivityAt is ten minutes ago, or zero
    idleTimer,      \* idleLockTimer is set
    capability,     \* publicState.capability
    blob,           \* publicState.blob and objectUrl
    opening,        \* isOpeningPublicShare
    publicEnd,      \* publicEndPromise
    publicIdle,     \* lastPublicActivityAt is two minutes ago, or zero
    exitTimer,      \* publicExitTimer is set
    expiryTimer,    \* the link publicCapabilityExpiryTimer is set for
    expired,        \* links whose time is over
    stored,         \* session storage holds the key of this tab
    worker,         \* the service worker is registered
    registering,    \* registrations the browser works on, in their order
    registration,   \* serviceWorkerRegistrationPromise
    pc, op,         \* each operation: where it waits, and its local state
    overlapped      \* history: in this document one unlock began while another one ran

pageVars == <<view, frozen, afterHide>>
vaultVars == <<decryptKey, raw, files, trustedIdle>>
trustedVars == <<vaultVars, preview, loading, idleTimer>>
shareVars == <<capability, blob, opening, publicIdle, exitTimer, expiryTimer>>
publicVars == <<shareVars, publicEnd, expired, overlapped>>
workerVars == <<worker, registering, registration>>
vars == <<pageVars, trustedVars, publicVars, stored, workerVars, pc, op>>

---------------------------------------------------------------------------------
(* Data. *)

View == {"boot", "auth", "loading", "app", "share", "exit"}

TrustedKind == {"stored", "password", "refresh", "file", "worker"}
PublicKind == {"share", "end", "expire", "route", "hide"}

\* kind   which function runs         live   its epoch is the current one
\* key    the key it works with       share  the link it opens
Operation ==
    [kind : TrustedKind \union PublicKind, live : BOOLEAN, key : Key \union {None},
     share : Share \union {None}]

NoOperation == [kind |-> "file", live |-> FALSE, key |-> None, share |-> None]

Begin(kind) == [kind |-> kind, live |-> TRUE, key |-> None, share |-> None]

Phase == {"free", "fetch", "reload", "refresh", "file", "register", "unregister",
          "settle", "clear", "open", "decrypt"}

\* The operations after the epoch of these kinds has moved on.
Outdated(kinds) ==
    [o \in Op |-> [op[o] EXCEPT !.live = @ /\ op[o].kind \notin kinds]]

\* assertTrustedOperationCurrent, once the vault should be open.
Current(o) == op[o].live /\ decryptKey # None

\* A page in the back/forward cache runs nothing.
At(o, phase) == ~frozen /\ pc[o] = phase

Start(o, kind, phase) ==
    /\ At(o, "free")
    /\ pc' = [pc EXCEPT ![o] = phase]
    /\ op' = [op EXCEPT ![o] = Begin(kind)]

Await(o, phase) == pc' = [pc EXCEPT ![o] = phase] /\ UNCHANGED op

End(o) == pc' = [pc EXCEPT ![o] = "free"] /\ op' = [op EXCEPT ![o] = NoOperation]

\* The same, when the step also moves the trusted epoch on.
EndAndInvalidate(o) ==
    /\ pc' = [pc EXCEPT ![o] = "free"]
    /\ op' = [Outdated(TrustedKind) EXCEPT ![o] = NoOperation]

\* showOverlay makes the list inert while an operation of the list runs.
Overlay == \E o \in Op : pc[o] \in {"refresh", "file"} /\ op[o].live

\* What handlePageHide and handleLocationHashChange ask.
PublicActive == capability # None \/ opening \/ view = "share"

LiveAt(o, phases) == op[o].live /\ pc[o] \in phases

FreshKeys == Key \ (raw \union {decryptKey} \union {op[o].key : o \in Op})

\* Mutant: the key is forgotten and its bytes are not overwritten.
ClearVaultMemoryUnwiped ==
    /\ decryptKey' = None
    /\ files' = FALSE
    /\ trustedIdle' = TRUE
    /\ UNCHANGED raw

ClearVaultMemory ==
    /\ decryptKey' = None
    /\ raw' = raw \ {decryptKey}
    /\ files' = FALSE
    /\ trustedIdle' = TRUE

---------------------------------------------------------------------------------
(* Unlocking. *)

SubmitPassword(o) ==
    /\ view = "auth"
    /\ \A other \in Op : pc[other] \in {"fetch", "reload"} => op[other].kind # "password"
    /\ Start(o, "password", "fetch")
    /\ view' = "loading"
    /\ overlapped' = (overlapped \/ \E other \in Op : LiveAt(other, {"fetch", "reload"}))
    /\ UNCHANGED <<frozen, afterHide, trustedVars, shareVars, publicEnd, expired, stored,
                   workerVars>>

\* The envelope is there and the key derived: unlockWithKey sets the key and
\* starts reloadEncryptedManifest, which shows the loading view.
Derived(o) ==
    /\ At(o, "fetch")
    /\ op[o].live
    /\ \E k \in FreshKeys :
          /\ decryptKey' = k
          /\ raw' = raw \union {k}
          /\ pc' = [pc EXCEPT ![o] = "reload"]
          /\ op' = [op EXCEPT ![o].key = k]
    /\ loading' = TRUE
    /\ view' = IF view = "app" THEN view ELSE "loading"
    /\ UNCHANGED <<frozen, afterHide, files, trustedIdle, preview, idleTimer, publicVars,
                   stored, workerVars>>

\* The network or the password fails before there is a key.
NotDerived(o) ==
    /\ At(o, "fetch")
    /\ IF op[o].live
         THEN /\ stored' = FALSE
              /\ view' = "auth"
         ELSE UNCHANGED <<stored, view>>
    /\ End(o)
    /\ UNCHANGED <<frozen, afterHide, trustedVars, publicVars, workerVars>>

\* Mutant: the idle timer is left to the first activity.
UnlockedUntimed(o) ==
    /\ At(o, "reload")
    /\ Current(o)
    /\ files' = TRUE
    /\ loading' = FALSE
    /\ view' = "app"
    /\ IF op[o].kind = "password" THEN stored' \in BOOLEAN ELSE UNCHANGED stored
    /\ pc' = [pc EXCEPT ![o] = "register"]
    /\ op' = [op EXCEPT ![o] = Begin("worker")]
    /\ registering' = Append(registering, o)
    /\ registration' = o
    /\ UNCHANGED <<frozen, afterHide, decryptKey, raw, preview, trustedIdle, idleTimer,
                   publicVars, worker>>

\* The list is there: it is shown, the worker registered (by an operation that takes
\* the place of this one), the idle timer set, the key stored if that was asked for.
Unlocked(o) ==
    /\ At(o, "reload")
    /\ Current(o)
    /\ files' = TRUE
    /\ loading' = FALSE
    /\ view' = "app"
    /\ trustedIdle' = FALSE
    /\ idleTimer' = TRUE
    /\ IF op[o].kind = "password" THEN stored' \in BOOLEAN ELSE UNCHANGED stored
    /\ pc' = [pc EXCEPT ![o] = "register"]
    /\ op' = [op EXCEPT ![o] = Begin("worker")]
    /\ registering' = Append(registering, o)
    /\ registration' = o
    /\ UNCHANGED <<frozen, afterHide, decryptKey, raw, preview, publicVars, worker>>

\* Mutant: a failed reload leaves the key of the session it could not open.
NotUnlockedKeepingKey(o) ==
    /\ At(o, "reload")
    /\ IF Current(o)
         THEN /\ stored' = FALSE
              /\ view' = "auth"
              /\ UNCHANGED vaultVars
         ELSE /\ raw' = raw \ {op[o].key}
              /\ UNCHANGED <<stored, view, decryptKey, files, trustedIdle>>
    /\ loading' = (loading /\ ~op[o].live)
    /\ End(o)
    /\ UNCHANGED <<frozen, afterHide, preview, idleTimer, publicVars, workerVars>>

\* The list cannot be read, or the operation is outdated: its key is overwritten.
NotUnlocked(o) ==
    /\ At(o, "reload")
    /\ IF Current(o)
         THEN /\ stored' = FALSE
              /\ view' = "auth"
              /\ IF decryptKey = op[o].key
                   THEN ClearVaultMemory
                   ELSE raw' = raw \ {op[o].key} /\ UNCHANGED <<decryptKey, files, trustedIdle>>
         ELSE /\ raw' = raw \ {op[o].key}
              /\ UNCHANGED <<stored, view, decryptKey, files, trustedIdle>>
    /\ loading' = (loading /\ ~op[o].live)
    /\ End(o)
    /\ UNCHANGED <<frozen, afterHide, preview, idleTimer, publicVars, workerVars>>

---------------------------------------------------------------------------------
(* An open vault. *)

StartRefresh(o) ==
    /\ view = "app" /\ ~loading /\ ~Overlay
    /\ Start(o, "refresh", "refresh")
    /\ loading' = TRUE
    /\ UNCHANGED <<pageVars, vaultVars, preview, idleTimer, publicVars, stored, workerVars>>

\* A new list, an error that leaves the old one, or an outdated operation.
Refreshed(o) ==
    /\ At(o, "refresh")
    /\ loading' = (loading /\ ~op[o].live)
    /\ End(o)
    /\ UNCHANGED <<pageVars, vaultVars, preview, idleTimer, publicVars, stored, workerVars>>

\* The new list needs another key: promptForFreshPassword.
PromptForFreshPassword(o) ==
    /\ At(o, "refresh")
    /\ Current(o)
    /\ ClearVaultMemory
    /\ preview' = FALSE
    /\ idleTimer' = FALSE
    /\ stored' = FALSE
    /\ view' = "auth"
    /\ EndAndInvalidate(o)
    /\ UNCHANGED <<frozen, afterHide, loading, publicVars, workerVars>>

\* downloadSingleFile, openFile, downloadFilesAsZip, handleUploadFiles.
StartFile(o) ==
    /\ view = "app" /\ ~loading /\ ~Overlay /\ decryptKey # None
    /\ At(o, "free")
    /\ pc' = [pc EXCEPT ![o] = "file"]
    /\ op' = [op EXCEPT ![o] = [Begin("file") EXCEPT !.key = decryptKey]]
    /\ UNCHANGED <<pageVars, trustedVars, publicVars, stored, workerVars>>

\* Mutant: what comes after the decryption does not look at the epoch.
DeliverUnchecked(o) ==
    /\ At(o, "file")
    /\ preview' = TRUE
    /\ End(o)
    /\ UNCHANGED <<pageVars, vaultVars, loading, idleTimer, publicVars, stored, workerVars>>

\* The decrypted file is shown, printed or downloaded.
Deliver(o) ==
    /\ At(o, "file")
    /\ Current(o)
    /\ preview' = TRUE
    /\ End(o)
    /\ UNCHANGED <<pageVars, vaultVars, loading, idleTimer, publicVars, stored, workerVars>>

DropFile(o) ==
    /\ At(o, "file")
    /\ End(o)
    /\ UNCHANGED <<pageVars, trustedVars, publicVars, stored, workerVars>>

ClosePreview ==
    /\ view = "app" /\ preview /\ ~frozen
    /\ preview' = FALSE
    /\ UNCHANGED <<pageVars, vaultVars, loading, idleTimer, publicVars, stored, workerVars, pc, op>>

---------------------------------------------------------------------------------
(* Locking. *)

\* Mutant: the preview stays open behind the password form.
LockDriveShowing ==
    /\ ~frozen
    /\ ClearVaultMemory
    /\ idleTimer' = FALSE
    /\ stored' = FALSE
    /\ view' = "auth"
    /\ op' = Outdated(TrustedKind)
    /\ UNCHANGED <<frozen, afterHide, preview, loading, publicVars, workerVars, pc>>

LockDrive ==
    /\ ~frozen
    /\ ClearVaultMemory
    /\ preview' = FALSE
    /\ idleTimer' = FALSE
    /\ stored' = FALSE
    /\ view' = "auth"
    /\ op' = Outdated(TrustedKind)
    /\ UNCHANGED <<frozen, afterHide, loading, publicVars, workerVars, pc>>

LockButton == view = "app" /\ ~loading /\ ~Overlay /\ LockDrive

IdleTimerFires == idleTimer /\ trustedIdle /\ LockDrive

\* enforceActivityDeadlines, when the tab is looked at again and a deadline is over.
LockOnReturn == decryptKey # None /\ trustedIdle /\ LockDrive

\* enforceActivityDeadlines before the deadline: the timers are set anew.
RescheduleOnReturn ==
    /\ ~frozen
    /\ \/ decryptKey # None /\ ~trustedIdle
       \/ capability # None /\ capability \notin expired /\ ~publicIdle
    /\ idleTimer' = (idleTimer \/ (decryptKey # None /\ ~trustedIdle))
    /\ exitTimer' = (exitTimer \/ (capability # None /\ ~publicIdle))
    /\ UNCHANGED <<pageVars, vaultVars, preview, loading, capability, blob, opening, publicIdle,
                   expiryTimer, publicEnd, expired, overlapped, stored, workerVars, pc, op>>

\* Any event of a person: resetIdleLockTimer and resetPublicExitTimer.
Activity ==
    /\ ~frozen
    /\ IF decryptKey # None
         THEN trustedIdle' = FALSE /\ idleTimer' = TRUE
         ELSE UNCHANGED <<trustedIdle, idleTimer>>
    /\ IF capability # None
         THEN publicIdle' = FALSE /\ exitTimer' = TRUE
         ELSE UNCHANGED <<publicIdle, exitTimer>>
    /\ UNCHANGED <<pageVars, decryptKey, raw, files, preview, loading, capability, blob, opening,
                   expiryTimer, publicEnd, expired, overlapped, stored, workerVars, pc, op>>

TimePasses ==
    /\ \/ trustedIdle' = TRUE /\ UNCHANGED <<publicIdle, expired>>
       \/ publicIdle' = TRUE /\ UNCHANGED <<trustedIdle, expired>>
       \/ \E s \in Share : expired' = expired \union {s} /\ UNCHANGED <<trustedIdle, publicIdle>>
    /\ UNCHANGED <<pageVars, decryptKey, raw, files, preview, loading, idleTimer, capability, blob,
                   opening, exitTimer, expiryTimer, publicEnd, overlapped, stored, workerVars,
                   pc, op>>

---------------------------------------------------------------------------------
(* The service worker. *)

Unregister(o) == registration' = IF registration = o THEN None ELSE registration

\* Registrations of one worker are done in the order they were asked for.  A
\* registration that comes after its session has ended is taken back.
Registered(o) ==
    /\ At(o, "register") /\ Head(registering) = o
    /\ registering' = Tail(registering)
    /\ worker' = TRUE
    /\ IF ~Current(o) \/ opening \/ view = "share"
         THEN Await(o, "unregister") /\ UNCHANGED registration
         ELSE End(o) /\ Unregister(o)
    /\ UNCHANGED <<pageVars, trustedVars, publicVars, stored>>

NotRegistered(o) ==
    /\ At(o, "register") /\ Head(registering) = o
    /\ registering' = Tail(registering)
    /\ End(o)
    /\ Unregister(o)
    /\ UNCHANGED <<pageVars, trustedVars, publicVars, stored, worker>>

Unregistered(o) ==
    /\ At(o, "unregister")
    /\ worker' = FALSE
    /\ End(o)
    /\ Unregister(o)
    /\ UNCHANGED <<pageVars, trustedVars, publicVars, stored, registering>>

---------------------------------------------------------------------------------
(* A share link. *)

\* What teardownPublicSessionMemory and the start of initializePublicShare share.
ForgetShare ==
    /\ capability' = None
    /\ blob' = FALSE
    /\ exitTimer' = FALSE
    /\ ClearVaultMemory

\* Mutant: operations of the vault go on.
OpenShareBesideVault(o, s) ==
    /\ At(o, "free")
    /\ pc' = [pc EXCEPT ![o] = "settle"]
    /\ op' = [Outdated(PublicKind) EXCEPT ![o] = [Begin("share") EXCEPT !.share = s]]
    /\ ForgetShare
    /\ opening' = TRUE
    /\ publicEnd' = None
    /\ preview' = FALSE
    /\ idleTimer' = FALSE
    /\ view' = "share"
    /\ UNCHANGED <<frozen, afterHide, loading, publicIdle, expiryTimer, expired, overlapped, stored,
                   workerVars>>

\* initializePublicShare, up to its first await.  The timer of an older link stays.
OpenShare(o, s) ==
    /\ At(o, "free")
    /\ pc' = [pc EXCEPT ![o] = "settle"]
    /\ op' = [Outdated(TrustedKind \union PublicKind)
                 EXCEPT ![o] = [Begin("share") EXCEPT !.share = s]]
    /\ ForgetShare
    /\ opening' = TRUE
    /\ publicEnd' = None
    /\ preview' = FALSE
    /\ idleTimer' = FALSE
    /\ view' = "share"
    /\ UNCHANGED <<frozen, afterHide, loading, publicIdle, expiryTimer, expired, overlapped, stored,
                   workerVars>>

\* teardownPublicSessionMemory, but for the epoch.
TearDownShare ==
    /\ ForgetShare
    /\ opening' = FALSE
    /\ expiryTimer' = None
    /\ publicIdle' = TRUE

\* cleanupPublicSessionData, up to its first await, for a function of this kind.
BeginCleanup(o, kind) ==
    /\ At(o, "free")
    /\ pc' = [pc EXCEPT ![o] = "settle"]
    /\ op' = [Outdated(PublicKind) EXCEPT ![o] = Begin(kind)]
    /\ TearDownShare
    /\ UNCHANGED <<pageVars, preview, loading, idleTimer, expired, overlapped, stored,
                   workerVars>>

EndByButton(o) ==
    /\ view = "share" /\ publicEnd = None
    /\ BeginCleanup(o, "end")
    /\ publicEnd' = o

EndByIdleTimer(o) ==
    /\ exitTimer /\ publicIdle /\ publicEnd = None
    /\ BeginCleanup(o, "end")
    /\ publicEnd' = o

EndOnReturn(o) ==
    /\ capability # None /\ capability \notin expired /\ publicIdle /\ publicEnd = None
    /\ BeginCleanup(o, "end")
    /\ publicEnd' = o

\* expirePublicCapability, from its timer.
ExpireByTimer(o) ==
    /\ expiryTimer \in expired /\ publicEnd = None
    /\ BeginCleanup(o, "expire")
    /\ UNCHANGED publicEnd

\* The same from a button of the link, or when the tab is looked at again.
ExpireByUse(o) ==
    /\ capability \in expired /\ publicEnd = None
    /\ BeginCleanup(o, "expire")
    /\ UNCHANGED publicEnd

\* A #file= link followed in a tab that shows, opens or closes a share link.
RouteFromShare(o) ==
    /\ PublicActive
    /\ BeginCleanup(o, "route")
    /\ UNCHANGED publicEnd

\* The same in any other tab; with an open vault it only selects a file.  The password
\* form is shown even while an unlock is under way, and that unlock is not outdated.
RouteToFile ==
    /\ view # "boot" /\ ~PublicActive /\ ~frozen
    /\ decryptKey = None
    /\ view' = "auth"
    /\ UNCHANGED <<frozen, afterHide, trustedVars, publicVars, stored, workerVars, pc, op>>

ShowUnlockAfterExit ==
    /\ view = "exit" /\ ~frozen
    /\ view' = "auth"
    /\ UNCHANGED <<frozen, afterHide, trustedVars, publicVars, stored, workerVars, pc, op>>

\* Mutant: a registration of the worker is not waited for.
SettledAtOnce(o) ==
    /\ At(o, "settle")
    /\ IF op[o].kind = "share" /\ ~op[o].live
         THEN End(o) /\ UNCHANGED stored
         ELSE Await(o, "clear") /\ stored' = FALSE
    /\ UNCHANGED <<pageVars, trustedVars, publicVars, workerVars>>

\* settleServiceWorkerRegistration; then clearAppManagedBrowserData begins, with
\* the storages.  The functions that close a share look at the epoch later.
Settled(o) ==
    /\ At(o, "settle")
    /\ registration = None
    /\ IF op[o].kind = "share" /\ ~op[o].live
         THEN End(o) /\ UNCHANGED stored
         ELSE Await(o, "clear") /\ stored' = FALSE
    /\ UNCHANGED <<pageVars, trustedVars, publicVars, workerVars>>

\* clearAppManagedBrowserData is done, and the function it was called from goes on.
Cleared(o) ==
    /\ At(o, "clear")
    /\ worker' = FALSE
    /\ IF op[o].live
         THEN view' = CASE op[o].kind = "end" -> "exit"
                        [] op[o].kind = "route" -> "auth"
                        [] OTHER -> "share"
         ELSE UNCHANGED view
    /\ publicEnd' = IF publicEnd = o THEN None ELSE publicEnd
    /\ IF op[o].kind = "share" /\ op[o].live THEN Await(o, "open") ELSE End(o)
    /\ UNCHANGED <<frozen, afterHide, trustedVars, shareVars, expired, overlapped, stored,
                   registering, registration>>

\* Mutant: the timer of the link's own time is not set.
OpenedForever(o) ==
    /\ At(o, "open")
    /\ op[o].live
    /\ op[o].share \notin expired
    /\ capability' = op[o].share
    /\ publicIdle' = FALSE
    /\ exitTimer' = TRUE
    /\ Await(o, "decrypt")
    /\ UNCHANGED <<pageVars, trustedVars, blob, opening, expiryTimer, publicEnd, expired,
                   overlapped, stored, workerVars>>

\* openShareCapability is done: the two timers of the link are set.
Opened(o) ==
    /\ At(o, "open")
    /\ op[o].live
    /\ op[o].share \notin expired
    /\ capability' = op[o].share
    /\ expiryTimer' = op[o].share
    /\ publicIdle' = FALSE
    /\ exitTimer' = TRUE
    /\ Await(o, "decrypt")
    /\ UNCHANGED <<pageVars, trustedVars, blob, opening, publicEnd, expired, overlapped, stored,
                   workerVars>>

Decrypted(o) ==
    /\ At(o, "decrypt")
    /\ op[o].live
    /\ blob' = TRUE
    /\ opening' = FALSE
    /\ End(o)
    /\ UNCHANGED <<pageVars, trustedVars, capability, publicIdle, exitTimer, expiryTimer, publicEnd,
                   expired, overlapped, stored, workerVars>>

\* A link or file that cannot be opened, or an outdated operation.
NotOpened(o) ==
    /\ At(o, "open") \/ At(o, "decrypt")
    /\ opening' = (opening /\ ~op[o].live)
    /\ End(o)
    /\ UNCHANGED <<pageVars, trustedVars, capability, blob, publicIdle, exitTimer, expiryTimer,
                   publicEnd, expired, overlapped, stored, workerVars>>

---------------------------------------------------------------------------------
(* The page itself. *)

\* bootstrap.js has run: startPrintDrive shows the share link, the stored session or
\* the password form.
StartPage ==
    /\ view = "boot" /\ ~frozen
    /\ \/ \E o \in Op, s \in Share : OpenShare(o, s)
       \/ /\ stored
          /\ \E o \in Op : Start(o, "stored", "fetch")
          /\ view' = "loading"
          /\ UNCHANGED <<frozen, afterHide, trustedVars, publicVars, stored, workerVars>>
       \/ /\ ~stored
          /\ view' = "auth"
          /\ UNCHANGED <<frozen, afterHide, trustedVars, publicVars, stored, workerVars, pc, op>>

\* pagehide, and the page is kept: a share is torn down and the clearing of the
\* browser's data begun, an open vault locked.
HidePage ==
    /\ ~frozen
    /\ frozen' = TRUE
    /\ \/ /\ PublicActive
          /\ afterHide' = "exit"
          /\ \E o \in Op :
                /\ At(o, "free")
                /\ pc' = [pc EXCEPT ![o] = "clear"]
                /\ op' = [Outdated(PublicKind) EXCEPT ![o] = [NoOperation EXCEPT !.kind = "hide"]]
          /\ TearDownShare
          /\ stored' = FALSE
          /\ UNCHANGED <<preview, idleTimer>>
       \/ /\ ~PublicActive /\ decryptKey # None
          /\ afterHide' = "lock"
          /\ op' = Outdated(TrustedKind)
          /\ ClearVaultMemory
          /\ idleTimer' = FALSE
          /\ preview' = FALSE
          /\ stored' = FALSE
          /\ UNCHANGED <<shareVars, pc>>
       \/ /\ ~PublicActive /\ decryptKey = None
          /\ UNCHANGED <<afterHide, vaultVars, idleTimer, preview, shareVars, stored, pc, op>>
    /\ UNCHANGED <<view, loading, publicEnd, expired, overlapped, workerVars>>

\* pageshow of a page that was kept.
ShowPage ==
    /\ frozen
    /\ frozen' = FALSE
    /\ afterHide' = "nothing"
    /\ view' = CASE afterHide = "exit" -> "exit"
                 [] afterHide = "lock" -> "auth"
                 [] OTHER -> view
    /\ UNCHANGED <<trustedVars, publicVars, stored, workerVars, pc, op>>

\* The tab goes elsewhere and comes back: only the browser's stores are left, and
\* the registrations it has accepted.  A share is torn down on the way.
LoadPage ==
    /\ view' = "boot" /\ frozen' = FALSE /\ afterHide' = "nothing"
    /\ decryptKey' = None /\ raw' = {} /\ files' = FALSE /\ trustedIdle' = TRUE
    /\ preview' = FALSE /\ loading' = FALSE /\ idleTimer' = FALSE
    /\ capability' = None /\ blob' = FALSE /\ opening' = FALSE /\ publicIdle' = TRUE
    /\ exitTimer' = FALSE /\ expiryTimer' = None /\ publicEnd' = None
    /\ stored' = (stored /\ ~PublicActive)
    /\ worker' \in {worker, worker \/ registering # <<>>}
    /\ registering' = <<>> /\ registration' = None
    /\ pc' = [o \in Op |-> "free"]
    /\ op' = [o \in Op |-> NoOperation]
    /\ overlapped' = FALSE
    /\ UNCHANGED expired

---------------------------------------------------------------------------------
(* The specification. *)

Init ==
    /\ view = "boot" /\ frozen = FALSE /\ afterHide = "nothing"
    /\ decryptKey = None /\ raw = {} /\ files = FALSE /\ trustedIdle = TRUE
    /\ preview = FALSE /\ loading = FALSE /\ idleTimer = FALSE
    /\ capability = None /\ blob = FALSE /\ opening = FALSE /\ publicIdle = TRUE
    /\ exitTimer = FALSE /\ expiryTimer = None /\ publicEnd = None
    /\ expired = {}
    /\ stored \in BOOLEAN /\ worker \in BOOLEAN
    /\ registering = <<>> /\ registration = None
    /\ pc = [o \in Op |-> "free"]
    /\ op = [o \in Op |-> NoOperation]
    /\ overlapped = FALSE

\* What an operation under way does when its await is over.
Continue(o) ==
    \/ Derived(o) \/ NotDerived(o) \/ Unlocked(o) \/ NotUnlocked(o)
    \/ Refreshed(o) \/ PromptForFreshPassword(o) \/ Deliver(o) \/ DropFile(o)
    \/ Registered(o) \/ NotRegistered(o) \/ Unregistered(o)
    \/ Settled(o) \/ Cleared(o) \/ Opened(o) \/ Decrypted(o) \/ NotOpened(o)

\* What a person, a timer or a link begins.
Begins(o) ==
    \/ SubmitPassword(o) \/ StartRefresh(o) \/ StartFile(o)
    \/ EndByButton(o) \/ EndByIdleTimer(o) \/ EndOnReturn(o)
    \/ ExpireByTimer(o) \/ ExpireByUse(o) \/ RouteFromShare(o)
    \/ \E s \in Share : view # "boot" /\ OpenShare(o, s)

Next ==
    \/ \E o \in Op : Continue(o) \/ Begins(o)
    \/ ClosePreview \/ LockButton \/ IdleTimerFires \/ LockOnReturn \/ RescheduleOnReturn
    \/ Activity \/ RouteToFile \/ ShowUnlockAfterExit
    \/ StartPage \/ HidePage \/ ShowPage \/ LoadPage
    \/ TimePasses

Spec == Init /\ [][Next]_vars

\* What an operation awaits comes to an end, one way or another, and timers fire.  A
\* timer of a share needs a free operation here, which there always is in a browser.
Fairness ==
    /\ \A o \in Op : WF_vars(Continue(o))
    /\ WF_vars(IdleTimerFires)
    /\ SF_vars(\E o \in Op : ExpireByTimer(o))

LiveSpec == Spec /\ Fairness

---------------------------------------------------------------------------------
(* Properties. *)

SortsOK ==
    /\ view \in View /\ afterHide \in {"nothing", "exit", "lock"}
    /\ decryptKey \in Key \union {None} /\ raw \subseteq Key
    /\ capability \in Share \union {None} /\ expiryTimer \in Share \union {None}
    /\ expired \subseteq Share /\ publicEnd \in Op \union {None}
    /\ registering \in Seq(Op) /\ registration \in Op \union {None}
    /\ pc \in [Op -> Phase] /\ op \in [Op -> Operation]

FlagsOK ==
    /\ frozen \in BOOLEAN /\ files \in BOOLEAN /\ preview \in BOOLEAN /\ loading \in BOOLEAN
    /\ trustedIdle \in BOOLEAN /\ idleTimer \in BOOLEAN
    /\ blob \in BOOLEAN /\ opening \in BOOLEAN
    /\ publicIdle \in BOOLEAN /\ exitTimer \in BOOLEAN
    /\ stored \in BOOLEAN /\ worker \in BOOLEAN /\ overlapped \in BOOLEAN

TypeOK == SortsOK /\ FlagsOK

\* A page that opens, shows or has closed a share link holds nothing of the vault,
\* however late an unlock of the session before it comes to its end: the public
\* entry outdates every trusted operation (initializePublicShare).  Only the bytes of a
\* key that another unlock has displaced may be left.
PublicPageHoldsNoVault ==
    capability # None \/ opening \/ view \in {"share", "exit"} =>
        decryptKey = None /\ (raw = {} \/ overlapped) /\ ~files /\ ~preview

\* By the time a share link is open the browser keeps nothing of a trusted session:
\* no stored key, and no worker, not even one that was being registered when the
\* link was followed.  And it has both of its timers, its own expiry and not that of a
\* link that was open before it.
OpenShareIsCleanAndTimed ==
    capability # None =>
        /\ ~stored /\ ~worker
        /\ exitTimer /\ expiryTimer = capability

\* Only the list that is being loaded has a key when no list is shown.
NothingLeft ==
    view # "app" =>
        /\ ~files /\ ~preview
        /\ decryptKey # None =>
              \E o \in Op : pc[o] = "reload" /\ op[o].live /\ op[o].key = decryptKey

NoKeyLeft == raw \subseteq {decryptKey}

\* Away from the list there is no list, no plaintext, and no key but the one whose
\* list is being loaded: locks, failures, prompts and page changes leave nothing.  This
\* holds as long as no password is submitted while the stored session is still being
\* unlocked, for which a #file= link has to show the form first (app.js:703): of the two
\* unlocks one may then fail and show the form over what the other one has opened.
ClosedPageHoldsNothing == ~overlapped => NothingLeft

\* A key that is not in use any more has been overwritten, with the same proviso: of two
\* unlocks the second one displaces the key of the first.
KeysAreWiped == ~overlapped => NoKeyLeft

\* A decrypted file reaches the person only in the session that asked for it, with the
\* same proviso: the second unlock changes the key under the list of the first.
NothingDeliveredAcrossLocks ==
    [][\A o \in Op : ~overlapped /\ Deliver(o) => op[o].key = decryptKey /\ view = "app"]_vars

\* An open vault that nobody uses locks itself.
VaultLocksWhenIdle ==
    (decryptKey # None /\ trustedIdle /\ ~frozen) ~> (decryptKey = None \/ ~trustedIdle)

\* A share link does not stay open past its time.
ExpiredShareCloses == (capability \in expired) ~> (capability = None)

---------------------------------------------------------------------------------
(* The inductive invariants. *)

PublicPhase == {"settle", "clear", "open", "decrypt"}

NoShare == capability = None /\ ~opening /\ ~exitTimer /\ expiryTimer = None

\* An operation is of a kind that waits where it waits.
KindFits(o) ==
    /\ pc[o] = "free" => ~op[o].live
    /\ op[o].live => (pc[o] \in PublicPhase <=> op[o].kind \in PublicKind)
    /\ op[o].live /\ pc[o] \in {"open", "decrypt"} => op[o].kind = "share"
    /\ op[o].live /\ op[o].kind = "share" => op[o].share \in Share

LivePublic(o) == op[o].live /\ op[o].kind \in PublicKind

\* The one operation that opens or closes a share is alone, and the browser is clean
\* before the link is opened.
PublicFits(o) ==
    LivePublic(o) =>
        /\ view = "share"
        /\ \A other \in Op : LivePublic(other) => other = o
        /\ op[o].kind # "share" => NoShare
        /\ op[o].kind = "share" /\ pc[o] # "settle" => ~stored /\ registering = <<>>
        /\ pc[o] \in {"open", "decrypt"} => ~worker

\* registering is what waits for the browser, in order; the promise is the last one's.
RegistrationFits ==
    /\ \A i \in 1 .. Len(registering) : pc[registering[i]] = "register"
    /\ \A i, j \in 1 .. Len(registering) : registering[i] = registering[j] => i = j
    /\ \A o \in Op : pc[o] = "register" => \E i \in 1 .. Len(registering) : registering[i] = o
    /\ registering # <<>> => registration = registering[Len(registering)]

HideFits ==
    /\ ~frozen => afterHide = "nothing"
    /\ afterHide = "exit" => view = "share" /\ NoShare /\ \A o \in Op : ~op[o].live
    /\ afterHide = "lock" => view # "share"

ShareInv ==
    /\ SortsOK
    /\ \A o \in Op : KindFits(o) /\ PublicFits(o)
    /\ RegistrationFits
    /\ HideFits
    /\ IF view = "share" THEN decryptKey = None /\ ~idleTimer ELSE NoShare
    /\ view \in {"share", "exit"} => \A o \in Op : op[o].live => op[o].kind \in PublicKind
    /\ capability # None => registering = <<>>
    /\ OpenShareIsCleanAndTimed

\* One unlock at a time; its key is the key of the page; so is the key of a file.
TrustedFits(o) ==
    /\ LiveAt(o, {"fetch"}) => view \in {"loading", "auth"} /\ decryptKey = None
    /\ LiveAt(o, {"reload"}) => view = "loading" /\ decryptKey # None /\ op[o].key = decryptKey
    /\ LiveAt(o, {"file"}) => view = "app" /\ decryptKey # None /\ op[o].key = decryptKey
    /\ LiveAt(o, {"fetch", "reload"}) =>
           \A other \in Op : LiveAt(other, {"fetch", "reload"}) => other = o

\* The vault, as long as no two unlocks have overlapped.
VaultInv ==
    /\ \A o \in Op : TrustedFits(o)
    /\ view = "app" /\ decryptKey = None => afterHide = "lock"
    /\ afterHide = "lock" =>
           /\ decryptKey = None /\ ~files /\ ~preview
           /\ \A o \in Op : ~LiveAt(o, {"fetch", "reload", "file"})
    /\ NothingLeft
    /\ NoKeyLeft

\* The vault, whatever has overlapped.
LockInv ==
    /\ view \in {"share", "exit"} => decryptKey = None /\ ~files /\ ~preview
    /\ afterHide = "lock" => decryptKey = None

TimedInv == view = "app" /\ afterHide # "lock" => idleTimer
================================================================================
