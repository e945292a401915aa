# Print Drive in TLA+

Print Drive keeps a private folder of files as an encrypted vault inside a Git
repository: one `manifest.enc` and a set of random-named, immutable blobs.  The
repository is published as static pages; a browser decrypts the vault, may build
an *update package*, and hands out share links.  A watcher on the owner's machine
encrypts source changes, commits and pushes them.

These modules model the parts of the program whose correctness depends on the
order of steps: the transactions on the encrypted directory, the password slots,
the watcher and its Git branch, the locks between them, the source directory with the
cache of its scan, the sessions of a browser tab, the portable updater, the build of
the published directory, and the way from a push to a page that runs it.  TLC checks small
instances; TLAPS proves nearly every safety property of them for every number of writers,
blobs, packages, timers, operations, handlers, builds, paths, commits and faults.  Paths
below are relative to `src/`.

    tlc -workers 2 -config VaultPublish.cfg VaultPublish
    tlapm VaultPublishProofs.tla

and so for the other `.cfg` files and the other modules whose names end in `Proofs`.

## 1. The system

### Components, their state and their operations

| Component | State | Operations |
|---|---|---|
| Vault writer lock (`writer_lock.mjs`) | the file `.print-drive-vault.lock` with a token | open with `wx`, remove when the token matches; nobody reclaims it |
| Vault transactions (`encrypt_files.mjs`, `scripts/apply_update.mjs`) | `manifest.enc`, `*.bin`, staged files, `publishedBlobNames`, `manifestCommitted` | create, sync, migrate, apply: link blobs, rename the manifest, collect; roll back; recover unreferenced blobs |
| Password slots (`set_password.mjs`, and the two programs above) | key slots of the envelope, `PASSWORD.txt`, `PRINT_DRIVE_PASSPHRASE` | choose a passphrase, write the first password file, rotate in three writes |
| Source scan and cache (`encrypt_files.mjs`) | source tree, `.print-drive-state.json` | hash stable files, plan an incremental update, write the cache after the commit |
| Watcher (`auto_sync.py`) | timers, `needs_encrypt`, generation, thread lock, repository lock file, branch, remote | source event, pass: fetch, merge, encrypt, commit, fetch, push; retry |
| Browser session (`app.js`, `bootstrap.js`, `sw.js`) | keys in memory, trusted and public epochs, idle and expiry timers | unlock, lock, open a share link, upload, download, build an update package |
| Build identity (`build_identity.js`, `bootstrap.js`) | build id in the page, in session storage and on the server; a share fragment | capture the fragment, compare, clear the stale shell, reload once, start the app |
| Portable updater (`portable/*.mjs`) | pending update, pending fallback commit, a GitHub branch | preview, apply by a compare-and-set of the branch, fall back to a branch of its own |
| Source restore and relink (`scripts/restore_source.mjs`, `scripts/relink_source.mjs`) | source directory, verified copy | verify all blobs, swap directories; match renamed files to entries |
| Distribution (`scripts/build_dist.mjs`, `check_dist.mjs`, `dist_contract.mjs`, `public_files_guard.mjs`) | `dist`, its backup and a work directory | inspect, copy aside, check, swap; no lock |
| Pages workflow (`.github/workflows/deploy.yml`) | one run that goes on, one that waits, the deployed site | classify a push, build by one of two paths, deploy, cancel |
| Formats, cryptography, user interface, configuration | none that lasts | pure functions and rendering |

### How they interact

* Every program that changes the encrypted directory takes the writer lock.  The
  browser and the pages read the directory without it.
* The browser never writes the directory: it makes a package from the manifest it
  opened, and `apply_update` (or the portable updater, on GitHub) installs it
  later, when the manifest may be another one.
* The watcher runs `encrypt_files` as a child process and then commits the output.
  The repository lock keeps two passes apart; only the writer lock keeps a pass
  from a writer that a person started.
* A build of `dist` reads the directory without the writer lock; so does the workflow,
  on a checkout of its own.  What it deploys reaches a page by way of edges and caches.
* The portable updater runs `encrypt_files` in its own process, on a copy of the remote
  vault, and hands it the passphrase in the environment and in a file.
* Rotation, encryption and apply all rename the same `manifest.enc`; the password
  file and the environment are read by all of them, partly before the lock.

### What is hard

* *Faults between any two steps.*  Each run may throw or be killed after each link,
  rename and delete; the next run starts from what is left.
* *Stale inputs.*  A package may be made at any time, applied much later, twice, or
  after a rotation.
* *Threads.*  Each scheduled pass is a timer thread; several fire at once, cancel
  each other, and share a flag that the observer thread sets meanwhile.
* *Two locks of different kinds*: one never reclaimed, one reclaimed by age and by
  the death of its owner, in several steps.
* *A remote that moves* between a fetch and the push it prepares.
* *Handlers* of the updater that share one pending update and one environment, and
  answers of GitHub that are lost after the branch has moved.
* *A build* that takes several looks at a directory others write, and runs that are
  cancelled or overtaken by newer ones.
* *Sessions* that are locked, replaced or expire while an operation of theirs waits
  for the network.

### What makes each component correct

* Transactions: every manifest that is visible has all its blobs; generations
  follow one another by one; no run commits over a manifest it has not read; a
  cleanup deletes garbage and nothing else; a failed run leaves what it found.
* Passwords: a stored or known password opens the vault at every moment; a
  rotation does not undo another run; in the end one slot is left.
* Watcher: no change is forgotten; passes do not overlap; commits survive; in the
  end the remote has the last version or a person has been told.
* Repository lock: an abandoned file is reclaimed; a living owner keeps its file.
* Source scan and cache: a cached entry never hides a changed file; what is committed is
  what was scanned, and what the source held meanwhile; no two files share an id.
* Browser: nothing of one session is shown or kept in the next; a closed page holds no
  key, list or plaintext; idle and expired sessions end.
* Portable updater: the branch is moved from exactly the commit that was reviewed, once
  for each update, by what the plan names; what is offered for a pull request was refused.
* Distribution: `dist` has exactly the objects of its own manifest; a build that fails before
  its new one is in place keeps it.
* Pages and build identity: the site never goes back; the newest commit is published or
  its run has failed; a page stops reloading and keeps the link it was opened by.

## 2. Modules

| Module | Models | Composes |
|---|---|---|
| `WriterLock` | `writer_lock.mjs` | |
| `AtomicVault` | abstract: a vault whose generation changes in one step | |
| `VaultPublish` | `encrypt_files.mjs`, `scripts/apply_update.mjs` | EXTENDS `WriterLock`; implements `AtomicVault` |
| `VaultPublishProofs` | theorems about `VaultPublish` | EXTENDS `VaultPublish` |
| `PasswordVault`, `PasswordVaultProofs` | `set_password.mjs`, passphrase choice, slots in packages | EXTENDS `WriterLock` |
| `AutoSync`, `AutoSyncProofs` | `auto_sync.py`, `SyncHandler` and `main` | |
| `SyncLock` | `auto_sync.py`, `RepositorySyncLock` | |
| `SourceMirror`, `MCSourceMirror`, `SourceMirrorProofs` | scan, plan, second read and cache in `encrypt_files.mjs`; `restore_source.mjs`, `relink_source.mjs --adopt` | |
| `BrowserSession`, `BrowserSessionProofs` | sessions of `app.js` and its start in `bootstrap.js`, `public_device.js` | |
| `ReviewedBranch` | abstract: a branch that grows by reviewed updates | |
| `PortableUpdater`, `MCPortableUpdater`, `PortableUpdaterProofs` | `portable/*.mjs`, and what it uses of `encrypt_files.mjs` | implements `ReviewedBranch` |
| `Distribution`, `MCDistribution`, `DistributionProofs` | `scripts/build_dist.mjs`, `check_dist.mjs`, `dist_contract.mjs`, `public_files_guard.mjs` | |
| `Pages` | `.github/workflows/deploy.yml` | |
| `BuildIdentity` | `build_identity.js`, `bootstrap.js` | |
| `Publication` | a page beside the workflow that deploys it | EXTENDS `Pages`, INSTANCE `BuildIdentity` |
| `PagesProofs` | theorems about `Pages` and `Publication` | EXTENDS `Publication` |

Definitions that start with a comment `Mutant:` are plausible bugs.  No
specification uses them; `PROJECT.json` names, for every property, the one that
breaks it.

### VaultPublish

`manifest`, `blobs` and `lock` are the directory; `packages` are the packages
browsers have made; `pc[w]` and `run[w]` are one writer process and its locals.

| Action | Code |
|---|---|
| `StartEncrypt`, `StartApply` | `withVaultWriterLock` in `main` (95) and `applyUpdate` (47); a lock that is taken ends the run and changes nothing |
| `LoadVault`, `Recovered` | `loadExistingVault`, `recoverUnreferencedBlobs`, `assertNoOrphanBlobs` |
| `PlanInitial`, `PlanUpdate`, `PlanMigration` | `createInitialVault`, `syncV2Vault`, `migrateV1Vault`, with the staging and verification of the candidate; which files are kept or replaced is any choice |
| `ValidatePackage` | `validateUpdate`: the target is there already, or revision and object sets fit |
| `LinkBlob`, `RecordBlob`, `Commit` | the two halves of one turn of the publishing loop, and the manifest rename |
| `DeleteBlob`, `Finish` | `garbageCollectBlobs`, `assertExactBlobSet` |
| `RollbackBlob`, `RolledBack`, `Release` | the `catch` and `finally` blocks |
| `MakePackage` | `createEncryptedUpdateEntries` in `app.js` |
| `Fail`, `Kill` | an exception, or the death of the process, at any step |
| `ClearAbandonedLock` | the documented removal of the lock file by a person |

A blob name stands for its bytes.  The two steps of a link (`link`, `fsync`) are
apart because the blob is recorded for the rollback only after the second one.
`rename` and `manifestCommitted = true` are one step: between them the code only
calls a directory fsync that swallows its errors.

### PasswordVault

A vault is a revision and a set of slots; a commit of a body is one step, since
`VaultPublish` has its parts.  `ChoosePassphrase` and `WritePassphraseFile` come
before `LockVault`, as in `getPassphrase`; rotation is `StartRotate`,
`UnlockForRotation`, `WriteDualSlots`, `WriteNewPasswordFile`, `WriteFinalSlot`,
all under the lock and all written from the envelope that was read once.
`MakePackage` copies the slots of its base; `Applicable` tries a passphrase on both
manifests only when there is one.  `remembered` is what a person knows: what the
environment holds and what was typed.  `Initializer` are the runs that a person
starts without a password file (prompt or `--init-passphrase`).

### AutoSync

The observer is `MarkEvent` and `ScheduleEvent`, the two statements of `on_any_event`
that other threads can get between.  A timer thread goes through `Fire`,
`ForgetTimer`, `TryThreadLock`, `TryLockFile`, then the pass `ReadNeed`, `Prepare`
(fetch and `prepare_remote_base`), `ReadSource` and `WriteOutput` (the child
process), `ClearNeed`, `CommitOutput`, `FetchRemote`, `Push`, and ends in
`HandleEnding`, `Unlock`, `CheckPending`.  Branch, tracking branch and remote are
sequences of commits, so ahead, behind and diverged are prefix relations.  Outside
are `EditSource`, `OtherPush`, `DirtyTree`, `CleanTree`, `ProvidePassphrase`,
`KillWatcher`, `StartWatcher` and `LockFileAges`.  Time is abstract: a pending timer
may fire at any moment, whatever its delay.  A push that the remote refuses for a reason
of its own (a hook, a protected branch) says "rejected" as one to a moved remote does;
`Push` has it end the pass as diverged, as the code does (`auto_sync.py:600`, 321-322).

### SyncLock

One action per system call of `acquire` and `_remove_if_stale`: `Create`, `Stat`,
`ReadOwner`, `ProbeOwner`, `Unlink`; then `Release` and `Die`.  `LockFileAges` is the
passage of thirty minutes.  AutoSync uses the same file as one step (`TryLockFile`),
with one watcher process; the steps are checked here with three processes.

### SourceMirror

A file is its contents (size and SHA-256) and a stamp (what `lstat` says).  `source`,
`manifest` and `cache` are functions on some of the paths; `held` is a history variable.

| Action | Code |
|---|---|
| `StartEncrypt` | the lock, `loadExistingVault`, `loadSourceState` (`CacheFits`) |
| `SkipMissing`, `StatFile`, `ReadFile`, `CheckHashed` | `readSourceFiles` and `hashStableSourceFile`, between its two `lstat` calls |
| `Scanned` | `planIncrementalUpdate` (`Planned`, `Unchanged`), with or without `--preserve-remote` |
| `StatForEncryption`, `ReadFile`, `CheckRead` | `materializeSource` |
| `Commit`, `SaveState` | the manifest rename, `writeSourceState` |
| `StartAdopt`, `HashFile` | `relinkSource --adopt`, without the writer lock |
| `StartRestore`, `WipeSource`, `MoveInRestored`, `HashFile` | `restoreSource`, without the writer lock |
| `Stop` | an exception or a kill at any step; abandoned locks are in `VaultPublish` |
| `WriteFile`, `DeleteFile`, `MoveFile` | a person |

Two assumptions are about the file system, and the code makes both.  Different contents
never have one stamp.  And no file is moved to a path that is being hashed
(`MoveFile`): with three moves in that time, another file of the same size can be what
was opened and read while the first one is what both `lstat` calls see, since the file
that was opened is not compared with them.  The second read (`CheckRead`) compares
hashes and needs no such assumption.

### BrowserSession

One tab.  A step is an event handler, or what follows an `await`, up to the next one;
awaits with nothing but a check between them are one.  `pc[o]` is where operation `o`
waits and `op[o]` what it keeps: the code compares the epoch an operation began in with
the current one, so the model keeps whether they are the same (`live`), and
`invalidateTrustedOperations` or `++publicOperationEpoch` clears it (`Outdated`).  The
clock is one bit per deadline.  `raw` has the keys whose bytes were not overwritten yet.

| Action | Code |
|---|---|
| `SubmitPassword`, `Derived`, `NotDerived`, `Unlocked`, `NotUnlocked` | `handlePasswordSubmit` and `unlockWithStoredKey` around `unlockWithKey` and `reloadEncryptedManifest` |
| `StartRefresh`, `Refreshed`, `PromptForFreshPassword` | a refresh of the list, which may need a new password |
| `StartFile`, `Deliver`, `DropFile`, `ClosePreview` | `downloadSingleFile`, `openFile`, `downloadFilesAsZip`, `handleUploadFiles` |
| `LockDrive` by `LockButton`, `IdleTimerFires`, `LockOnReturn` | `lockDrive`, `scheduleIdleLockTimer`, `enforceActivityDeadlines` |
| `OpenShare`, `Settled`, `Cleared`, `Opened`, `Decrypted`, `NotOpened` | `initializePublicShare` between its awaits |
| `BeginCleanup` by `EndBy…`, `EndOnReturn`, `ExpireBy…`, `RouteFromShare`; then `Settled`, `Cleared` | `endPublicSession`, `expirePublicCapability`, `handleLocationHashChange` around `cleanupPublicSessionData` |
| `Registered`, `NotRegistered`, `Unregistered` | `registerServiceWorker`; the browser finishes registrations in their order |
| `HidePage`, `ShowPage`, `LoadPage` | `pagehide`, `pageshow` with the back/forward cache, a new document |

`RouteToFile` is a `#file=` link, which shows the password form also while an unlock is
under way, without outdating it (`app.js:691-704`); `SubmitPassword` may then begin a
second unlock.  `overlapped` is a history variable that says that this has happened in the
document that is open.  `ClosedPageHoldsNothing`, `KeysAreWiped` and
`NothingDeliveredAcrossLocks` are claimed up to then, `PublicPageHoldsNoVault` afterwards
too, but for a displaced key; the others do not mention it.  What goes wrong after it is
in section 3.

### PortableUpdater

One local server, `Slot` handlers at once.  A step is what a handler does up to its next
request to GitHub or its next look at the disk that another handler can get in front of.
`branch` is the target branch; a commit carries the vault it holds, so that a tree
made on `base_tree` is the vault of the update.  `branch`, `made`, `sideCommits` and `pulls` are GitHub's.

| Action | Code |
|---|---|
| `StartPreview`, `FetchSnapshot` | `/api/preview`, `fetchExactVaultSnapshot`: everything by the hashes of one commit |
| `Unlock` | the first half of `buildWorkspaceUpdate`: scan, confirmations, removals, the assignment of `PRINT_DRIVE_PASSPHRASE` |
| `ReadPassphrase`, `Encrypt`, `RestoreEnv` | `getPassphrase` and `encryptMain`, which reads the Workspace again; the `finally` clause |
| `PreviewReady` | the plan (`LogicalPlan`), the new pending update |
| `StartApply`, `RecheckBase`, `CreateCommit`, `UpdateRef` | `/api/apply`, `applyAtomicEncryptedUpdate` |
| `ApplySucceeded`, `ApplyConflicted`, `ApplyBlocked` | what the handler does with the answer |
| `StartFallback`, `CreateBranch`, `OpenPull`, `FallbackPublished` | `/api/fallback`, `publishFallbackBranch` |
| `StartDevice` … `DeviceApproved` | the device login |
| `Fail` | a refused call, a lost answer, a refused input: at any step |
| `Shutdown`, `Restart`, `OtherPush`, `EditWorkspace` | signals, the end of the process, other people, the owner |

A request that changes GitHub is one step and its answer another one, so an answer can be
lost in between (`Fail` in phase `moved`).  GitHub may refuse the reference update as
protected at any time, since 403 has other reasons as well.  The update of the reference
uses the path the code builds (`/git/ref/…`), which the tests' server accepts.

### Distribution

`manifest` and `blobs` are the encrypted output, `version` the sources of the browser app.
A build takes several looks: `List`, `ReadEnvelope`, `CheckObject`, `CheckStrays`
(`inspectPublicFiles`), `CollectAssets`, `Identify`, `CopyShell`, `CopyManifest`,
`CopyBlob`, `CheckStage` (`assertDistClean`), then `LookAtDist`, `MoveAside`, `MoveIn` or
`MoveInFails`, then `Restore` or `RestoreFails`, and `CleanUp` or `CleanUpFails`
(`replaceDistAtomically` and the `finally` clause of `buildDist`).  `LeaveBackup`: a removal
that fails or is cut off may leave the backup behind.  Beside it `StartWrite`, `WriteBlob`, `ReplaceManifest`, `RemoveBlob` and `EndWrite` are a vault writer, in the
order of `VaultPublish`, or git, which removes first, writes blobs bit by bit, and the
manifest last; `Edit` is a change of the sources.  `quiet` has the builds beside which
nothing has changed; `astray` says that a build has moved a `dist` aside while another
one had one aside, or that one that was to be put back was removed instead.  `BrowserAssets` is the least set that holds the entry modules and what
its members import, which is what the recursion of `collectModuleGraph` collects.

### Pages, BuildIdentity, Publication

`main` is a sequence of commits, each with the version of its code, whether the checks of
that code pass (`sound`), and whether its vault can be built (`whole`).  `Request` is the
concurrency group: the newer run waits in the place of the older one and cancels the one
that goes on.  Whether a cancelled run still deploys is GitHub's choice (`deploy` has
`always()`), so `Cancel` may happen and need not.  `Start`, `Classify`, `BuildContent`,
`BuildFull` and `Deploy` are the jobs, `JobFails` any other failure.

`BuildIdentity` is one tab: `Open` by a person, `Load` (the shell, and the capture of the
share fragment), `FetchMeta` (`ensureCurrentBuild` up to its comparison), `ReloadOnce`
(`clearStaleShell`, the remembered transition, the reload), `StartApp`, `FetchFails`.
A load and a fetch are answered with *any* build that was ever deployed
(`shellAnswer`, `metaAnswer`, moved by `AnswersMove`): edges and HTTP caches, and the
caches of the worker, which answer a navigation when the network does not.
`Publication` puts a page beside the workflow: `site` is what `Deploy` has reached.

## 3. Runs

| Run | Bounds | Shows |
|---|---|---|
| `publish` | 2 writers, 3 blobs, 5 manifests, revision 3, 2 blobs per change, 2 packages, 2 faults | `ReferencedBlobsPresent`, `CleanupIsExact`, `NoLostUpdate`, `ApplyReplacesItsBase`, the inductive invariant `IInv`, the refinement `ImplementsAtomicVault`, and under fairness `RunTerminates` and `EncryptCollectsOrphans` |
| `passwords` | 2 runs, 3 passwords, revision 3, 1 package, 2 faults | `AlwaysUnlockable`, `NoRevisionLost`, and under fairness `RotationSettles` |
| `first_use_race` | 2 first runs, 2 passwords, no faults | finding: `FirstRunsDoNotOverwrite` is violated |
| `auto_sync` | 2 timers, 1 change, 1 commit of others, 3 faults of any kind, a refused push among them | `NoChangeForgotten`, `WorkIsScheduled`, `OnePassAtATime`, `EncryptsOnFetchedBase`, `CommitsArePreserved`, and under fairness `ChangesReachRemote` |
| `sync_lock` | 3 processes, 2 deaths | `AbandonedLockIsReclaimed` |
| `sync_lock_reclaim` | 2 living processes | finding: `ReclaimsOnlyDeadOwners` is violated |
| `source` | an encryption beside a recovery, 2 paths, 2 contents, 3 stamps, 1 edit, 1 commit | `IdsAreUnique`, `CacheHidesNothing`, `CommittedAsScanned`, `RunMirrorsSource` |
| `browser` | 2 operations at once, 2 keys, 2 share links | `PublicPageHoldsNoVault`, `OpenShareIsCleanAndTimed`, `ClosedPageHoldsNothing`, `KeysAreWiped`, `NothingDeliveredAcrossLocks`, and under fairness `VaultLocksWhenIdle` and `ExpiredShareCloses` |
| `portable` | 2 handlers, 2 paths, 2 contents, 2 passwords, 2 previews, 3 commits, 1 Workspace edit, 1 fault | the refinement `ImplementsReviewedBranch`, `OfferedWasRefused`, `SealedWithItsKey` |
| `dist` | 2 builders, 2 builds, 2 blobs, 1 write, 1 edit, 2 faults | `DistIsWhole`, `EarlyFailureKeepsDist`, `LastBuildSurvives`, `QuietBuildIsExact` |
| `site` | 2 pushed commits, 1 dispatch, 1 failing job, 2 loads by the person, 2 changes of the answers, 1 failing request | `CodeIsVerifiedWhenBrought`, `SiteNeverGoesBack`, and under fairness `NewestCommitIsPublished` and `ReloadsStop` |
| `share_reload` | 1 pushed commit, 1 load, 2 changes of the answers | finding: `ShareLinkSkipsPassword` is violated |

Why the bounds are enough for what they should show.  Two writers are needed for a
lock to matter, and a third one only meets the same lock.  Two faults let a run fail
while it recovers from another one's failure; two packages let a package be applied
after the other one, or after itself.  Two blobs per change give a rollback and a
collection something to be in the middle of.  Three passwords are an old one, a new
one, and one an interrupted rotation left behind.  Two timers are a pass that
runs and the one that is scheduled next or finds it running; the watcher starts with a
pass to make, so one change arrives while something else is encrypted; two faults let the
retry of a failed pass fail, and a third one the pass after it.  Three processes are one that died and
two that reclaim its file.  Two paths are the old and the new one of a moved file, or one
that changes while the other is read; three stamps are theirs and that of an edit.  The
process of each kind runs any number of times, so that the cache one run writes is read
by the next.  Two operations are one that comes late and the one that
overtook it, and two links are the one whose timer is still set and the one that is
opened; every epoch has only two values, current and not.  A session may be opened,
locked and opened again any number of times.  Two handlers of the updater are one that
waits and the one that overtakes it; two previews make an update pending while another
is applied; three commits are the base, one of others and one update, or an update
applied twice.  Two contents on two paths give a move, an addition and a replacement.
Two builds overlap in every order; two faults let a restoration fail after the rename it
repairs; one write adds, drops or migrates objects between any
two looks of a build.  Two pushed commits are code and content, content and code, or a
content push that overtakes code; two changes of the answers let shell and identity
disagree, agree, and disagree the other way.

`source` uses the symmetry of paths, contents, stamps and ids, `portable` that of its
handlers, `dist` that of its builders; the runs with liveness properties use none.
Deadlock is not checked for `AutoSync`, whose watcher may rest or be dead with nothing
left to happen, nor for `PortableUpdater`, `Distribution` and `Publication`, which stop
when their bounds are used up; it is checked everywhere else.

### Findings

* `first_use_race`: the password file of `--init-passphrase` is renamed into place
  before the lock is asked for.  A run that is then refused has replaced the file.
* `sync_lock_reclaim`: `_remove_if_stale` unlinks whatever file is there by then.
* `share_reload`: `bootstrap.js` takes the share fragment out of the address before
  `ensureCurrentBuild` compares the builds, and the reload of a stale shell goes to that
  address.  Whoever opens a share link while the browser still has the shell of the build
  before gets the password screen of the whole vault.

### Differences without a run

The models have the steps of these; what is checked in their place is named with each.

* A blob is linked, fsynced, and only then recorded as published
  (`encrypt_files.mjs:396-398`, `scripts/apply_update.mjs:193-195`).  When the fsync
  throws, the rollback does not know the blob, although docs/OPERATIONS.md:79 says that a
  failure before the commit rolls back this run's objects.  `RollbackAccount` is what
  holds: at most that blob is left.  A later encryption of a v2 vault collects it; a first
  generation that stopped this way, or was killed before its manifest, makes
  `assertNoOrphanBlobs` refuse every later run.
* The generic `except` clause of `run_scheduled_sync` schedules another pass only while
  there is something to encrypt, so a push that failed is not retried after one git error
  in its retry, against README.md:149.  `push_with_retry` takes any output with "rejected"
  for a remote that has moved (`auto_sync.py:600`), and 321-322 then ends the pass as
  diverged without a retry, though a hook or a protected branch may have refused it.
  `ChangesReachRemote` excuses exactly these two endings, with nobody to come after them
  (`GivesUp`, `NobodyReturns`).
* A `#file=` link followed while a stored session is being opened shows the password form
  without moving the epoch on (`app.js:703`), although docs/ARCHITECTURE.md:33 says that
  route handling cleans up.  `browser` has these steps.  A password submitted there begins a
  second unlock.  When it is refused, the form stands over the list that the first one has
  opened (`StartPage`, `RouteToFile`, `SubmitPassword`, `Derived`, `Unlocked`,
  `NotDerived`); when it is accepted, its key displaces that of the first one, whose bytes
  are never overwritten (`StartPage`, `RouteToFile`, `SubmitPassword`, `Derived`,
  `Derived`).  TLC finds these two when `NothingLeft` and `NoKeyLeft` are checked without
  the proviso.  `ClosedPageHoldsNothing` and `KeysAreWiped` are these two as long as no
  unlock has begun while another one ran (`~overlapped`): the link alone, without the second
  password, is no exception.
* README.md:147 says that a checkout that is *ahead* stops before encryption;
  `prepare_remote_base` prints a note and goes on, which the retry of a failed push needs.
* docs/PORTABLE_UPDATER.md:25 says that *add/replace* keeps files that only the remote has.
  `planIncrementalUpdate` (`encrypt_files.mjs:506-523`) takes a new Workspace path with the
  contents of one such file for its move, and the remote path is gone.  The plan names the
  move, so `ImplementsReviewedBranch` holds.
* The text of a fallback's pull request (`remote_updater.mjs:189`) names the base of the
  update that is pending by then, which may be another one than the commit's.
* Code whose full path failed or was cancelled is deployed by a later push that changes
  `files/` only, because only the range of that push is classified (`deploy.yml:47-59`).
  `CodeIsVerifiedWhenBrought` says what holds: the push that brought the code is not
  deployed unverified.
* A build that something disturbs may publish an identity (`buildId`, `manifestSha256`)
  taken from other bytes than those it copied, and an older, slower build may replace the
  `dist` of a newer one.  `QuietBuildIsExact` is about builds that nothing disturbs.
* When the second rename fails and its restoration fails as well (`build_dist.mjs:123`), the
  `finally` clause of `buildDist` (68) removes the backup, and there is no `dist` any more.
  `RestoreFails` is that step, and `astray` is set when `dist` is missing and the backup has
  been removed.
* docs/OPERATIONS.md:125 says that a failed build does not replace `dist`.  The removal of
  the backup (`build_dist.mjs:128`) or of the work directory (68) may fail after `dist` has
  been replaced: the build is refused and the new `dist` stays (`CleanUpFails`).
  `EarlyFailureKeepsDist` is about the failures before the last rename.
* Builds whose renames cross lose a `dist`, although docs/OPERATIONS.md:125 says that a
  failed build does not replace it.  One build has moved the old `dist` aside; a second
  one, which found none, moves its own in; a third one moves that aside.  Now the second
  rename of the first build fails, and it brings the old `dist` back; the third can
  neither move its own in nor the newest back, and its clean-up removes the newest.  The
  attempt to prove `EarlyFailureKeepsDist` and `LastBuildSurvives` without a proviso failed
  on this, so both exclude the states in which builds have crossed or the only copy has been
  removed (`astray`).  The crossing takes three builds and does not happen with the two of
  `dist`; there the proviso excludes only what follows a failed restoration.

## 4. Fairness

* `VaultPublish`, `PasswordVault`: weak fairness of the steps of a run that has
  started.  A process that is neither killed nor failing goes on; nothing in the code
  waits.  No fairness for starting a run, for faults, or for the person who clears a
  lock: a lock may stay abandoned for ever.
* `AutoSync`: weak fairness of every thread step and of the observer: threads are
  scheduled, and timers fire.  Strong fairness of `HandleEnding` and `ScheduleEvent`,
  because both need a free slot among the bounded timers, which may come and go; the
  code has no such bound.  `LockFileAges` is fair, because time passes.  Restarting
  the watcher, cleaning the worktree and giving a passphrase are not: a person does
  them.  `ChangesReachRemote` excuses exactly those states (`NeedsPerson`).
* `SyncLock`: weak fairness of a process that tries, holds and releases; a process
  that was refused tries again, as the watcher does.
* `BrowserSession`: weak fairness of what an operation does after its await, since a
  fetch or a registration ends or fails, and of the idle timer.  Strong fairness of the
  expiry timer, which needs a free slot among the bounded operations.  Nothing a person
  does is fair.  A page in the back/forward cache runs nothing.

* `Publication`: weak fairness of the jobs of a run that has started or waits, and of what
  the page does after a load or an await: GitHub goes on with a run, and a request is
  answered or fails.  Pushes, dispatches, loads by the person, failures and what an edge
  answers are not fair.  `ReloadsStop` needs the bound on changes of the answers, as the
  page may reload once for every pair of builds it meets; it needs `sessionStorage`, too:
  without it the page reloads as long as the answers disagree.
* `PortableUpdater` and `Distribution` have no liveness properties.

## 5. Proofs

`VaultPublishProofs` proves, from `VaultAssumption` and `WriterLockAssumption` alone
(the special values are not members of the sets they are added to, the bounds are
natural numbers, there is a manifest identity) and therefore for any number of
writers, blobs, packages and faults:

| Theorem | Property |
|---|---|
| `TypeCorrect` | `TypeOK` |
| `InductiveInvariant` | `IInv` |
| `ReferencedBlobsAlwaysPresent` | `ReferencedBlobsPresent` |
| `CleanupAlwaysExact` | `CleanupIsExact` |
| `RollbackAlwaysAccounted` | `RollbackAccount` |
| `NoUpdateIsLost` | `NoLostUpdate` |
| `ApplyReplacesBase` | `ApplyReplacesItsBase` |
| `VaultIsAtomic` | `ImplementsAtomicVault` |
| `RunsAreBounded` | the half of `RunTerminates` without fairness, for finitely many blobs |

*The argument.*  `ReferencedBlobsPresent` is not inductive: a commit keeps it only if
all blobs of the target have been linked, a collection only if nothing to delete is
named, a rollback only if nothing it deletes was there before.  `IInv` says so for
the run that is under way: `Publishing` (the target is covered by what is linked and
what is still to link), `Cleaning` (what is left to delete is exactly the garbage),
`Uncommitted` (the blobs are those found, plus the recorded, plus the one in doubt),
`Reading` (the manifest a run works on is the current one).  The last one needs
`LockHeld`: only the owner of the lock file is inside a run, so `OthersRest` reduces
every step to one run.  `PackageBases` is what makes comparing revisions enough in
`validateUpdate`: while the revision is that of a package's base, the manifest is
that base, since only one chain of revisions leads from it.  It needs packages to be
made from manifests of this very vault, which `MakePackage` says.

`StepOfOneRun` has the part common to all actions; `EncryptStepInv`, `ApplyStepInv`,
`PublishStepInv`, `EndOfRunInv`, `StartInv`, `FailInv`, `MakePackageInv` and
`ClearAbandonedLockInv` have a step per action and under it one per conjunct it can
disturb.  The refinement follows from `IInv`: `Commit` maps to `Create`, `Migrate` or
`Update` (`CommitImplements`), every other step to a stutter, because blobs that come
and go are never among the readable ones.  `publish` checks `IInv` as an invariant
first.

`RunsAreBounded` counts: `StepsLeft` is the stages a run has before it, times `Span`, and
the blobs it has still to link, record, delete or take back.  Every step of the run, an
exception and a kill included, makes it smaller (`RunsComeToAnEnd`), and no step of
another process touches it.  So a run that goes on at all ends after fewer than sixteen
times one more steps than there are blobs; that it goes on is the fairness of section 4.

`PagesProofs` proves, from `NoneIsNoRun` alone (no run is not a run) and therefore for any
number of commits, pushes, dispatches, cancellations, failures, loads and answers:

| Theorem | Property |
|---|---|
| `PagesInvariant` | `IInv` of `Pages` |
| `PagesTypeCorrect` | `TypeOK` |
| `CodeIsAlwaysVerified` | `CodeIsVerifiedWhenBrought` |
| `SiteOnlyGoesForward` | `SiteNeverGoesBack` |
| `NoPushIsForgotten` | the half of `NewestCommitIsPublished` without fairness |
| `PublicationIsPages` | `PublicationSpec => Spec`: the page takes no step of the workflow |
| `PublicationIsSafe` | the safety properties above, for `PublicationSpec` |
| `PublicationTypeCorrect` | `PublicationTypeOK`, the page included |
| `AppAlwaysOneBuild` | the app starts from one build, which has been deployed |
| `PageComesToRest` | the half of `ReloadsStop` without fairness |

*The argument.*  A deployment goes forward because every run is for a commit that is not
older than the site, which a deployment keeps true only if the run that waits is for a
commit not older than that of the run that goes on: one group, and each request replaces
the waiting run by one for the newest commit.  The code is verified because a run that is
about to deploy has passed the full path or is for a push whose first end has the same
code (`RunHasBuilt`); then an earlier push has brought that code, since `before` is the
last commit of an earlier push (`RunIsCurrent`).  Pushes only add commits (`PushExtends`),
so none of this changes when more of them arrive.  `PushInv`, `DispatchInv`, `StartInv`,
`NextJobInv`, `EndInv` and `DeployInv` are the actions.  TLC agrees with `IInv` for three
pushed commits; no run repeats it.

That no push is forgotten (when nothing runs or waits the site has the newest commit, or
the last run failed) needs `QueueInv`: the newest run there is, the waiting one or else the
one that goes on, is for the newest commit, and only a run that another one waits for is
cancelled.  `Publication` is the workflow beside a page it serves, and what the runs check;
each of its steps is one of `Pages` or leaves its variables alone, so all of this carries
over.  For the page, `PageInv` says that past the comparison of identities its shell is a
deployed build.  `StepsLeft` counts what a page can still do without the person and with
the answers as they are: nine steps at most, because a page that has cleared the caches for
a transition remembers it and does so once.

`PasswordVaultProofs`, for any number of runs, passwords, packages, revisions and faults:

| Theorem | Property |
|---|---|
| `InductiveInvariant`, `TypeCorrect` | `IInv` of `PasswordVault`, `TypeOK` |
| `RevisionsAreKept` | `NoRevisionLost` |
| `VaultStaysUnlockable` | `AlwaysUnlockable`, under `OneInitializer` |
| `RotationEndsWithOneSlot` | the half of `RotationSettles` without fairness, under `OneInitializer` |

*The argument.*  A run inside the lock holds it (`LockHeld`), so what it has read there is
still the vault when it writes (`RunFits`), and revisions follow one another.  That a vault
opens needs more (`KnownInv`): at each of the three writes of a rotation a slot is left for
a password that is known by then (`RunKeepsKnown`), and a package of an older vault is
applied only where its slots fit the password file, or where there is none and they fit
what a person knows.  The same invariant says that between its first write and its last
nobody but the rotation changes the vault or the password file, so that the one slot it
leaves fits the file (`OthersLeaveRotation`).  `OneInitializer` says that at most one run makes the first password
file.  It is not a convenience: with two of them the vault is lost, which is the finding of
`first_use_race`.

`AutoSyncProofs`, for any number of timers, changes, commits and faults:

| Theorem | Property |
|---|---|
| `InductiveInvariant` | `IInv` of `AutoSync` |
| `ChangesAreRemembered` | `NoChangeForgotten` |
| `SomebodyIsGoingToLook` | `WorkIsScheduled` |
| `PassesExclude` | `OnePassAtATime` |
| `OutputIsBasedOnFetched` | `EncryptsOnFetchedBase` |
| `NoCommitIsLost` | `CommitsArePreserved` |

*The argument.*  A thread past the thread lock holds it and the lock file (`LocksHeld`),
so one pass at a time encrypts.  While it does, the need stays marked, and if the
generation is still the one it has read, the source is what it has read or an event is
still to come (`PassFits`); so clearing the mark forgets nothing.  Nobody but the pass
fetches, so the checkout it encrypts on is not behind when it ends.  That somebody is
going to look is an invariant of its own: every step that takes a timer away leaves a
thread that will look at the mark, or adds a timer.

`SourceMirrorProofs`, for any number of paths, contents, stamps, ids, processes and edits:

| Theorem | Property |
|---|---|
| `InductiveInvariant`, `TypeCorrect` | `IInv` of `SourceMirror`, `TypeOK` |
| `IdsStayUnique` | `IdsAreUnique` |
| `CacheIsHonest` | `CacheHidesNothing` |
| `CommitsAreAsScanned` | `CommittedAsScanned` |
| `RunsMirrorTheSource` | `RunMirrorsSource` |

*The argument.*  Everything that a stamp is kept with, in the source, the cache and the
locals of every run, is one set of `Records`, in which a stamp tells the contents
(`StampsTell`): no run makes a record that is not of a file it has seen whole
(`ReadsOneFile`), and an edit makes a new stamp.  That a stale cache of another run is
harmless follows without a word about who wrote it when.  What a run has scanned of a path
the path has held since the run took the lock (`ScansWhatWasHeld`), and what it has staged
is what it has scanned (`StagesItsPlan`).  The plan is a lemma about sets and functions
(`PlannedFits`): no entry is the origin of two paths (`MovesAreApart`) nor of one and
preserved besides (`MovedAreGone`), so ids stay unique, all of them are there under
`--preserve-remote`, and the manifest has the contents of the scan.  That removes the bound
of two paths of the run, with which several equal files in several places cannot occur.
What is assumed about stamps and moves is part of the actions (section 2).

`BrowserSessionProofs`, for any number of operations, keys and links, and with no hypothesis:

| Theorem | Property |
|---|---|
| `ShareInvariant`, `TypeCorrect` | `ShareInv`, `TypeOK` |
| `OpenSharesAreCleanAndTimed` | `OpenShareIsCleanAndTimed` |
| `VaultInvariant` | `~overlapped => VaultInv` |
| `LockInvariant` | `LockInv` |
| `PublicPagesHoldNoVault` | `PublicPageHoldsNoVault` |
| `ClosedPagesHoldNothing` | `ClosedPageHoldsNothing` |
| `KeysDoNotOutliveTheirUse` | `KeysAreWiped` |
| `FilesStayInTheirSession` | `NothingDeliveredAcrossLocks` |
| `OpenVaultsAreTimed` | the half of `VaultLocksWhenIdle` without fairness |

*The argument.*  `ShareInv`: the operation that opens or closes a share is the only live
one, and by the time it opens the link nothing is stored, nothing is registered and nothing
waits to be (`PublicFits`, `RegistrationFits`: the promise that `settle…` waits for is that
of the last registration, and the browser finishes them in order).  `VaultInv`, which holds
until two unlocks have overlapped: one unlock is under way at a time, its key, and that of every file under way, is the key of the page
(`TrustedFits`), and a page that is not the list holds nothing.  Both speak of the
operations that are still current (`live`); what an outdated one does is shown to touch
nothing.  That the list is never shown with a key and without its idle timer
(`OpenVaultIsTimed`) holds step by step: what clears the timer closes the list or takes
its key, whichever session set it.  `LockInv` is the part of
the vault that holds whatever has overlapped: a page that shows or has closed a share link
has no key, no list and no preview.  A route during an unlock
keeps both; only a second unlock beside the first (`SubmitPassword`) ends
the claim of `VaultInv`, and nothing but a new document takes `overlapped` back
(`OverlapStays`).

`PortableUpdaterProofs`, for any number of handlers, paths, passwords, commits, previews,
edits and faults:

| Theorem | Property |
|---|---|
| `InductiveInvariant`, `TypeCorrect` | `IInv` of `PortableUpdater`, `TypeOK` |
| `OfferedCommitsWereRefused` | `OfferedWasRefused` |
| `UpdatesAreSealedWithTheirKey` | `SealedWithItsKey` |
| `UpdaterImplementsReviewedBranch` | `ImplementsReviewedBranch` |

*The argument.*  Whatever a handler keeps comes from one review of a commit of the branch
(`JobFits`, `FromReview`), commits have names of their own, each its predecessor as its
parent (`BranchFits`), and a commit is in the hands of one handler (`OneHolder`).  A commit
that is offered is on no branch and in nobody's hands (`Offered`), which is why a lost
answer does not offer a commit that has landed.  The number of an update stands for one
base: there *is* a function from numbers to commits that fits everything pending, under way
and landed (`NumbersFit`), so no update lands twice, on its base or on another one.  The
refinement maps each reference update to a step of `ReviewedBranch` (`LandingIsReviewed`)
and every other step to a stutter or to a push of others.

`DistributionProofs`, from `NoneAssumption` alone, for any number of builders, blobs,
versions, writes, edits and faults:

| Theorem | Property |
|---|---|
| `InductiveInvariant`, `TypeCorrect` | `IInv` of `Distribution`, `TypeOK` |
| `PublishedDistIsWhole` | `DistIsWhole` |
| `EarlyFailuresKeepDist` | `EarlyFailureKeepsDist` |
| `LastArtifactSurvives` | `LastBuildSurvives` |
| `QuietInvariant` | `QuietInv` |
| `UndisturbedBuildIsExact` | `QuietBuildIsExact` |

*The argument.*  What passed `assertDistClean` is an `Artifact`, whatever the copy was made
from, and nothing else gets to `dist` (`IsChecked`, `KeepsBackup`).  Where the last one is
needs that one build at most has a `dist` aside (`OneHolder`, `LastIsSomewhere`), and that
is where the proof found the builds that cross (section 3).  Restorations and clean-ups may
fail as often as they like: the last artifact is in `dist`, with the build that has it
aside or in a work directory until a build goes `astray`, which the two theorems exclude.
`QuietInv` is what a build
beside which nothing changes knows after each of its looks; that its modules are closed
under imports follows from `BrowserAssets` being the least such set.

*Inductive invariants and TLC.*  Each invariant was checked by TLC in the instance of its run
before it was proved; `publish` repeats that, the other runs keep to what they show.  The
numbers of states were 1,328,608 (`KnownInv`), 247,663 (`IInv` of `AutoSync`), 1,315,444
(`SourceMirror`), 251,272 (`ShareInv`, `~overlapped => VaultInv`, `LockInv` and `TimedInv`),
1,985,681 (`PortableUpdater`) and 1,146,603 (`IInv` and `QuietInv` of `Distribution`).  With
larger bounds the properties of `portable` hold in 8,700,103 states (3 previews, 4 commits,
no edits).

Type invariants are proved wherever there are proofs, under the name `TypeCorrect` or as a
part of `IInv` (`AutoSync`); they are not among the runs' properties, which are kept for
what could go wrong.

*Leaves.*  A leaf cites few facts: all of them were also proved with a tenth of the
prover's usual time, so that a slow machine proves them too.  A type invariant is split for
this reason into parts that are proved apart (`SortsOK`, `FlagsOK`), and a step that leaves
most variables alone says so once, as a lemma.

*Assumptions.*  Named `ASSUME`s say that special values are not members of the sets they
are added to, that sets of processes are disjoint and bounds are natural numbers; the
modules of the runs extend them, so TLC evaluates them.  The other hypotheses are
`OneInitializer`, the complement of the finding of `first_use_race`, and for
`RunsAreBounded` that there are finitely many blobs, without which no bound exists.  The
provisos `~overlapped` and `~astray` are no hypotheses: they are parts of the properties,
about histories of the behaviour itself.

*Model-checked only.*  Liveness (`RunTerminates`, `EncryptCollectsOrphans`,
`RotationSettles`, `ChangesReachRemote`, `AbandonedLockIsReclaimed`, `VaultLocksWhenIdle`,
`ExpiredShareCloses`, `NewestCommitIsPublished`, `ReloadsStop`): TLAPS does not
reason about fairness and ENABLED here.  What the theorems say of five of them is the part
that needs neither: nothing goes on for ever, and what is at rest is as it should be.  The three findings are counterexamples of TLC.
`SyncLock` excludes nobody once the reclaim has removed a lock that is in use, which is the
finding of section 3, so nothing about it is proved; its run shows what holds.  Induction over data and RECURSIVE operators are out of reach
of the installed provers; the modules use neither (`BrowserAssets` is a least set rather
than a recursion for this reason).

## 6. Not modelled

* Contents: encryption, compression, names, the bytes of ZIP and JSON, slot wrapping.
  A manifest is its kind, identity, revision and references, or its revision and
  slots.  `vault_format.mjs` and `crypto.js` are checks and primitives without state.
* Power loss: a killed process leaves what it has renamed and linked; `fsync` is
  modelled only as a step that may throw.
* Network file systems, on which `O_EXCL` and `rename` may not be atomic.
* In `BrowserSession`: search, folders, selection, QR codes and layout; the failures of
  the browser's own cleanup (`public_device.js` reports them); several tabs, which share
  one service worker; the sixty seconds a print frame or a download link may live.
* In `SourceMirror`: names and their normalisation, symbolic links, limits of size, v1
  vaults.  A plan with several equal files in several places (`Moved` refuses it) needs
  three paths, which the run does not have; the theorems do not depend on their number.  `restoreSource` looks at the target long
  before it removes it, and `docs/LOCAL_RECOVERY.md` asks for an empty one: files that
  arrive in between are removed, and an encryption that runs between the removal and the
  rename publishes an empty vault.  The model has these steps; no property forbids them.
* In `PortableUpdater`: the page (`ui.mjs`), which may send its requests in any order; the
  CSRF and session checks; limits of size; a truncated tree, which is a failed call.
* In `Distribution`: what the checks of HTML and CSS look for, packaging of the portable
  updater (`build_portable.mjs`), symbolic links, and the optional security modules
  (`OPTIONAL_SECURITY_MODULES`), which are copied when they are there.  A recursive removal
  is one step, so a kill in the middle of one leaves all or nothing of the directory.
* In `Pages`: a person who has GitHub run an old run once more, which would deploy its older
  commit.
* In `Publication`: `sw.js` itself, whose caches are part of what a load may be answered
  with; modules that come from another build than the shell, which nothing compares after
  the check (`bootstrap.js:36`); several tabs.
* The pass of the watcher and a writer that a person starts are not composed: the
  watcher's `git add` and `git merge` do not take the writer lock.

## 7. Plan

Modules, in the order of what their failure would cost:

1. `WriterLock`, `AtomicVault`, `VaultPublish`, `VaultPublishProofs` (done).
2. `PasswordVault`, `PasswordVaultProofs` (done).
3. `AutoSync`, `AutoSyncProofs`, `SyncLock` (done).  Left: that the lock
   excludes as long as only dead owners are reclaimed, which the code does not guarantee.
4. `BrowserSession`, `BrowserSessionProofs` (done).
5. `SourceMirror`, `SourceMirrorProofs` (done).
6. `ReviewedBranch`, `PortableUpdater`, `PortableUpdaterProofs` (done).
7. `Distribution`, `DistributionProofs`, `Pages`, `PagesProofs`, `BuildIdentity`,
   `Publication` (done).
