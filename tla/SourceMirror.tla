------------------------------ MODULE SourceMirror ------------------------------
(***************************************************************************)
(* From the source directory to the manifest: encrypt_files.mjs scans the  *)
(* source, with the help of a cache of what it has seen before, plans      *)
(* which entries to reuse, reads and encrypts the others, commits a        *)
(* manifest and writes the cache.  restore_source.mjs and the --adopt mode *)
(* of relink_source.mjs write the same cache, without the writer lock, and *)
(* the first of them replaces the source directory.  A person edits the    *)
(* source meanwhile.                                                       *)
(*                                                                         *)
(* The contents of a file stand for its size and SHA-256.  A stamp is what *)
(* lstat says of a file: size, mtimeNs and file identity.  Two different   *)
(* contents never have one stamp: that is what the cache relies on, and    *)
(* what --full-scan is for.  A path is listed when it is visited, in any   *)
(* order.  How blobs and manifest are published is the subject of          *)
(* VaultPublish; here a commit is one step.                                *)
(***************************************************************************)
EXTENDS Naturals, Functions

CONSTANTS
    Path,           \* logical paths
    Data,           \* contents of files
    Stamp,          \* what lstat can say
    Id,             \* logical ids
    Encrypter,      \* processes that run encrypt_files.mjs, one after the other
    Recoverer,      \* processes that run relink_source.mjs --adopt or restore_source.mjs
    None,
    MaxGeneration,  \* bound: generations of the vault
    MaxEdits        \* bound: edits by the person

Run == Encrypter \union Recoverer

ASSUME SourceAssumption ==
    /\ None \notin Run /\ Encrypter \cap Recoverer = {}
    /\ MaxGeneration \in Nat /\ MaxEdits \in Nat

VARIABLES
    source,      \* the source directory
    manifest,    \* the decrypted manifest
    generation,  \* its id and revision
    cache,       \* .print-drive-state.json, or None
    lock,        \* the run that holds the writer lock
    pc, run,     \* each process: its step, its local variables
    held,        \* history: what each path has held since the lock was taken
    edits        \* edits so far

vars == <<source, manifest, generation, cache, lock, pc, run, held, edits>>

---------------------------------------------------------------------------------
(* Data. *)

\* Directories and manifests are functions on some of the paths.
On(S) == UNION {[paths -> S] : paths \in SUBSET Path}

Nothing == [p \in {} |-> None]
With(f, p, x) == [q \in DOMAIN f \union {p} |-> IF q = p THEN x ELSE f[q]]
Without(f, p) == Restrict(f, DOMAIN f \ {p})

File == [data : Data, stamp : Stamp]
Entry == [data : Data, id : Id]
CacheEntry == [data : Data, stamp : Stamp, id : Id]

Phase == {"free", "scan", "read", "check", "stage", "stage read", "stage check", "save",
          "wipe", "move"}

\* kind, keep    which program runs; --preserve-remote
\* base          the manifest it has read, and the generation of it
\* cached        the entries of the cache it may use
\* scan, staged  what it has scanned, and what it has encrypted
\* todo          paths still to visit
\* at, before    the path it reads, and the stamp it saw first
\* bytes         what it has read
NoRun ==
    [kind |-> "encrypt", keep |-> FALSE, base |-> Nothing, generation |-> 0,
     cached |-> Nothing, scan |-> Nothing, staged |-> Nothing, todo |-> {},
     at |-> None, before |-> None, bytes |-> None]

---------------------------------------------------------------------------------
(* The plan: planIncrementalUpdate. *)

New(scan, old) == DOMAIN scan \ DOMAIN old
Left(scan, old) == DOMAIN old \ DOMAIN scan

\* Files that were moved, when that is unambiguous: from m[2] to m[1].
Moved(scan, old) ==
    {m \in New(scan, old) \X Left(scan, old) :
        /\ scan[m[1]].data = old[m[2]].data
        /\ \A p \in New(scan, old) : scan[p].data = scan[m[1]].data => p = m[1]
        /\ \A p \in Left(scan, old) : old[p].data = old[m[2]].data => p = m[2]}

Origin(scan, old, p) == {m[2] : m \in {n \in Moved(scan, old) : n[1] = p}}

Created(scan, old) == {p \in New(scan, old) : Origin(scan, old, p) = {}}

Encrypted(scan, old) ==
    Created(scan, old)
      \union {p \in DOMAIN scan \cap DOMAIN old : scan[p].data # old[p].data}

\* Mutant: entries are preserved at their paths although they have moved.
PreservedAlways(scan, old, keep) == IF keep THEN Left(scan, old) ELSE {}

Preserved(scan, old, keep) ==
    IF keep THEN {p \in Left(scan, old) : \A m \in Moved(scan, old) : m[2] # p} ELSE {}

\* The manifest of a plan, with ids for the created files and what was encrypted.
Planned(scan, old, keep, ids, staged) ==
    [p \in DOMAIN scan \union Preserved(scan, old, keep) |->
        IF p \in DOMAIN staged
          THEN [data |-> staged[p], id |-> IF p \in DOMAIN old THEN old[p].id ELSE ids[p]]
          ELSE IF p \in DOMAIN old
                 THEN old[p]
                 ELSE old[CHOOSE q \in Origin(scan, old, p) : TRUE]]

Unchanged(scan, old, keep) ==
    /\ Encrypted(scan, old) = {}
    /\ Moved(scan, old) = {}
    /\ Left(scan, old) = Preserved(scan, old, keep)

---------------------------------------------------------------------------------
(* The source directory. *)

Contents(files, p) == IF p \in DOMAIN files THEN files[p].data ELSE None

ChangeSource(files) ==
    /\ source' = files
    /\ held' = IF lock = None THEN held
               ELSE [p \in Path |-> held[p] \union {Contents(files, p)}]

UsedStamps ==
    {source[p].stamp : p \in DOMAIN source}
      \union (IF cache = None THEN {} ELSE {cache.files[p].stamp : p \in DOMAIN cache.files})
      \union UNION {{run[r].before} \union {run[r].scan[p].stamp : p \in DOMAIN run[r].scan}
                       \union {run[r].cached[p].stamp : p \in DOMAIN run[r].cached} : r \in Run}
FreshStamps == Stamp \ UsedStamps

Edited ==
    /\ edits < MaxEdits
    /\ edits' = edits + 1
    /\ UNCHANGED <<manifest, generation, cache, lock, pc, run>>

WriteFile(p) ==
    /\ \E file \in [data : Data, stamp : FreshStamps] : ChangeSource(With(source, p, file))
    /\ Edited

DeleteFile(p) ==
    /\ p \in DOMAIN source
    /\ ChangeSource(Without(source, p))
    /\ Edited

\* A file keeps its stamp when it is moved.  It is not moved to a path whose file is
\* being hashed: the code takes a file for unchanged that was there before and after,
\* whatever was at its path when the path was opened.
MoveFile(p, q) ==
    /\ p \in DOMAIN source /\ p # q
    /\ \A r \in Run : pc[r] \in {"read", "check"} => run[r].at # q
    /\ ChangeSource(With(Without(source, p), q, source[p]))
    /\ Edited

---------------------------------------------------------------------------------
(* A run. *)

EndRun(r) ==
    /\ pc' = [pc EXCEPT ![r] = "free"]
    /\ run' = [run EXCEPT ![r] = NoRun]
    /\ lock' = IF lock = r THEN None ELSE lock
    /\ held' = IF lock = r THEN [p \in Path |-> {}] ELSE held

Step(r, phase, locals) ==
    /\ pc' = [pc EXCEPT ![r] = phase]
    /\ run' = [run EXCEPT ![r] = locals]
    /\ UNCHANGED <<lock, held>>

\* loadSourceState: the cache is of this manifest, and agrees with it.
CacheFits ==
    /\ cache # None
    /\ cache.generation = generation
    /\ \A p \in DOMAIN cache.files :
          /\ p \in DOMAIN manifest
          /\ cache.files[p].data = manifest[p].data
          /\ cache.files[p].id = manifest[p].id

StartEncrypt(r) ==
    /\ pc[r] = "free" /\ lock = None
    /\ lock' = r
    /\ held' = [p \in Path |-> {Contents(source, p)}]
    /\ pc' = [pc EXCEPT ![r] = "scan"]
    /\ \E full \in BOOLEAN :
          run' = [run EXCEPT ![r] = [NoRun EXCEPT
                    !.base = manifest, !.generation = generation,
                    !.cached = IF ~full /\ CacheFits THEN cache.files ELSE Nothing,
                    !.todo = Path]]
    /\ UNCHANGED <<source, manifest, generation, cache, edits>>

StartAdopt(r) ==
    /\ pc[r] = "free"
    /\ Step(r, "scan", [NoRun EXCEPT !.kind = "adopt", !.base = manifest,
                                     !.generation = generation, !.todo = Path])
    /\ UNCHANGED <<source, manifest, generation, cache, edits>>

\* The entries are decrypted into a directory beside the target and verified.  The
\* target was empty when the program looked, or --force-empty was given; by now it may
\* hold anything.
StartRestore(r) ==
    /\ pc[r] = "free"
    /\ Step(r, "wipe", [NoRun EXCEPT !.kind = "restore", !.base = manifest,
                                     !.generation = generation])
    /\ UNCHANGED <<source, manifest, generation, cache, edits>>

WipeSource(r) ==
    /\ pc[r] = "wipe"
    /\ pc' = [pc EXCEPT ![r] = "move"]
    /\ ChangeSource(Nothing)
    /\ UNCHANGED <<manifest, generation, cache, lock, run, edits>>

\* The rename into place; it fails when there are files again.
MoveInRestored(r) ==
    /\ pc[r] = "move" /\ DOMAIN source = {}
    /\ \E stamps \in Injection({run[r].base[p].data : p \in DOMAIN run[r].base}, FreshStamps) :
          ChangeSource([p \in DOMAIN run[r].base |->
              [data |-> run[r].base[p].data, stamp |-> stamps[run[r].base[p].data]]])
    /\ pc' = [pc EXCEPT ![r] = "scan"]
    /\ run' = [run EXCEPT ![r].todo = Path]
    /\ UNCHANGED <<manifest, generation, cache, lock, edits>>

\* readSourceFiles: a path that is not listed.
SkipMissing(r, p) ==
    /\ pc[r] = "scan" /\ p \in run[r].todo /\ p \notin DOMAIN source
    /\ Step(r, "scan", [run[r] EXCEPT !.todo = @ \ {p}])
    /\ UNCHANGED <<source, manifest, generation, cache, edits>>

\* The first lstat of a file, and the cache entry taken for its contents.
StatFile(r, p) ==
    /\ pc[r] = "scan" /\ p \in run[r].todo /\ p \in DOMAIN source
    /\ run[r].kind = "encrypt"
    /\ IF p \in DOMAIN run[r].cached /\ run[r].cached[p].stamp = source[p].stamp
         THEN Step(r, "scan", [run[r] EXCEPT
                 !.todo = @ \ {p},
                 !.scan = With(@, p, [data |-> run[r].cached[p].data,
                                      stamp |-> source[p].stamp])])
         ELSE Step(r, "read", [run[r] EXCEPT !.at = p, !.before = source[p].stamp])
    /\ UNCHANGED <<source, manifest, generation, cache, edits>>

\* The same for a recovery, which is always a full scan.  Its hash is one step: one that
\* succeeds is of the file that was there all along, one that does not ends the run.
HashFile(r, p) ==
    /\ pc[r] = "scan" /\ p \in run[r].todo /\ p \in DOMAIN source
    /\ run[r].kind # "encrypt"
    /\ Step(r, "scan", [run[r] EXCEPT !.todo = @ \ {p}, !.scan = With(@, p, source[p])])
    /\ UNCHANGED <<source, manifest, generation, cache, edits>>

\* Both passes over a file open it by its path.
ReadFile(r) ==
    /\ run[r].at \in DOMAIN source
    /\ \E step \in {<<"read", "check">>, <<"stage read", "stage check">>} :
          /\ pc[r] = step[1]
          /\ Step(r, step[2], [run[r] EXCEPT !.bytes = source[run[r].at].data])
    /\ UNCHANGED <<source, manifest, generation, cache, edits>>

\* Mutant: the stamp after the hash is recorded, whatever it was before.
CheckHashedLater(r) ==
    /\ pc[r] = "check"
    /\ IF run[r].at \in DOMAIN source
         THEN Step(r, "scan", [run[r] EXCEPT
                 !.todo = @ \ {run[r].at},
                 !.scan = With(@, run[r].at, [data |-> run[r].bytes,
                                              stamp |-> source[run[r].at].stamp]),
                 !.at = None, !.before = None, !.bytes = None])
         ELSE EndRun(r)
    /\ UNCHANGED <<source, manifest, generation, cache, edits>>

\* The second lstat of hashStableSourceFile: a file that changed ends the run.
CheckHashed(r) ==
    /\ pc[r] = "check"
    /\ IF run[r].at \in DOMAIN source /\ source[run[r].at].stamp = run[r].before
         THEN Step(r, "scan", [run[r] EXCEPT
                 !.todo = @ \ {run[r].at},
                 !.scan = With(@, run[r].at, [data |-> run[r].bytes, stamp |-> run[r].before]),
                 !.at = None, !.before = None, !.bytes = None])
         ELSE EndRun(r)
    /\ UNCHANGED <<source, manifest, generation, cache, edits>>

\* The scan is over: an encryption plans, with --preserve-remote or without; --adopt
\* asks for an exact match; a restore goes on to the cache.
Scanned(r) ==
    /\ pc[r] = "scan" /\ run[r].todo = {}
    /\ LET scan == run[r].scan  base == run[r].base IN
       \/ /\ run[r].kind = "encrypt"
          /\ \E keep \in BOOLEAN :
                IF Unchanged(scan, base, keep)
                  THEN Step(r, "save", [run[r] EXCEPT !.keep = keep])
                  ELSE /\ generation < MaxGeneration
                       /\ Step(r, "stage", [run[r] EXCEPT !.keep = keep,
                                                          !.todo = Encrypted(scan, base)])
       \/ run[r].kind = "adopt" /\ ~Unchanged(scan, base, FALSE) /\ EndRun(r)
       \/ /\ run[r].kind = "adopt" => Unchanged(scan, base, FALSE)
          /\ run[r].kind # "encrypt"
          /\ Step(r, "save", run[r])
    /\ UNCHANGED <<source, manifest, generation, cache, edits>>

\* materializeSource, its first lstat.
StatForEncryption(r, p) ==
    /\ pc[r] = "stage" /\ p \in run[r].todo
    /\ IF p \in DOMAIN source /\ source[p].stamp = run[r].scan[p].stamp
         THEN Step(r, "stage read", [run[r] EXCEPT !.at = p])
         ELSE EndRun(r)
    /\ UNCHANGED <<source, manifest, generation, cache, edits>>

\* Mutant: what was read is encrypted as it is.
CheckNothingRead(r) ==
    /\ pc[r] = "stage check"
    /\ Step(r, "stage", [run[r] EXCEPT !.todo = @ \ {run[r].at},
                                       !.staged = With(@, run[r].at, run[r].bytes),
                                       !.at = None, !.bytes = None])
    /\ UNCHANGED <<source, manifest, generation, cache, edits>>

\* The second one, and the comparison of the hashes.
CheckRead(r) ==
    /\ pc[r] = "stage check"
    /\ IF /\ run[r].at \in DOMAIN source
          /\ source[run[r].at].stamp = run[r].scan[run[r].at].stamp
          /\ run[r].bytes = run[r].scan[run[r].at].data
         THEN Step(r, "stage", [run[r] EXCEPT !.todo = @ \ {run[r].at},
                                              !.staged = With(@, run[r].at, run[r].bytes),
                                              !.at = None, !.bytes = None])
         ELSE EndRun(r)
    /\ UNCHANGED <<source, manifest, generation, cache, edits>>

UsedIds ==
    {manifest[p].id : p \in DOMAIN manifest}
      \union (IF cache = None THEN {} ELSE {cache.files[p].id : p \in DOMAIN cache.files})
      \union UNION {{run[r].base[p].id : p \in DOMAIN run[r].base} : r \in Run}

\* The new manifest is renamed into place.
Commit(r) ==
    /\ pc[r] = "stage" /\ run[r].todo = {}
    /\ generation' = generation + 1
    /\ LET scan == run[r].scan  base == run[r].base IN
       \E ids \in Injection(Created(scan, base), Id \ UsedIds) :
          manifest' = Planned(scan, base, run[r].keep, ids, run[r].staged)
    /\ Step(r, "save", [run[r] EXCEPT !.base = manifest', !.generation = generation + 1])
    /\ UNCHANGED <<source, cache, edits>>

\* writeSourceState; every file must have an entry with its contents.
SaveState(r) ==
    /\ pc[r] = "save"
    /\ LET scan == run[r].scan  base == run[r].base IN
       cache' = IF \A p \in DOMAIN scan : p \in DOMAIN base /\ scan[p].data = base[p].data
                  THEN [generation |-> run[r].generation,
                        files |-> [p \in DOMAIN scan |->
                           [data |-> scan[p].data, stamp |-> scan[p].stamp, id |-> base[p].id]]]
                  ELSE cache
    /\ EndRun(r)
    /\ UNCHANGED <<source, manifest, generation, edits>>

\* An exception, or a kill, at any step.  The lock file is taken to be removed.
Stop(r) ==
    /\ pc[r] # "free"
    /\ EndRun(r)
    /\ UNCHANGED <<source, manifest, generation, cache, edits>>

---------------------------------------------------------------------------------
(* The specification. *)

\* An encryption has just published the source, and its cache is gone.
Init ==
    /\ generation = 1
    /\ \E files \in SUBSET Path :
          /\ \E data \in [files -> Data], ids \in Injection(files, Id) :
                manifest = [p \in files |-> [data |-> data[p], id |-> ids[p]]]
          /\ \E stamps \in Injection(files, Stamp) :
                source = [p \in files |-> [data |-> manifest[p].data, stamp |-> stamps[p]]]
    /\ cache = None
    /\ lock = None
    /\ pc = [r \in Run |-> "free"] /\ run = [r \in Run |-> NoRun]
    /\ held = [p \in Path |-> {}]
    /\ edits = 0

Next ==
    \/ \E p \in Path : WriteFile(p) \/ DeleteFile(p) \/ \E q \in Path : MoveFile(p, q)
    \/ \E r \in Run :
          \/ r \in Encrypter /\ StartEncrypt(r)
          \/ r \in Recoverer /\ (StartAdopt(r) \/ StartRestore(r))
          \/ WipeSource(r) \/ MoveInRestored(r)
          \/ \E p \in Path :
                \/ SkipMissing(r, p) \/ StatFile(r, p) \/ HashFile(r, p)
                \/ StatForEncryption(r, p)
          \/ ReadFile(r) \/ CheckHashed(r) \/ Scanned(r) \/ CheckRead(r)
          \/ Commit(r) \/ SaveState(r) \/ Stop(r)

Spec == Init /\ [][Next]_vars

---------------------------------------------------------------------------------
(* Properties. *)

Caches == [generation : Nat, files : On(CacheEntry)]

Locals == [kind : {"encrypt", "adopt", "restore"}, keep : BOOLEAN, base : On(Entry),
           generation : Nat, cached : On(CacheEntry), scan : On(File), staged : On(Data),
           todo : SUBSET Path, at : Path \union {None}, before : Stamp \union {None},
           bytes : Data \union {None}]

TypeOK ==
    /\ source \in On(File) /\ manifest \in On(Entry) /\ cache \in Caches \union {None}
    /\ generation \in Nat /\ edits \in Nat
    /\ lock \in Run \union {None} /\ pc \in [Run -> Phase] /\ run \in [Run -> Locals]
    /\ held \in [Path -> SUBSET (Data \union {None})]

OneFileEach(f) == \A p, q \in DOMAIN f : f[p].id = f[q].id => p = q

\* Logical ids name one file each: the plan reuses no entry for two paths, and no
\* created file gets the id of another one (planIncrementalUpdate).
IdsAreUnique == OneFileEach(manifest)

\* The cache never hides a changed file: a file with the stamp that the cache has for
\* its path is the file that was hashed, whoever wrote the cache, in whatever order,
\* and whatever was edited in between (hashStableSourceFile).
CacheHidesNothing ==
    cache # None =>
        \A p \in DOMAIN cache.files \cap DOMAIN source :
            source[p].stamp = cache.files[p].stamp => source[p].data = cache.files[p].data

\* What was scanned, encrypted and committed agree: writeSourceState, which runs after
\* the commit, finds every scanned file in the manifest with the contents that were
\* hashed, so that no run that has committed fails there.
CommittedAsScanned ==
    \A r \in Run :
        pc[r] = "save" /\ run[r].kind # "restore" =>
            \A p \in DOMAIN run[r].scan :
                p \in DOMAIN run[r].base /\ run[r].scan[p].data = run[r].base[p].data

\* When an encryption commits, or finds nothing to commit, every entry is something
\* its path has held since the run took the lock; an entry that --preserve-remote
\* keeps, or a path without an entry, stands for a path that was empty meanwhile.
\* And --preserve-remote, with which relinking and the portable updater add and
\* replace files, drops no file of the manifest the run started from.
RunMirrorsSource ==
    [][\A r \in Run :
         run[r].kind = "encrypt" /\ pc[r] # "save" /\ pc'[r] = "save" =>
            /\ \A p \in Path :
                  \/ Contents(manifest', p) \in held[p]
                  \/ run'[r].keep /\ p \in DOMAIN manifest' /\ None \in held[p]
            /\ run'[r].keep => {e.id : e \in Range(manifest)} \subseteq
                               {e.id : e \in Range(manifest')}]_vars
---------------------------------------------------------------------------------
(* The inductive invariant. *)

\* Everything that a stamp is kept with: a stamp tells the contents, wherever it is.
Records ==
    Range(source)
      \union (IF cache = None THEN {} ELSE Range(cache.files))
      \union UNION {Range(run[r].scan) \union Range(run[r].cached) : r \in Run}

StampsTell == \A x, y \in Records : x.stamp = y.stamp => x.data = y.data

Hashing == {"read", "check"}
Staging == {"stage", "stage read", "stage check"}

\* The file at the path that is hashed is the one that was read, if it has the stamp
\* that was seen first.
ReadsOneFile(phase, j) ==
    /\ phase \in {"check", "stage check"} => j.bytes \in Data
    /\ phase = "check" /\ j.at \in DOMAIN source /\ source[j.at].stamp = j.before
         => source[j.at].data = j.bytes

\* What is to be encrypted is encrypted or still to do, and is what was scanned.
StagesItsPlan(phase, j) ==
    /\ phase \in {"scan"} \union Hashing => j.staged = Nothing
    /\ phase \in Staging =>
          /\ DOMAIN j.staged \union j.todo = Encrypted(j.scan, j.base)
          /\ \A p \in DOMAIN j.staged : j.staged[p] = j.scan[p].data
    /\ phase \in {"stage read", "stage check"} => j.at \in j.todo

\* What an encryption has scanned of a path, the path has held since it took the lock.
ScansWhatWasHeld(phase, j) ==
    LET visited == IF phase \in Staging THEN Path ELSE Path \ j.todo
    IN  /\ phase \in {"scan"} \union Hashing => DOMAIN j.scan \cap j.todo = {}
        /\ phase \in {"scan"} \union Hashing \union Staging =>
              \A p \in visited : Contents(j.scan, p) \in held[p]

\* An encryption has the lock and works on the manifest as it is; a recovery hashes a
\* file in one step and encrypts none.
RunFits(r, phase, j) ==
    /\ OneFileEach(j.base)
    /\ r \in Encrypter =>
          /\ j.kind = "encrypt" /\ phase \notin {"wipe", "move"}
          /\ phase # "free" => lock = r /\ j.base = manifest
          /\ ReadsOneFile(phase, j) /\ StagesItsPlan(phase, j) /\ ScansWhatWasHeld(phase, j)
    /\ r \in Recoverer =>
          /\ phase \notin Hashing \union Staging
          /\ phase # "free" => j.kind # "encrypt"

IInv ==
    /\ TypeOK
    /\ StampsTell
    /\ IdsAreUnique
    /\ \A r \in Run : RunFits(r, pc[r], run[r])
    /\ CommittedAsScanned
    /\ lock # None => lock \in Encrypter /\ \A p \in Path : Contents(source, p) \in held[p]
=================================================================================
