---------------------------- MODULE SourceMirrorProofs ----------------------------
(***************************************************************************)
(* Proofs about SourceMirror, for any number of paths, contents, stamps,   *)
(* ids and processes, and however many edits and generations there are:    *)
(* the four properties that its run checks.                                *)
(*                                                                         *)
(* What happens to the source and to a run comes in few forms: a run goes  *)
(* on (RunStep), a run ends (EndKeeps), the directory changes              *)
(* (SourceChanges).  A commit, which is the step that the plan is about,   *)
(* and the start of an encryption have proofs of their own.                *)
(***************************************************************************)
EXTENDS SourceMirror, TLAPS

---------------------------------------------------------------------------------
(* Lemmas about directories. *)

LEMMA OnFits ==
    ASSUME NEW S, NEW f \in On(S)
    PROVE  /\ DOMAIN f \in SUBSET Path /\ f \in [DOMAIN f -> S]
           /\ \A p \in DOMAIN f : f[p] \in S
           /\ Range(f) \subseteq S
           /\ \A x : x \in Range(f) <=> \E p \in DOMAIN f : x = f[p]
<1>1. PICK paths \in SUBSET Path : f \in [paths -> S]
  BY DEF On
<1>2. DOMAIN f = paths
  BY <1>1
<1> QED
  BY <1>1, <1>2 DEF Range

LEMMA FitsOn ==
    ASSUME NEW S, NEW paths \in SUBSET Path, NEW f \in [paths -> S]
    PROVE  f \in On(S)
BY DEF On

LEMMA NothingIsOn ==
    ASSUME NEW S
    PROVE  Nothing \in On(S) /\ DOMAIN Nothing = {} /\ Range(Nothing) = {}
<1>1. Nothing \in [{} -> S] /\ DOMAIN Nothing = {}
  BY DEF Nothing
<1>2. Nothing \in On(S)
  BY <1>1, FitsOn
<1> QED
  BY <1>1, <1>2 DEF Range

LEMMA WithFits ==
    ASSUME NEW S, NEW f \in On(S), NEW p \in Path, NEW x \in S
    PROVE  /\ With(f, p, x) \in On(S)
           /\ DOMAIN With(f, p, x) = DOMAIN f \union {p}
           /\ With(f, p, x)[p] = x
           /\ \A q \in DOMAIN f \ {p} : With(f, p, x)[q] = f[q]
           /\ Range(With(f, p, x)) \subseteq Range(f) \union {x}
<1>1. DOMAIN f \in SUBSET Path /\ \A q \in DOMAIN f : f[q] \in S
  BY OnFits
<1>2. /\ DOMAIN With(f, p, x) = DOMAIN f \union {p} /\ With(f, p, x)[p] = x
      /\ \A q \in DOMAIN f \ {p} : With(f, p, x)[q] = f[q]
  BY DEF With
<1>3. With(f, p, x) \in [DOMAIN f \union {p} -> S]
  BY <1>1 DEF With
<1>4. DOMAIN f \union {p} \in SUBSET Path
  BY <1>1
<1>5. With(f, p, x) \in On(S)
  BY <1>3, <1>4, FitsOn
<1>6. Range(With(f, p, x)) \subseteq Range(f) \union {x}
  BY <1>2 DEF Range
<1> QED
  BY <1>2, <1>5, <1>6

LEMMA WithoutFits ==
    ASSUME NEW S, NEW f \in On(S), NEW p
    PROVE  /\ Without(f, p) \in On(S)
           /\ DOMAIN Without(f, p) = DOMAIN f \ {p}
           /\ \A q \in DOMAIN f \ {p} : Without(f, p)[q] = f[q]
           /\ Range(Without(f, p)) \subseteq Range(f)
<1>1. DOMAIN f \in SUBSET Path /\ \A q \in DOMAIN f : f[q] \in S
  BY OnFits
<1>2. /\ DOMAIN Without(f, p) = DOMAIN f \ {p}
      /\ \A q \in DOMAIN f \ {p} : Without(f, p)[q] = f[q]
  BY DEF Without, Restrict
<1>3. Without(f, p) \in [DOMAIN f \ {p} -> S]
  BY <1>1 DEF Without, Restrict
<1>4. DOMAIN f \ {p} \in SUBSET Path
  BY <1>1
<1>5. Without(f, p) \in On(S)
  BY <1>3, <1>4, FitsOn
<1>6. Range(Without(f, p)) \subseteq Range(f)
  BY <1>2 DEF Range
<1> QED
  BY <1>2, <1>5, <1>6

LEMMA NoRunFits ==
    /\ NoRun \in Locals /\ NoRun.kind = "encrypt"
    /\ NoRun.scan = Nothing /\ NoRun.cached = Nothing /\ NoRun.base = Nothing
    /\ NoRun.staged = Nothing /\ NoRun.todo = {}
    /\ OneFileEach(NoRun.base)
BY NothingIsOn DEF NoRun, Locals, OneFileEach

---------------------------------------------------------------------------------
(* Lemmas about the plan. *)

\* Every new path that has no origin is encrypted, and so is what has other contents;
\* the other paths of the scan have the contents of their entry, or of the one entry
\* that they were moved from.
LEMMA PlanOfScan ==
    ASSUME NEW scan, NEW old, NEW p \in DOMAIN scan, p \notin Encrypted(scan, old)
    PROVE  \/ p \in DOMAIN old /\ scan[p].data = old[p].data
           \/ /\ p \notin DOMAIN old
              /\ \E q \in Left(scan, old) :
                    /\ Origin(scan, old, p) = {q} /\ scan[p].data = old[q].data
                    /\ <<p, q>> \in Moved(scan, old)
<1>1. CASE p \in DOMAIN old
  BY <1>1 DEF Encrypted
<1>2. CASE p \notin DOMAIN old
  <2>1. p \in New(scan, old) /\ Origin(scan, old, p) # {}
    BY <1>2 DEF Encrypted, Created, New
  <2>2. PICK m \in Moved(scan, old) : m[1] = p
    BY <2>1 DEF Origin
  <2>3. PICK q : q = m[2]
    OBVIOUS
  <2>4. m = <<p, q>> /\ q \in Left(scan, old)
    BY <2>2, <2>3 DEF Moved
  <2>5. /\ scan[p].data = old[q].data
        /\ \A x \in Left(scan, old) : old[x].data = old[q].data => x = q
    BY <2>4 DEF Moved
  <2>6. \A n \in Moved(scan, old) : n[1] = p => n[2] = q
    BY <2>5 DEF Moved
  <2>7. Origin(scan, old, p) = {q}
    BY <2>2, <2>3, <2>6 DEF Origin
  <2> QED
    BY <1>2, <2>4, <2>5, <2>7
<1> QED
  BY <1>1, <1>2

\* No entry is the origin of two paths, nor of one and preserved besides.
LEMMA MovesAreApart ==
    ASSUME NEW scan, NEW old
    PROVE  \A m, n \in Moved(scan, old) : m[2] = n[2] => m[1] = n[1]
<1> SUFFICES ASSUME NEW m \in Moved(scan, old), NEW n \in Moved(scan, old), m[2] = n[2]
             PROVE  m[1] = n[1]
  OBVIOUS
<1>1. m[1] \in New(scan, old) /\ n[1] \in New(scan, old)
  BY DEF Moved
<1>2. scan[m[1]].data = old[m[2]].data /\ scan[n[1]].data = old[m[2]].data
  BY DEF Moved
<1> QED
  BY <1>1, <1>2 DEF Moved

LEMMA MovedAreGone ==
    ASSUME NEW scan, NEW old, NEW keep
    PROVE  \A m \in Moved(scan, old) :
              m[2] \in Left(scan, old) /\ m[2] \notin Preserved(scan, old, keep)
BY DEF Moved, Preserved

\* A manifest that fits what was scanned and the manifest before it.
FitsScan(plan, scan, old, keep) ==
    /\ plan \in On(Entry) /\ OneFileEach(plan)
    /\ \A p \in DOMAIN scan : p \in DOMAIN plan /\ plan[p].data = scan[p].data
    /\ keep => \A p \in DOMAIN old : \E q \in DOMAIN plan : plan[q].id = old[p].id
    /\ \A p \in DOMAIN plan : p \notin DOMAIN scan => keep

\* What a plan makes of an entry or a path: a new id for a created file, the old id for
\* one that stays or moves, and the scanned contents for each path of the scan.
LEMMA PlannedFits ==
    ASSUME NEW scan \in On(File), NEW old \in On(Entry), NEW keep, NEW staged \in On(Data),
           DOMAIN staged = Encrypted(scan, old),
           \A p \in DOMAIN staged : staged[p] = scan[p].data,
           OneFileEach(old), NEW used, \A p \in DOMAIN old : old[p].id \in used,
           NEW ids \in Injection(Created(scan, old), Id \ used)
    PROVE  FitsScan(Planned(scan, old, keep, ids, staged), scan, old, keep)
<1> DEFINE all == DOMAIN scan \union Preserved(scan, old, keep)
           planned == Planned(scan, old, keep, ids, staged)
<1>1. /\ DOMAIN scan \in SUBSET Path /\ DOMAIN old \in SUBSET Path
      /\ \A p \in DOMAIN old : old[p] \in Entry
      /\ \A p \in DOMAIN scan : scan[p] \in File
      /\ \A p \in DOMAIN staged : staged[p] \in Data
  BY OnFits
<1>2. /\ \A p \in Created(scan, old) : ids[p] \in Id /\ ids[p] \notin used
      /\ \A p, q \in Created(scan, old) : ids[p] = ids[q] => p = q
  BY DEF Injection, IsInjective
<1>3. DOMAIN planned = all
  BY DEF Planned
<1>4. /\ Preserved(scan, old, keep) \subseteq DOMAIN old \ DOMAIN scan
      /\ (Preserved(scan, old, keep) # {} => keep)
  BY DEF Preserved, Left
<1>5. /\ Created(scan, old) \subseteq DOMAIN scan \ DOMAIN old
      /\ Created(scan, old) \subseteq Encrypted(scan, old)
      /\ Encrypted(scan, old) \subseteq DOMAIN scan
      /\ Encrypted(scan, old) \subseteq Created(scan, old) \union DOMAIN old
  BY DEF Created, Encrypted, New
<1>6. ASSUME NEW p \in Created(scan, old)
      PROVE  p \in all /\ planned[p].data = scan[p].data /\ planned[p].id = ids[p]
             /\ planned[p] \in Entry
  <2>1. p \in DOMAIN staged /\ p \notin DOMAIN old /\ p \in all
    BY <1>5
  <2>2. planned[p] = [data |-> staged[p], id |-> ids[p]]
    BY <2>1 DEF Planned
  <2> QED
    BY <1>1, <1>2, <2>1, <2>2 DEF Entry
<1>7. ASSUME NEW p \in all, p \in DOMAIN old
      PROVE  /\ planned[p].id = old[p].id /\ planned[p] \in Entry
             /\ p \in DOMAIN scan => planned[p].data = scan[p].data
  <2>1. CASE p \in DOMAIN staged
    <3>1. planned[p] = [data |-> staged[p], id |-> old[p].id]
      BY <1>7, <2>1 DEF Planned
    <3> QED
      BY <1>1, <1>7, <2>1, <3>1 DEF Entry
  <2>2. CASE p \notin DOMAIN staged
    <3>1. planned[p] = old[p]
      BY <1>7, <2>2 DEF Planned
    <3>2. p \in DOMAIN scan => scan[p].data = old[p].data
      BY <1>7, <2>2 DEF Encrypted
    <3> QED
      BY <1>1, <1>7, <3>1, <3>2
  <2> QED
    BY <2>1, <2>2
<1>8. ASSUME NEW m \in Moved(scan, old)
      PROVE  /\ m[1] \in DOMAIN scan \ DOMAIN old /\ m[2] \in DOMAIN old \ all
             /\ planned[m[1]] = old[m[2]] /\ scan[m[1]].data = old[m[2]].data
  <2>1. m[1] \in DOMAIN scan \ DOMAIN old /\ m[2] \in DOMAIN old \ DOMAIN scan
    BY DEF Moved, New, Left
  <2>2. m[2] \notin all
    BY <2>1, MovedAreGone
  <2>3. m[1] \notin Created(scan, old)
    BY DEF Created, Origin
  <2>4. m[1] \notin DOMAIN staged
    BY <1>5, <2>1, <2>3
  <2>5. Origin(scan, old, m[1]) = {m[2]} /\ scan[m[1]].data = old[m[2]].data
    <3>1. PICK p \in DOMAIN scan : p = m[1]
      BY <2>1
    <3>2. p \notin Encrypted(scan, old) /\ p \notin DOMAIN old
      BY <2>1, <2>4, <3>1
    <3>3. PICK q \in Left(scan, old) : /\ Origin(scan, old, p) = {q}
                                       /\ scan[p].data = old[q].data
      <4>1. \/ p \in DOMAIN old /\ scan[p].data = old[p].data
            \/ /\ p \notin DOMAIN old
               /\ \E q \in Left(scan, old) :
                     /\ Origin(scan, old, p) = {q} /\ scan[p].data = old[q].data
                     /\ <<p, q>> \in Moved(scan, old)
        BY <3>2, PlanOfScan
      <4> QED
        BY <3>2, <4>1
    <3>4. m[2] \in Origin(scan, old, p)
      BY <3>1 DEF Origin
    <3> QED
      BY <3>1, <3>3, <3>4
  <2>6. planned[m[1]] = old[CHOOSE q \in Origin(scan, old, m[1]) : TRUE]
    BY <2>1, <2>4 DEF Planned
  <2> QED
    BY <2>1, <2>2, <2>5, <2>6
<1>9. \A p \in all : \/ p \in Created(scan, old)
                     \/ p \in DOMAIN old
                     \/ \E m \in Moved(scan, old) : m[1] = p
  <2> SUFFICES ASSUME NEW p \in all, p \notin Created(scan, old), p \notin DOMAIN old
               PROVE  \E m \in Moved(scan, old) : m[1] = p
    OBVIOUS
  <2>1. p \in DOMAIN scan
    BY <1>4
  <2> QED
    BY <2>1 DEF Created, New, Origin
<1> HIDE DEF planned
<1>10. planned \in On(Entry)
  <2>1. all \in SUBSET Path
    BY <1>1, <1>4
  <2>2. \A p \in all : planned[p] \in Entry
    BY <1>1, <1>6, <1>7, <1>8, <1>9
  <2>3. planned \in [all -> Entry]
    BY <2>2 DEF Planned, planned
  <2> HIDE DEF all
  <2> QED
    BY <2>1, <2>3, FitsOn
<1>11. OneFileEach(planned)
  <2> SUFFICES ASSUME NEW p \in all, NEW q \in all, planned[p].id = planned[q].id
               PROVE  p = q
    BY <1>3 DEF OneFileEach
  <2>1. \A x \in all : x \notin Created(scan, old) => planned[x].id \in used
    BY <1>7, <1>8, <1>9
  <2>2. CASE p \in Created(scan, old) \/ q \in Created(scan, old)
    BY <1>2, <1>6, <2>1, <2>2
  <2>3. CASE p \notin Created(scan, old) /\ q \notin Created(scan, old)
    <3>1. CASE p \in DOMAIN old /\ q \in DOMAIN old
      BY <1>7, <3>1 DEF OneFileEach
    <3>2. CASE p \in DOMAIN old /\ q \notin DOMAIN old
      <4>1. PICK m \in Moved(scan, old) : m[1] = q
        BY <1>9, <2>3, <3>2
      <4>2. old[p].id = old[m[2]].id /\ m[2] \in DOMAIN old /\ m[2] \notin all
        BY <1>7, <1>8, <3>2, <4>1
      <4> QED
        BY <3>2, <4>2 DEF OneFileEach
    <3>3. CASE p \notin DOMAIN old /\ q \in DOMAIN old
      <4>1. PICK m \in Moved(scan, old) : m[1] = p
        BY <1>9, <2>3, <3>3
      <4>2. old[q].id = old[m[2]].id /\ m[2] \in DOMAIN old /\ m[2] \notin all
        BY <1>7, <1>8, <3>3, <4>1
      <4> QED
        BY <3>3, <4>2 DEF OneFileEach
    <3>4. CASE p \notin DOMAIN old /\ q \notin DOMAIN old
      <4>1. PICK m \in Moved(scan, old) : m[1] = p
        BY <1>9, <2>3, <3>4
      <4>2. PICK n \in Moved(scan, old) : n[1] = q
        BY <1>9, <2>3, <3>4
      <4>3. m[2] = n[2]
        <5>1. planned[p] = old[m[2]] /\ planned[q] = old[n[2]]
          BY <1>8, <4>1, <4>2
        <5>2. m[2] \in DOMAIN old /\ n[2] \in DOMAIN old
          BY <1>8
        <5> QED
          BY <5>1, <5>2 DEF OneFileEach
      <4> QED
        BY <4>1, <4>2, <4>3, MovesAreApart
    <3> QED
      BY <3>1, <3>2, <3>3, <3>4
  <2> QED
    BY <2>2, <2>3
<1>12. \A p \in DOMAIN scan : p \in DOMAIN planned /\ planned[p].data = scan[p].data
  BY <1>3, <1>6, <1>7, <1>8, <1>9
<1>13. ASSUME keep, NEW p \in DOMAIN old
       PROVE  \E q \in DOMAIN planned : planned[q].id = old[p].id
  <2>1. CASE p \in all
    BY <1>3, <1>7, <2>1
  <2>2. CASE p \notin all
    <3>1. PICK m \in Moved(scan, old) : m[2] = p
      BY <1>13, <2>2 DEF Preserved, Left
    <3> QED
      BY <1>3, <1>8, <3>1
  <2> QED
    BY <2>1, <2>2
<1>14. \A p \in DOMAIN planned : p \notin DOMAIN scan => keep
  BY <1>3, <1>4
<1> QED
  BY <1>10, <1>11, <1>12, <1>13, <1>14 DEF planned, FitsScan

\* With nothing to encrypt, to move or to drop, the manifest is what was scanned.
LEMMA UnchangedAgrees ==
    ASSUME NEW scan, NEW old, NEW keep, Unchanged(scan, old, keep)
    PROVE  /\ \A p \in DOMAIN scan : p \in DOMAIN old /\ scan[p].data = old[p].data
           /\ \A p \in DOMAIN old : p \notin DOMAIN scan => keep
<1>1. \A p \in DOMAIN scan : p \in DOMAIN old /\ scan[p].data = old[p].data
  <2> SUFFICES ASSUME NEW p \in DOMAIN scan
               PROVE  p \in DOMAIN old /\ scan[p].data = old[p].data
    OBVIOUS
  <2>1. p \notin Encrypted(scan, old) /\ Moved(scan, old) = {}
    BY DEF Unchanged
  <2>2. \/ p \in DOMAIN old /\ scan[p].data = old[p].data
        \/ /\ p \notin DOMAIN old
           /\ \E q \in Left(scan, old) :
                 /\ Origin(scan, old, p) = {q} /\ scan[p].data = old[q].data
                 /\ <<p, q>> \in Moved(scan, old)
    BY <2>1, PlanOfScan
  <2> QED
    BY <2>1, <2>2
<1>2. \A p \in DOMAIN old : p \notin DOMAIN scan => keep
  BY DEF Unchanged, Left, Preserved
<1> QED
  BY <1>1, <1>2

---------------------------------------------------------------------------------
(* Stamps. *)

\* A file that something has the stamp and the contents of.
Known(x) == \E y \in Records : y.stamp = x.stamp /\ y.data = x.data

LEMMA RecordsFit ==
    ASSUME TypeOK
    PROVE  /\ \A p \in DOMAIN source : source[p] \in Records /\ source[p] \in File
           /\ cache # None => \A p \in DOMAIN cache.files : cache.files[p] \in Records
           /\ \A r \in Run : /\ \A p \in DOMAIN run[r].scan : run[r].scan[p] \in Records
                             /\ \A p \in DOMAIN run[r].cached : run[r].cached[p] \in Records
           /\ \A x : x \in Records <=>
                 \/ x \in Range(source)
                 \/ cache # None /\ x \in Range(cache.files)
                 \/ \E r \in Run : x \in Range(run[r].scan) \union Range(run[r].cached)
<1>1. \A p \in DOMAIN source : source[p] \in File
  BY OnFits DEF TypeOK
<1>2. \A x : x \in Records <=>
          \/ x \in Range(source)
          \/ cache # None /\ x \in Range(cache.files)
          \/ \E r \in Run : x \in Range(run[r].scan) \union Range(run[r].cached)
  BY DEF Records
<1> QED
  BY <1>1, <1>2 DEF Range

LEMMA FreshIsNew ==
    ASSUME TypeOK, NEW stamp \in FreshStamps
    PROVE  /\ stamp \in Stamp
           /\ \A x \in Records : x.stamp # stamp
           /\ \A r \in Run : run[r].before # stamp
<1>1. stamp \in Stamp /\ stamp \notin UsedStamps
  BY DEF FreshStamps
<1>2. \A r \in Run : run[r].before # stamp
  BY <1>1 DEF UsedStamps
<1>3. ASSUME NEW x \in Records PROVE x.stamp # stamp
  <2>1. CASE x \in Range(source)
    BY <1>1, <2>1 DEF UsedStamps, Range
  <2>2. CASE cache # None /\ x \in Range(cache.files)
    BY <1>1, <2>2 DEF UsedStamps, Range
  <2>3. ASSUME NEW r \in Run, x \in Range(run[r].scan) \union Range(run[r].cached)
        PROVE  x.stamp # stamp
    BY <1>1, <2>3 DEF UsedStamps, Range
  <2> QED
    BY <2>1, <2>2, <2>3, RecordsFit
<1> QED
  BY <1>1, <1>2, <1>3

LEMMA StampsStay ==
    ASSUME StampsTell, \A x \in Records' : Known(x)
    PROVE  StampsTell'
<1> SUFFICES ASSUME NEW x \in Records', NEW y \in Records', x.stamp = y.stamp
             PROVE  x.data = y.data
  BY DEF StampsTell
<1>1. PICK a \in Records : a.stamp = x.stamp /\ a.data = x.data
  BY DEF Known
<1>2. PICK b \in Records : b.stamp = y.stamp /\ b.data = y.data
  BY DEF Known
<1> QED
  BY <1>1, <1>2 DEF StampsTell

\* What a path of the source holds.
LEMMA ContentsFit ==
    ASSUME TypeOK, NEW p \in Path
    PROVE  Contents(source, p) \in Data \union {None}
BY RecordsFit DEF Contents, File

\* What the invariant says of a run.
LEMMA RunIs ==
    ASSUME IInv, NEW r \in Run
    PROVE  /\ pc \in [Run -> Phase] /\ run \in [Run -> Locals] /\ run[r] \in Locals
           /\ RunFits(r, pc[r], run[r])
           /\ run[r].base \in On(Entry) /\ run[r].cached \in On(CacheEntry)
           /\ run[r].scan \in On(File) /\ run[r].staged \in On(Data)
           /\ run[r].todo \subseteq Path /\ run[r].generation \in Nat
           /\ OneFileEach(run[r].base)
           /\ \A x \in Range(run[r].scan) \union Range(run[r].cached) : Known(x)
<1>1. run \in [Run -> Locals] /\ run[r] \in Locals /\ pc \in [Run -> Phase]
  BY DEF IInv, TypeOK
<1>2. RunFits(r, pc[r], run[r])
  BY DEF IInv
<1>3. \A x \in Range(run[r].scan) \union Range(run[r].cached) : Known(x)
  BY RecordsFit DEF Known, IInv
<1> QED
  BY <1>1, <1>2, <1>3 DEF Locals, RunFits

\* Only an encryption hashes in steps, stages and commits, and it has the lock.
LEMMA EncrypterIs ==
    ASSUME IInv, NEW r \in Run,
           pc[r] \in Hashing \union Staging \/ (pc[r] # "free" /\ run[r].kind = "encrypt")
    PROVE  /\ r \in Encrypter /\ r \notin Recoverer /\ run[r].kind = "encrypt"
           /\ lock = r /\ lock # None /\ run[r].base = manifest
           /\ ReadsOneFile(pc[r], run[r]) /\ StagesItsPlan(pc[r], run[r])
           /\ ScansWhatWasHeld(pc[r], run[r])
           /\ \A p \in Path : Contents(source, p) \in held[p]
<1>1. RunFits(r, pc[r], run[r]) /\ pc[r] # "free"
  BY RunIs DEF Hashing, Staging
<1>2. r \in Encrypter /\ r \notin Recoverer
  BY <1>1, SourceAssumption DEF RunFits, Run
<1>3. lock = r /\ lock # None
  BY <1>1, <1>2, SourceAssumption DEF RunFits, Run
<1> QED
  BY <1>1, <1>2, <1>3 DEF RunFits, IInv

---------------------------------------------------------------------------------
(* The forms of a step. *)

\* A run goes on, and nothing else changes.
LEMMA RunStep ==
    ASSUME IInv, NEW r \in Run, NEW phase \in Phase, NEW new \in Locals, Step(r, phase, new),
           UNCHANGED <<source, manifest, generation, cache, edits>>,
           \A x \in Range(new.scan) \union Range(new.cached) : Known(x),
           RunFits(r, phase, new),
           phase = "save" /\ new.kind # "restore" =>
               \A p \in DOMAIN new.scan :
                   p \in DOMAIN new.base /\ new.scan[p].data = new.base[p].data
    PROVE  IInv'
<1>1. /\ pc' \in [Run -> Phase] /\ run' \in [Run -> Locals] /\ pc'[r] = phase /\ run'[r] = new
      /\ \A t \in Run : t # r => pc'[t] = pc[t] /\ run'[t] = run[t]
      /\ UNCHANGED <<lock, held, source, manifest>>
  BY RunIs DEF Step
<1>2. TypeOK'
  BY <1>1 DEF TypeOK, IInv
<1>3. StampsTell'
  <2> SUFFICES ASSUME NEW x \in Records' PROVE Known(x)
    BY StampsStay DEF IInv
  <2>1. \/ x \in Range(source)
        \/ cache # None /\ x \in Range(cache.files)
        \/ \E t \in Run : x \in Range(run'[t].scan) \union Range(run'[t].cached)
    BY DEF Records
  <2>2. CASE x \in Range(source) \/ (cache # None /\ x \in Range(cache.files))
    BY <2>2, RecordsFit DEF IInv, Known
  <2>3. ASSUME NEW t \in Run, x \in Range(run'[t].scan) \union Range(run'[t].cached)
        PROVE  Known(x)
    BY <1>1, <2>3, RunIs
  <2> QED
    BY <2>1, <2>2, <2>3
<1>4. IdsAreUnique'
  BY <1>1 DEF IInv, IdsAreUnique, OneFileEach
<1>5. ASSUME NEW t \in Run, NEW a, NEW j, RunFits(t, a, j) PROVE RunFits(t, a, j)'
  BY <1>1, <1>5 DEF RunFits, OneFileEach, ReadsOneFile, StagesItsPlan, ScansWhatWasHeld
<1>6. (\A t \in Run : RunFits(t, pc[t], run[t]))'
  <2> SUFFICES ASSUME NEW t \in Run PROVE RunFits(t, pc[t], run[t])'
    OBVIOUS
  <2>1. PICK a \in Phase : a = pc'[t]
    BY <1>1
  <2>2. PICK j \in Locals : j = run'[t]
    BY <1>1
  <2>3. RunFits(t, a, j)
    BY <1>1, <2>1, <2>2, RunIs
  <2>4. RunFits(t, a, j)'
    BY <1>5, <2>3
  <2> QED
    BY <2>1, <2>2, <2>4
<1>7. CommittedAsScanned'
  BY <1>1 DEF IInv, CommittedAsScanned
<1>8. (lock # None => lock \in Encrypter /\ \A p \in Path : Contents(source, p) \in held[p])'
  BY <1>1 DEF IInv, Contents
<1> QED
  BY <1>2, <1>3, <1>4, <1>6, <1>7, <1>8 DEF IInv

\* A run ends; its cache may be written.
LEMMA EndKeeps ==
    ASSUME IInv, NEW r \in Run, EndRun(r), UNCHANGED <<source, manifest, generation, edits>>,
           cache' \in Caches \union {None},
           cache' # None => \A x \in Range(cache'.files) : Known(x)
    PROVE  IInv'
<1>1. /\ pc' \in [Run -> Phase] /\ run' \in [Run -> Locals]
      /\ pc'[r] = "free" /\ run'[r] = NoRun
      /\ \A t \in Run : t # r => pc'[t] = pc[t] /\ run'[t] = run[t]
  BY RunIs, NoRunFits DEF EndRun, Phase
<1>2. TypeOK'
  <2>1. held' \in [Path -> SUBSET (Data \union {None})] /\ lock' \in Run \union {None}
    BY DEF EndRun, IInv, TypeOK
  <2> QED
    BY <1>1, <2>1 DEF TypeOK, IInv
<1>3. StampsTell'
  <2> SUFFICES ASSUME NEW x \in Records' PROVE Known(x)
    BY StampsStay DEF IInv
  <2>1. \/ x \in Range(source)
        \/ cache' # None /\ x \in Range(cache'.files)
        \/ \E t \in Run : x \in Range(run'[t].scan) \union Range(run'[t].cached)
    BY DEF Records
  <2>2. CASE x \in Range(source)
    BY <2>2, RecordsFit DEF IInv, Known
  <2>3. ASSUME NEW t \in Run, x \in Range(run'[t].scan) \union Range(run'[t].cached)
        PROVE  Known(x)
    BY <1>1, <2>3, RunIs, NoRunFits, NothingIsOn
  <2> QED
    BY <2>1, <2>2, <2>3
<1>4. IdsAreUnique'
  BY DEF IInv, IdsAreUnique, OneFileEach
<1>5. ASSUME NEW t \in Run, t # r, NEW a, NEW j, RunFits(t, a, j) PROVE RunFits(t, a, j)'
  <2>1. lock = t => UNCHANGED <<lock, held>>
    BY <1>5 DEF EndRun
  <2>2. a = "free" \/ t \notin Encrypter \/ lock = t
    BY <1>5 DEF RunFits
  <2> QED
    BY <1>5, <2>1, <2>2
       DEF RunFits, OneFileEach, ReadsOneFile, StagesItsPlan, ScansWhatWasHeld, Hashing, Staging
<1>6. RunFits(r, "free", NoRun)'
  BY NoRunFits
     DEF RunFits, OneFileEach, ReadsOneFile, StagesItsPlan, ScansWhatWasHeld, Hashing, Staging
<1>7. (\A t \in Run : RunFits(t, pc[t], run[t]))'
  <2> SUFFICES ASSUME NEW t \in Run PROVE RunFits(t, pc[t], run[t])'
    OBVIOUS
  <2>1. CASE t = r
    BY <1>1, <1>6, <2>1
  <2>2. CASE t # r
    <3>1. PICK a \in Phase : a = pc'[t] /\ a = pc[t]
      BY <1>1, <2>2
    <3>2. PICK j \in Locals : j = run'[t] /\ j = run[t]
      BY <1>1, <2>2
    <3>3. RunFits(t, a, j)'
      BY <1>5, <2>2, <3>1, <3>2, RunIs
    <3> QED
      BY <3>1, <3>2, <3>3
  <2> QED
    BY <2>1, <2>2
<1>8. CommittedAsScanned'
  BY <1>1 DEF IInv, CommittedAsScanned
<1>9. (lock # None => lock \in Encrypter /\ \A p \in Path : Contents(source, p) \in held[p])'
  <2>1. CASE lock = r
    BY <2>1 DEF EndRun
  <2>2. CASE lock # r
    BY <2>2 DEF EndRun, IInv, Contents
  <2> QED
    BY <2>1, <2>2
<1> QED
  BY <1>2, <1>3, <1>4, <1>7, <1>8, <1>9 DEF IInv

\* The directory changes: what is new there has a new stamp, and nothing is moved to a
\* path that is being hashed.
LEMMA SourceChanges ==
    ASSUME IInv, NEW files \in On(File), ChangeSource(files),
           UNCHANGED <<manifest, generation, cache, lock>>, edits' \in Nat,
           pc' \in [Run -> Phase], run' \in [Run -> Locals],
           \A t \in Run :
              \/ pc'[t] = pc[t] /\ run'[t] = run[t]
              \/ /\ t \in Recoverer /\ pc[t] # "free" /\ pc'[t] \in {"move", "scan"}
                 /\ run'[t].kind = run[t].kind /\ run'[t].base = run[t].base
                 /\ run'[t].scan = run[t].scan /\ run'[t].cached = run[t].cached,
           \A p \in DOMAIN files : files[p] \in Range(source) \/ files[p].stamp \in FreshStamps,
           \A p, q \in DOMAIN files :
              files[p].stamp \in FreshStamps /\ files[p].stamp = files[q].stamp =>
                  files[p].data = files[q].data,
           \A t \in Run : pc[t] \in Hashing /\ run[t].at \in DOMAIN files =>
              \/ files[run[t].at].stamp \in FreshStamps
              \/ run[t].at \in DOMAIN source /\ files[run[t].at] = source[run[t].at]
    PROVE  IInv'
<1>1. source' = files
  BY DEF ChangeSource
<1>2. /\ lock = None => held' = held
      /\ lock # None => \A p \in Path : held'[p] = held[p] \union {Contents(files, p)}
      /\ held' \in [Path -> SUBSET (Data \union {None})]
  <2>1. \A p \in Path : Contents(files, p) \in Data \union {None}
    <3>1. \A p \in DOMAIN files : files[p] \in File
      BY OnFits
    <3>2. \A p \in DOMAIN files : files[p].data \in Data
      BY <3>1 DEF File
    <3> QED
      BY <3>2 DEF Contents
  <2>2. held \in [Path -> SUBSET (Data \union {None})]
    BY DEF IInv, TypeOK
  <2>3. CASE lock = None
    BY <2>2, <2>3 DEF ChangeSource
  <2>4. CASE lock # None
    <3>1. held' = [p \in Path |-> held[p] \union {Contents(files, p)}]
      BY <2>4 DEF ChangeSource
    <3> QED
      BY <2>1, <2>2, <2>4, <3>1
  <2> QED
    BY <2>3, <2>4
<1>3. TypeOK'
  BY <1>1, <1>2 DEF IInv, TypeOK
<1>4. StampsTell'
  <2>1. ASSUME NEW x \in Records'
        PROVE  Known(x) \/ \E p \in DOMAIN files : x = files[p] /\ x.stamp \in FreshStamps
    <3>1. \/ x \in Range(files)
          \/ cache # None /\ x \in Range(cache.files)
          \/ \E t \in Run : x \in Range(run'[t].scan) \union Range(run'[t].cached)
      BY <1>1 DEF Records
    <3>2. CASE x \in Range(files)
      <4>1. PICK p \in DOMAIN files : x = files[p]
        BY <3>2 DEF Range
      <4>2. CASE files[p] \in Range(source)
        BY <4>1, <4>2, RecordsFit DEF IInv, Known
      <4>3. CASE files[p].stamp \in FreshStamps
        BY <4>1, <4>3
      <4> QED
        BY <4>2, <4>3
    <3>3. CASE cache # None /\ x \in Range(cache.files)
      BY <3>3, RecordsFit DEF IInv, Known
    <3>4. ASSUME NEW t \in Run, x \in Range(run'[t].scan) \union Range(run'[t].cached)
          PROVE  Known(x)
      <4>1. x \in Range(run[t].scan) \union Range(run[t].cached)
        BY <3>4
      <4> QED
        BY <4>1, RunIs
    <3> QED
      BY <3>1, <3>2, <3>3, <3>4
  <2>2. \A x : Known(x) => x.stamp \notin FreshStamps
    BY FreshIsNew DEF Known, IInv
  <2> SUFFICES ASSUME NEW x \in Records', NEW y \in Records', x.stamp = y.stamp
               PROVE  x.data = y.data
    BY DEF StampsTell
  <2>3. CASE Known(x) /\ Known(y)
    BY <2>3 DEF Known, IInv, StampsTell
  <2>4. CASE ~ Known(x) \/ ~ Known(y)
    <3>1. ~ Known(x) /\ ~ Known(y)
      BY <2>1, <2>2, <2>4
    <3> QED
      BY <2>1, <3>1
  <2> QED
    BY <2>3, <2>4
<1>5. IdsAreUnique'
  BY DEF IInv, IdsAreUnique, OneFileEach
<1>6. ASSUME NEW t \in Run, pc'[t] = pc[t], run'[t] = run[t], NEW a \in Phase, a = pc[t],
             NEW j \in Locals, j = run[t]
      PROVE  RunFits(t, a, j)'
  <2>1. RunFits(t, a, j)
    BY <1>6, RunIs
  <2>2. t \in Encrypter => ReadsOneFile(a, j)'
    <3> SUFFICES ASSUME t \in Encrypter, a = "check", j.at \in DOMAIN files,
                        files[j.at].stamp = j.before
                 PROVE  files[j.at].data = j.bytes
      BY <1>1, <2>1 DEF ReadsOneFile, RunFits
    <3>1. files[j.at].stamp \notin FreshStamps
      BY <1>6, FreshIsNew DEF IInv
    <3>2. j.at \in DOMAIN source /\ files[j.at] = source[j.at]
      BY <1>6, <3>1 DEF Hashing
    <3> QED
      BY <2>1, <3>2 DEF RunFits, ReadsOneFile
  <2>3. t \in Encrypter => ScansWhatWasHeld(a, j)'
    <3>1. CASE a = "free"
      BY <3>1 DEF ScansWhatWasHeld, Hashing, Staging
    <3>2. CASE t \in Encrypter /\ a # "free"
      <4>1. lock # None
        BY <2>1, <3>2, SourceAssumption DEF RunFits, Run
      <4>2. \A p \in Path : held[p] \subseteq held'[p]
        BY <1>2, <4>1
      <4>3. ScansWhatWasHeld(a, j)
        BY <2>1, <3>2 DEF RunFits
      <4> QED
        BY <4>2, <4>3 DEF ScansWhatWasHeld, Contents
    <3> QED
      BY <3>1, <3>2
  <2>4. t \in Encrypter => StagesItsPlan(a, j)'
    BY <2>1 DEF RunFits, StagesItsPlan
  <2> QED
    BY <2>1, <2>2, <2>3, <2>4 DEF RunFits, OneFileEach
<1>7. (\A t \in Run : RunFits(t, pc[t], run[t]))'
  <2> SUFFICES ASSUME NEW t \in Run PROVE RunFits(t, pc[t], run[t])'
    OBVIOUS
  <2>1. CASE pc'[t] = pc[t] /\ run'[t] = run[t]
    <3>1. PICK a \in Phase : a = pc[t]
      BY RunIs
    <3>2. PICK j \in Locals : j = run[t]
      BY RunIs
    <3>3. RunFits(t, a, j)'
      BY <1>6, <2>1, <3>1, <3>2
    <3> QED
      BY <2>1, <3>1, <3>2, <3>3
  <2>2. CASE /\ t \in Recoverer /\ pc[t] # "free" /\ pc'[t] \in {"move", "scan"}
             /\ run'[t].kind = run[t].kind /\ run'[t].base = run[t].base
    <3>1. RunFits(t, pc[t], run[t]) /\ t \notin Encrypter
      BY <2>2, RunIs, SourceAssumption
    <3> QED
      BY <2>2, <3>1 DEF RunFits, OneFileEach, Hashing, Staging
  <2> QED
    BY <2>1, <2>2
<1>8. CommittedAsScanned'
  BY DEF IInv, CommittedAsScanned
<1>9. (lock # None => lock \in Encrypter /\ \A p \in Path : Contents(source, p) \in held[p])'
  BY <1>1, <1>2 DEF IInv
<1> QED
  BY <1>3, <1>4, <1>5, <1>7, <1>8, <1>9 DEF IInv

---------------------------------------------------------------------------------
(* The person. *)

LEMMA SourceIs ==
    ASSUME IInv
    PROVE  /\ source \in On(File) /\ pc \in [Run -> Phase] /\ run \in [Run -> Locals]
           /\ edits \in Nat /\ edits + 1 \in Nat
           /\ \A p \in DOMAIN source : /\ source[p] \in Range(source) /\ source[p] \in File
                                       /\ source[p].stamp \notin FreshStamps
<1>1. /\ source \in On(File) /\ pc \in [Run -> Phase] /\ run \in [Run -> Locals]
      /\ edits \in Nat /\ TypeOK
  BY DEF IInv, TypeOK
<1>2. \A p \in DOMAIN source : source[p] \in Range(source)
  BY DEF Range
<1>3. \A p \in DOMAIN source : source[p] \in File /\ source[p].stamp \notin FreshStamps
  BY <1>1, RecordsFit, FreshIsNew
<1> QED
  BY <1>1, <1>2, <1>3

LEMMA Writes ==
    ASSUME IInv, NEW p \in Path, WriteFile(p)
    PROVE  IInv'
<1>1. PICK file \in [data : Data, stamp : FreshStamps] : ChangeSource(With(source, p, file))
  BY DEF WriteFile
<1>2. file \in File /\ file.stamp \in FreshStamps
  BY <1>1 DEF File, FreshStamps
<1>3. PICK files : files = With(source, p, file)
  OBVIOUS
<1>4. /\ files \in On(File) /\ DOMAIN files = DOMAIN source \union {p} /\ files[p] = file
      /\ \A q \in DOMAIN source \ {p} : files[q] = source[q]
  <2>1. /\ With(source, p, file) \in On(File)
        /\ DOMAIN With(source, p, file) = DOMAIN source \union {p}
        /\ With(source, p, file)[p] = file
        /\ \A q \in DOMAIN source \ {p} : With(source, p, file)[q] = source[q]
        /\ Range(With(source, p, file)) \subseteq Range(source) \union {file}
    <3>1. source \in On(File) /\ file \in File
      BY <1>2, SourceIs
    <3> QED
      BY <3>1, WithFits
  <2> QED
    BY <1>3, <2>1
<1>5. \A q \in DOMAIN files : q # p => q \in DOMAIN source /\ files[q] = source[q]
  BY <1>4
<1>6. /\ \A q \in DOMAIN files : files[q] \in Range(source) \/ files[q].stamp \in FreshStamps
      /\ \A q \in DOMAIN files : files[q].stamp \in FreshStamps => q = p
  BY <1>2, <1>4, <1>5, SourceIs
<1>7. \A t \in Run : pc[t] \in Hashing /\ run[t].at \in DOMAIN files =>
              \/ files[run[t].at].stamp \in FreshStamps
              \/ run[t].at \in DOMAIN source /\ files[run[t].at] = source[run[t].at]
  BY <1>2, <1>4, <1>5
<1>8. /\ UNCHANGED <<manifest, generation, cache, lock, pc, run>> /\ edits' \in Nat
  BY SourceIs DEF WriteFile, Edited
<1> QED
  BY <1>1, <1>3, <1>4, <1>6, <1>7, <1>8, SourceIs, SourceChanges

LEMMA Deletes ==
    ASSUME IInv, NEW p \in Path, DeleteFile(p)
    PROVE  IInv'
<1>1. PICK files : files = Without(source, p)
  OBVIOUS
<1>2. /\ files \in On(File) /\ DOMAIN files = DOMAIN source \ {p}
      /\ \A q \in DOMAIN source \ {p} : files[q] = source[q]
  <2>1. /\ Without(source, p) \in On(File) /\ DOMAIN Without(source, p) = DOMAIN source \ {p}
        /\ \A q \in DOMAIN source \ {p} : Without(source, p)[q] = source[q]
    <3>1. source \in On(File)
      BY SourceIs
    <3> QED
      BY <3>1, WithoutFits
  <2> QED
    BY <1>1, <2>1
<1>3. \A q \in DOMAIN files : q \in DOMAIN source /\ files[q] = source[q]
  BY <1>2
<1>4. \A q \in DOMAIN files : files[q] \in Range(source) /\ files[q].stamp \notin FreshStamps
  BY <1>3, SourceIs
<1>5. /\ UNCHANGED <<manifest, generation, cache, lock, pc, run>> /\ edits' \in Nat
      /\ ChangeSource(files)
  BY <1>1, SourceIs DEF DeleteFile, Edited
<1> QED
  BY <1>2, <1>3, <1>4, <1>5, SourceIs, SourceChanges

LEMMA Moves ==
    ASSUME IInv, NEW p \in Path, NEW q \in Path, MoveFile(p, q)
    PROVE  IInv'
<1>1. PICK rest : rest = Without(source, p)
  OBVIOUS
<1>2. /\ rest \in On(File) /\ DOMAIN rest = DOMAIN source \ {p}
      /\ \A x \in DOMAIN source \ {p} : rest[x] = source[x]
  <2>1. /\ Without(source, p) \in On(File) /\ DOMAIN Without(source, p) = DOMAIN source \ {p}
        /\ \A x \in DOMAIN source \ {p} : Without(source, p)[x] = source[x]
    <3>1. source \in On(File)
      BY SourceIs
    <3> QED
      BY <3>1, WithoutFits
  <2> QED
    BY <1>1, <2>1
<1>3. p \in DOMAIN source /\ source[p] \in File
  BY SourceIs DEF MoveFile
<1>4. PICK files : files = With(rest, q, source[p])
  OBVIOUS
<1>5. /\ files \in On(File) /\ DOMAIN files = DOMAIN rest \union {q} /\ files[q] = source[p]
      /\ \A x \in DOMAIN rest \ {q} : files[x] = rest[x]
  <2>1. /\ With(rest, q, source[p]) \in On(File)
        /\ DOMAIN With(rest, q, source[p]) = DOMAIN rest \union {q}
        /\ With(rest, q, source[p])[q] = source[p]
        /\ \A x \in DOMAIN rest \ {q} : With(rest, q, source[p])[x] = rest[x]
        /\ Range(With(rest, q, source[p])) \subseteq Range(rest) \union {source[p]}
    BY <1>2, <1>3, WithFits
  <2> QED
    BY <1>4, <2>1
<1>6. \A x \in DOMAIN files : x # q => x \in DOMAIN source /\ files[x] = source[x]
  BY <1>2, <1>5
<1>7. \A x \in DOMAIN files : files[x] \in Range(source) /\ files[x].stamp \notin FreshStamps
  BY <1>3, <1>5, <1>6, SourceIs
<1>8. \A t \in Run : pc[t] \in Hashing => run[t].at # q
  BY DEF MoveFile, Hashing
<1>9. /\ UNCHANGED <<manifest, generation, cache, lock, pc, run>> /\ edits' \in Nat
      /\ ChangeSource(files)
  BY <1>1, <1>4, SourceIs DEF MoveFile, Edited
<1> QED
  BY <1>5, <1>6, <1>7, <1>8, <1>9, SourceIs, SourceChanges

---------------------------------------------------------------------------------
(* A recovery. *)

LEMMA Wipes ==
    ASSUME IInv, NEW r \in Run, WipeSource(r)
    PROVE  IInv'
<1>1. Nothing \in On(File) /\ DOMAIN Nothing = {}
  BY NothingIsOn
<1>2. RunFits(r, "wipe", run[r]) /\ r \in Recoverer
  BY RunIs DEF WipeSource, RunFits, Run
<1>3. /\ pc' \in [Run -> Phase] /\ run' = run /\ edits' \in Nat
      /\ UNCHANGED <<manifest, generation, cache, lock>> /\ ChangeSource(Nothing)
      /\ pc[r] = "wipe" /\ pc'[r] = "move" /\ \A t \in Run : t # r => pc'[t] = pc[t]
  BY SourceIs DEF WipeSource, Phase
<1> QED
  BY <1>1, <1>2, <1>3, SourceIs, SourceChanges

\* The files of one restore that have the same contents have the same new stamp.
LEMMA MovesIn ==
    ASSUME IInv, NEW r \in Run, MoveInRestored(r)
    PROVE  IInv'
<1>1. PICK base : base = run[r].base
  OBVIOUS
<1>2. PICK stamps \in Injection({base[p].data : p \in DOMAIN base}, FreshStamps) :
          ChangeSource([p \in DOMAIN base |->
              [data |-> base[p].data, stamp |-> stamps[base[p].data]]])
  BY <1>1 DEF MoveInRestored
<1>3. PICK files : files = [p \in DOMAIN base |->
              [data |-> base[p].data, stamp |-> stamps[base[p].data]]]
  OBVIOUS
<1>4. /\ DOMAIN base \in SUBSET Path /\ \A p \in DOMAIN base : base[p] \in Entry
  <2>1. base \in On(Entry)
    BY <1>1, RunIs
  <2> QED
    BY <2>1, OnFits
<1>5. \A p \in DOMAIN base : stamps[base[p].data] \in FreshStamps
  BY <1>2 DEF Injection
<1>6. /\ DOMAIN files = DOMAIN base
      /\ \A p \in DOMAIN base : /\ files[p].data = base[p].data
                                /\ files[p].stamp = stamps[base[p].data]
                                /\ files[p] \in File
  BY <1>3, <1>4, <1>5 DEF Entry, File, FreshStamps
<1>7. files \in On(File)
  <2>1. files \in [DOMAIN base -> File]
    BY <1>3, <1>6
  <2> QED
    BY <1>4, <2>1, FitsOn
<1>8. \A p, q \in DOMAIN files : files[p].stamp = files[q].stamp => files[p].data = files[q].data
  BY <1>2, <1>6 DEF Injection, IsInjective
<1>9. \A p \in DOMAIN files : files[p].stamp \in FreshStamps
  BY <1>5, <1>6
<1>10. RunFits(r, "move", run[r]) /\ r \in Recoverer
  BY RunIs DEF MoveInRestored, RunFits, Run
<1>11. /\ pc' = [pc EXCEPT ![r] = "scan"] /\ run' = [run EXCEPT ![r].todo = Path]
       /\ UNCHANGED <<manifest, generation, cache, lock, edits>> /\ pc[r] = "move"
       /\ ChangeSource(files)
  BY <1>2, <1>3 DEF MoveInRestored
<1>12. PICK j \in Locals : j = [run[r] EXCEPT !.todo = Path]
  BY RunIs DEF Locals
<1>13. run' = [run EXCEPT ![r] = j]
  BY <1>11, <1>12
<1>14. /\ j.kind = run[r].kind /\ j.base = run[r].base /\ j.scan = run[r].scan
       /\ j.cached = run[r].cached
  BY <1>12, RunIs DEF Locals
<1>15. /\ pc' \in [Run -> Phase] /\ run' \in [Run -> Locals] /\ edits' \in Nat
       /\ pc'[r] = "scan" /\ run'[r] = j
       /\ \A t \in Run : t # r => pc'[t] = pc[t] /\ run'[t] = run[t]
  BY <1>11, <1>13, SourceIs DEF Phase
<1>16. \A t \in Run :
              \/ pc'[t] = pc[t] /\ run'[t] = run[t]
              \/ /\ t \in Recoverer /\ pc[t] # "free" /\ pc'[t] \in {"move", "scan"}
                 /\ run'[t].kind = run[t].kind /\ run'[t].base = run[t].base
                 /\ run'[t].scan = run[t].scan /\ run'[t].cached = run[t].cached
  BY <1>10, <1>11, <1>14, <1>15
<1> QED
  BY <1>7, <1>8, <1>9, <1>11, <1>15, <1>16, SourceChanges

LEMMA AdoptStarts ==
    ASSUME IInv, NEW r \in Recoverer, StartAdopt(r)
    PROVE  IInv'
<1>1. r \in Run /\ r \notin Encrypter
  BY SourceAssumption DEF Run
<1>2. manifest \in On(Entry) /\ generation \in Nat /\ OneFileEach(manifest)
  BY DEF IInv, TypeOK, IdsAreUnique
<1>3. PICK j \in Locals : j = [NoRun EXCEPT !.kind = "adopt", !.base = manifest,
                                            !.generation = generation, !.todo = Path]
  BY <1>2, NoRunFits DEF Locals
<1>4. /\ j.kind = "adopt" /\ j.base = manifest /\ j.scan = Nothing /\ j.cached = Nothing
  BY <1>3, NoRunFits DEF Locals
<1>5. RunFits(r, "scan", j)
  BY <1>1, <1>2, <1>4 DEF RunFits, Hashing, Staging
<1>6. \A x \in Range(j.scan) \union Range(j.cached) : Known(x)
  BY <1>4, NothingIsOn
<1>7. Step(r, "scan", j) /\ UNCHANGED <<source, manifest, generation, cache, edits>>
  BY <1>3 DEF StartAdopt
<1> QED
  BY <1>1, <1>5, <1>6, <1>7, RunStep DEF Phase

LEMMA RestoreStarts ==
    ASSUME IInv, NEW r \in Recoverer, StartRestore(r)
    PROVE  IInv'
<1>1. r \in Run /\ r \notin Encrypter
  BY SourceAssumption DEF Run
<1>2. manifest \in On(Entry) /\ generation \in Nat /\ OneFileEach(manifest)
  BY DEF IInv, TypeOK, IdsAreUnique
<1>3. PICK j \in Locals : j = [NoRun EXCEPT !.kind = "restore", !.base = manifest,
                                            !.generation = generation]
  BY <1>2, NoRunFits DEF Locals
<1>4. /\ j.kind = "restore" /\ j.base = manifest /\ j.scan = Nothing /\ j.cached = Nothing
  BY <1>3, NoRunFits DEF Locals
<1>5. RunFits(r, "wipe", j)
  BY <1>1, <1>2, <1>4 DEF RunFits, Hashing, Staging
<1>6. \A x \in Range(j.scan) \union Range(j.cached) : Known(x)
  BY <1>4, NothingIsOn
<1>7. Step(r, "wipe", j) /\ UNCHANGED <<source, manifest, generation, cache, edits>>
  BY <1>3 DEF StartRestore
<1> QED
  BY <1>1, <1>5, <1>6, <1>7, RunStep DEF Phase

\* A file is scanned with its contents and its stamp: hashed by a recovery or by an
\* encryption, or found in the cache.
LEMMA Scans ==
    ASSUME IInv, NEW r \in Run, pc[r] \in {"scan", "check"}, NEW p \in DOMAIN source,
           NEW file \in File, file.stamp = source[p].stamp, file.data = source[p].data,
           NEW j \in Locals, j.kind = run[r].kind, j.base = run[r].base,
           j.cached = run[r].cached, j.staged = run[r].staged,
           j.scan = With(run[r].scan, p, file), j.todo = run[r].todo \ {p},
           Step(r, "scan", j), UNCHANGED <<source, manifest, generation, cache, edits>>
    PROVE  IInv'
<1>1. /\ run[r] \in Locals /\ run[r].scan \in On(File)
      /\ RunFits(r, pc[r], run[r])
      /\ \A x \in Range(run[r].scan) \union Range(run[r].cached) : Known(x)
  BY RunIs
<1>2. PICK scan : scan = With(run[r].scan, p, file)
  OBVIOUS
<1>3. p \in Path
  BY SourceIs, OnFits
<1>4. /\ scan \in On(File) /\ DOMAIN scan = DOMAIN run[r].scan \union {p} /\ scan[p] = file
      /\ \A q \in DOMAIN run[r].scan \ {p} : scan[q] = run[r].scan[q]
      /\ Range(scan) \subseteq Range(run[r].scan) \union {file}
  <2>1. PICK old \in On(File) : old = run[r].scan
    BY <1>1
  <2>2. /\ With(old, p, file) \in On(File)
        /\ DOMAIN With(old, p, file) = DOMAIN old \union {p}
        /\ With(old, p, file)[p] = file
        /\ \A q \in DOMAIN old \ {p} : With(old, p, file)[q] = old[q]
        /\ Range(With(old, p, file)) \subseteq Range(old) \union {file}
    BY <1>3, WithFits
  <2> QED
    BY <1>2, <2>1, <2>2
<1>5. Known(file)
  BY RecordsFit DEF Known, IInv
<1>6. \A x \in Range(j.scan) \union Range(j.cached) : Known(x)
  BY <1>1, <1>2, <1>4, <1>5
<1>7. r \in Encrypter => ScansWhatWasHeld("scan", j)
  <2> SUFFICES ASSUME r \in Encrypter PROVE ScansWhatWasHeld("scan", j)
    OBVIOUS
  <2>1. /\ DOMAIN run[r].scan \cap run[r].todo = {}
        /\ \A q \in Path \ run[r].todo : Contents(run[r].scan, q) \in held[q]
    BY <1>1 DEF RunFits, ScansWhatWasHeld, Hashing, Staging
  <2>2. Contents(source, p) \in held[p]
    BY <1>1, <1>3, EncrypterIs DEF RunFits
  <2>3. Contents(scan, p) \in held[p]
    BY <1>4, <2>2 DEF Contents
  <2>4. \A q \in Path \ (run[r].todo \ {p}) : Contents(scan, q) \in held[q]
    BY <1>4, <2>1, <2>3 DEF Contents
  <2>5. DOMAIN scan \cap (run[r].todo \ {p}) = {}
    BY <1>4, <2>1
  <2> QED
    BY <1>2, <2>4, <2>5 DEF ScansWhatWasHeld, Hashing, Staging
<1>8. RunFits(r, "scan", j)
  BY <1>1, <1>7
     DEF RunFits, OneFileEach, ReadsOneFile, StagesItsPlan, Hashing, Staging
<1> QED
  BY <1>6, <1>8, RunStep DEF Phase

LEMMA Skips ==
    ASSUME IInv, NEW r \in Run, NEW p \in Path, SkipMissing(r, p)
    PROVE  IInv'
<1>1. /\ run[r] \in Locals /\ RunFits(r, "scan", run[r]) /\ pc[r] = "scan"
      /\ \A x \in Range(run[r].scan) \union Range(run[r].cached) : Known(x)
  BY RunIs DEF SkipMissing
<1>2. PICK j \in Locals : j = [run[r] EXCEPT !.todo = @ \ {p}]
  BY <1>1 DEF Locals
<1>3. /\ j.kind = run[r].kind /\ j.base = run[r].base /\ j.scan = run[r].scan
      /\ j.cached = run[r].cached /\ j.staged = run[r].staged /\ j.todo = run[r].todo \ {p}
  BY <1>1, <1>2 DEF Locals
<1>4. r \in Encrypter => ScansWhatWasHeld("scan", j)
  <2> SUFFICES ASSUME r \in Encrypter PROVE ScansWhatWasHeld("scan", j)
    OBVIOUS
  <2>1. /\ DOMAIN run[r].scan \cap run[r].todo = {}
        /\ \A q \in Path \ run[r].todo : Contents(run[r].scan, q) \in held[q]
    BY <1>1 DEF RunFits, ScansWhatWasHeld, Hashing, Staging
  <2>2. Contents(source, p) \in held[p] /\ Contents(source, p) = None
    <3>1. Contents(source, p) \in held[p]
      BY <1>1, EncrypterIs DEF RunFits
    <3> QED
      BY <3>1 DEF SkipMissing, Contents
  <2>3. p \in run[r].todo
    BY DEF SkipMissing
  <2>4. Contents(run[r].scan, p) = None
    BY <2>1, <2>3 DEF Contents
  <2> QED
    BY <1>3, <2>1, <2>2, <2>4 DEF ScansWhatWasHeld, Hashing, Staging
<1>5. RunFits(r, "scan", j)
  BY <1>1, <1>3, <1>4
     DEF RunFits, OneFileEach, ReadsOneFile, StagesItsPlan, Hashing, Staging
<1>6. Step(r, "scan", j) /\ UNCHANGED <<source, manifest, generation, cache, edits>>
  BY <1>2 DEF SkipMissing
<1> QED
  BY <1>1, <1>3, <1>5, <1>6, RunStep DEF Phase

LEMMA Hashes ==
    ASSUME IInv, NEW r \in Run, NEW p \in Path, HashFile(r, p)
    PROVE  IInv'
<1>1. source[p] \in File /\ run[r] \in Locals /\ run[r].scan \in On(File)
  BY SourceIs, RunIs DEF HashFile
<1>2. With(run[r].scan, p, source[p]) \in On(File)
  <2>1. PICK file \in File : file = source[p]
    BY <1>1
  <2> QED
    BY <1>1, <2>1, WithFits
<1>3. PICK j \in Locals :
         j = [run[r] EXCEPT !.todo = @ \ {p}, !.scan = With(@, p, source[p])]
  BY <1>1, <1>2 DEF Locals
<1>4. /\ j.kind = run[r].kind /\ j.base = run[r].base
      /\ j.cached = run[r].cached /\ j.staged = run[r].staged
      /\ j.scan = With(run[r].scan, p, source[p]) /\ j.todo = run[r].todo \ {p}
  BY <1>1, <1>3 DEF Locals
<1>5. Step(r, "scan", j)
  BY <1>3 DEF HashFile
<1> QED
  BY <1>1, <1>4, <1>5, Scans DEF HashFile

---------------------------------------------------------------------------------
(* An encryption. *)

LEMMA Ends ==
    ASSUME IInv, NEW r \in Run, EndRun(r),
           UNCHANGED <<source, manifest, generation, cache, edits>>
    PROVE  IInv'
<1>1. cache' \in Caches \union {None}
  BY DEF IInv, TypeOK
<1>2. cache' # None => \A x \in Range(cache'.files) : Known(x)
  BY RecordsFit DEF IInv, Known
<1> QED
  BY <1>1, <1>2, EndKeeps

LEMMA EncryptStarts ==
    ASSUME IInv, NEW r \in Encrypter, StartEncrypt(r)
    PROVE  IInv'
<1>1. r \in Run /\ r \notin Recoverer /\ lock = None
  BY SourceAssumption DEF Run, StartEncrypt
<1>2. manifest \in On(Entry) /\ generation \in Nat /\ OneFileEach(manifest) /\ TypeOK
  BY DEF IInv, TypeOK, IdsAreUnique
<1>3. PICK full \in BOOLEAN :
          run' = [run EXCEPT ![r] = [NoRun EXCEPT
                    !.base = manifest, !.generation = generation,
                    !.cached = IF ~full /\ CacheFits THEN cache.files ELSE Nothing,
                    !.todo = Path]]
  BY DEF StartEncrypt
<1>4. PICK cached : cached = IF ~full /\ CacheFits THEN cache.files ELSE Nothing
  OBVIOUS
<1>5. cached \in On(CacheEntry) /\ \A x \in Range(cached) : Known(x)
  <2>1. CASE cached = Nothing
    BY <2>1, NothingIsOn
  <2>2. CASE cache # None /\ cached = cache.files
    <3>1. cache.files \in On(CacheEntry)
      BY <1>2, <2>2 DEF TypeOK, Caches
    <3>2. \A x \in Range(cache.files) : Known(x)
      BY <1>2, <2>2, RecordsFit DEF Known
    <3> QED
      BY <2>2, <3>1, <3>2
  <2> QED
    BY <1>4, <2>1, <2>2 DEF CacheFits
<1>6. PICK j \in Locals : j = [NoRun EXCEPT !.base = manifest, !.generation = generation,
                                            !.cached = cached, !.todo = Path]
  BY <1>2, <1>5, NoRunFits DEF Locals
<1>7. /\ j.kind = "encrypt" /\ j.base = manifest /\ j.scan = Nothing /\ j.cached = cached
      /\ j.staged = Nothing /\ j.todo = Path
  BY <1>6, NoRunFits DEF Locals
<1>8. run' = [run EXCEPT ![r] = j]
  BY <1>3, <1>4, <1>6
<1>9. /\ pc' \in [Run -> Phase] /\ run' \in [Run -> Locals] /\ pc'[r] = "scan" /\ run'[r] = j
      /\ \A t \in Run : t # r => pc'[t] = pc[t] /\ run'[t] = run[t]
      /\ lock' = r /\ held' = [p \in Path |-> {Contents(source, p)}]
      /\ UNCHANGED <<source, manifest, generation, cache, edits>>
  BY <1>1, <1>8, SourceIs DEF StartEncrypt, Phase
<1>10. held' \in [Path -> SUBSET (Data \union {None})]
  BY <1>2, <1>9, ContentsFit
<1>11. TypeOK'
  BY <1>1, <1>2, <1>9, <1>10 DEF TypeOK
<1>12. StampsTell'
  <2> SUFFICES ASSUME NEW x \in Records' PROVE Known(x)
    BY StampsStay DEF IInv
  <2>1. \/ x \in Range(source)
        \/ cache # None /\ x \in Range(cache.files)
        \/ \E t \in Run : x \in Range(run'[t].scan) \union Range(run'[t].cached)
    BY <1>9 DEF Records
  <2>2. CASE x \in Range(source) \/ (cache # None /\ x \in Range(cache.files))
    BY <1>2, <2>2, RecordsFit DEF Known
  <2>3. ASSUME NEW t \in Run, x \in Range(run'[t].scan) \union Range(run'[t].cached)
        PROVE  Known(x)
    BY <1>5, <1>7, <1>9, <2>3, RunIs, NothingIsOn
  <2> QED
    BY <2>1, <2>2, <2>3
<1>13. ASSUME NEW t \in Run, t # r, NEW a, NEW i, a = pc[t], i = run[t]
       PROVE  RunFits(t, a, i)'
  <2>1. RunFits(t, a, i)
    BY <1>13, RunIs
  <2>2. t \in Encrypter => a = "free"
    BY <1>1, <2>1, SourceAssumption DEF RunFits, Run
  <2> QED
    BY <2>1, <2>2
       DEF RunFits, OneFileEach, ReadsOneFile, StagesItsPlan, ScansWhatWasHeld, Hashing, Staging
<1>14. RunFits(r, "scan", j)'
  BY <1>1, <1>2, <1>7, <1>9, NothingIsOn
     DEF RunFits, OneFileEach, ReadsOneFile, StagesItsPlan, ScansWhatWasHeld, Hashing, Staging
<1>15. (\A t \in Run : RunFits(t, pc[t], run[t]))'
  <2> SUFFICES ASSUME NEW t \in Run PROVE RunFits(t, pc[t], run[t])'
    OBVIOUS
  <2>1. CASE t = r
    BY <1>9, <1>14, <2>1
  <2>2. CASE t # r
    <3>1. PICK a \in Phase : a = pc[t] /\ a = pc'[t]
      BY <1>9, <2>2, SourceIs
    <3>2. PICK i \in Locals : i = run[t] /\ i = run'[t]
      BY <1>9, <2>2, SourceIs
    <3>3. RunFits(t, a, i)'
      BY <1>13, <2>2, <3>1, <3>2
    <3> QED
      BY <3>1, <3>2, <3>3
  <2> QED
    BY <2>1, <2>2
<1>16. IdsAreUnique' /\ CommittedAsScanned'
  BY <1>9 DEF IInv, IdsAreUnique, OneFileEach, CommittedAsScanned
<1>17. (lock # None => lock \in Encrypter /\ \A p \in Path : Contents(source, p) \in held[p])'
  BY <1>9 DEF Contents
<1> QED
  BY <1>11, <1>12, <1>15, <1>16, <1>17 DEF IInv

LEMMA Stats ==
    ASSUME IInv, NEW r \in Run, NEW p \in Path, StatFile(r, p)
    PROVE  IInv'
<1>1. /\ run[r] \in Locals /\ run[r].scan \in On(File) /\ run[r].cached \in On(CacheEntry)
      /\ RunFits(r, "scan", run[r]) /\ pc[r] = "scan" /\ p \in DOMAIN source
      /\ \A x \in Range(run[r].scan) \union Range(run[r].cached) : Known(x)
  BY RunIs DEF StatFile
<1>2. source[p] \in File /\ r \in Encrypter /\ r \notin Recoverer
  BY <1>1, SourceIs, EncrypterIs DEF StatFile
<1>3. UNCHANGED <<source, manifest, generation, cache, edits>>
  BY DEF StatFile
<1>4. CASE p \in DOMAIN run[r].cached /\ run[r].cached[p].stamp = source[p].stamp
  <2>1. PICK file : file = [data |-> run[r].cached[p].data, stamp |-> source[p].stamp]
    OBVIOUS
  <2>2. run[r].cached[p] \in CacheEntry
    BY <1>1, <1>4, OnFits
  <2>3. file \in File /\ file.stamp = source[p].stamp /\ file.data = run[r].cached[p].data
    BY <1>2, <2>1, <2>2 DEF File, CacheEntry
  <2>4. file.data = source[p].data
    <3>1. run[r].cached[p] \in Records /\ source[p] \in Records
      BY <1>1, <1>4, RecordsFit DEF IInv
    <3> QED
      BY <1>4, <2>3, <3>1 DEF IInv, StampsTell
  <2>5. With(run[r].scan, p, file) \in On(File)
    BY <1>1, <2>3, WithFits
  <2>6. PICK j \in Locals : j = [run[r] EXCEPT !.todo = @ \ {p}, !.scan = With(@, p, file)]
    BY <1>1, <2>5 DEF Locals
  <2>7. /\ j.kind = run[r].kind /\ j.base = run[r].base
        /\ j.cached = run[r].cached /\ j.staged = run[r].staged
        /\ j.scan = With(run[r].scan, p, file) /\ j.todo = run[r].todo \ {p}
    BY <1>1, <2>6 DEF Locals
  <2>8. Step(r, "scan", j)
    BY <1>4, <2>1, <2>6 DEF StatFile
  <2> QED
    BY <1>1, <1>3, <2>3, <2>4, <2>7, <2>8, Scans
<1>5. CASE ~ (p \in DOMAIN run[r].cached /\ run[r].cached[p].stamp = source[p].stamp)
  <2>1. PICK j \in Locals : j = [run[r] EXCEPT !.at = p, !.before = source[p].stamp]
    BY <1>1, <1>2 DEF Locals, File
  <2>2. /\ j.kind = run[r].kind /\ j.base = run[r].base /\ j.scan = run[r].scan
        /\ j.cached = run[r].cached /\ j.staged = run[r].staged /\ j.todo = run[r].todo
    BY <1>1, <2>1 DEF Locals
  <2>3. RunFits(r, "read", j)
    BY <1>1, <1>2, <2>2
       DEF RunFits, OneFileEach, ReadsOneFile, StagesItsPlan, ScansWhatWasHeld, Hashing, Staging
  <2>4. Step(r, "read", j)
    BY <1>5, <2>1 DEF StatFile
  <2> QED
    BY <1>1, <1>3, <2>2, <2>3, <2>4, RunStep DEF Phase
<1> QED
  BY <1>4, <1>5

\* A file is read in two places.
LEMMA ReadsInPlaces ==
    ASSUME NEW r \in Run, ReadFile(r)
    PROVE  \E phase, next \in Phase :
              /\ pc[r] = phase /\ Step(r, next, [run[r] EXCEPT !.bytes = source[run[r].at].data])
              /\ \/ phase = "read" /\ next = "check"
                 \/ phase = "stage read" /\ next = "stage check"
<1>1. PICK step \in {<<"read", "check">>, <<"stage read", "stage check">>} :
          /\ pc[r] = step[1]
          /\ Step(r, step[2], [run[r] EXCEPT !.bytes = source[run[r].at].data])
  BY DEF ReadFile
<1>2. \/ step[1] = "read" /\ step[2] = "check"
      \/ step[1] = "stage read" /\ step[2] = "stage check"
  <2>1. CASE step = <<"read", "check">>
    BY <2>1
  <2>2. CASE step = <<"stage read", "stage check">>
    BY <2>2
  <2> QED
    BY <2>1, <2>2
<1>3. step[1] \in Phase /\ step[2] \in Phase
  BY <1>2 DEF Phase
<1> QED
  BY <1>1, <1>2, <1>3

LEMMA Reads ==
    ASSUME IInv, NEW r \in Run, ReadFile(r)
    PROVE  IInv'
<1>1. PICK phase, next \in Phase :
          /\ pc[r] = phase /\ Step(r, next, [run[r] EXCEPT !.bytes = source[run[r].at].data])
          /\ \/ phase = "read" /\ next = "check"
             \/ phase = "stage read" /\ next = "stage check"
  BY ReadsInPlaces
<1>2. \/ phase = "read" /\ next = "check"
      \/ phase = "stage read" /\ next = "stage check"
  BY <1>1
<1>3. /\ run[r] \in Locals /\ RunFits(r, phase, run[r])
      /\ \A x \in Range(run[r].scan) \union Range(run[r].cached) : Known(x)
  BY <1>1, RunIs
<1>4. r \in Encrypter /\ r \notin Recoverer
  BY <1>1, <1>2, EncrypterIs DEF Hashing, Staging
<1>5. run[r].at \in DOMAIN source /\ source[run[r].at].data \in Data
  <2>1. run[r].at \in DOMAIN source
    BY DEF ReadFile
  <2> QED
    BY <2>1, SourceIs DEF File
<1>6. PICK j \in Locals : j = [run[r] EXCEPT !.bytes = source[run[r].at].data]
  BY <1>3, <1>5 DEF Locals
<1>7. /\ j.kind = run[r].kind /\ j.base = run[r].base /\ j.scan = run[r].scan
      /\ j.cached = run[r].cached /\ j.staged = run[r].staged /\ j.todo = run[r].todo
      /\ j.at = run[r].at /\ j.bytes = source[run[r].at].data
  BY <1>3, <1>6 DEF Locals
<1>8. ReadsOneFile(next, j)
  BY <1>2, <1>5, <1>7 DEF ReadsOneFile
<1>9. StagesItsPlan(next, j)
  BY <1>2, <1>3, <1>4, <1>7 DEF RunFits, StagesItsPlan, Hashing, Staging
<1>10. ScansWhatWasHeld(next, j)
  <2>1. ScansWhatWasHeld(phase, run[r])
    BY <1>3, <1>4 DEF RunFits
  <2> QED
    BY <1>2, <1>7, <2>1 DEF ScansWhatWasHeld, Hashing, Staging
<1>11. RunFits(r, next, j)
  BY <1>2, <1>3, <1>4, <1>7, <1>8, <1>9, <1>10 DEF RunFits, OneFileEach
<1>12. Step(r, next, j) /\ UNCHANGED <<source, manifest, generation, cache, edits>>
  BY <1>1, <1>6 DEF ReadFile
<1> QED
  BY <1>1, <1>2, <1>3, <1>7, <1>11, <1>12, RunStep

\* The second look finds the stamp that was seen first: what was read is the file.
LEMMA ChecksHash ==
    ASSUME IInv, NEW r \in Run, CheckHashed(r)
    PROVE  IInv'
<1>1. /\ run[r] \in Locals /\ run[r].scan \in On(File) /\ pc[r] = "check"
      /\ RunFits(r, "check", run[r])
  BY RunIs DEF CheckHashed
<1>2. r \in Encrypter /\ ReadsOneFile("check", run[r])
  BY <1>1, EncrypterIs DEF Hashing
<1>3. UNCHANGED <<source, manifest, generation, cache, edits>>
  BY DEF CheckHashed
<1>4. CASE run[r].at \in DOMAIN source /\ source[run[r].at].stamp = run[r].before
  <2>1. PICK p \in DOMAIN source : p = run[r].at
    BY <1>4
  <2>2. PICK file : file = [data |-> run[r].bytes, stamp |-> run[r].before]
    OBVIOUS
  <2>3. run[r].bytes \in Data /\ source[p].data = run[r].bytes /\ source[p] \in File
    BY <1>2, <1>4, <2>1, SourceIs DEF ReadsOneFile
  <2>4. file \in File /\ file.stamp = source[p].stamp /\ file.data = source[p].data
    BY <1>4, <2>1, <2>2, <2>3 DEF File
  <2>5. With(run[r].scan, p, file) \in On(File)
    <3>1. p \in Path
      BY SourceIs, OnFits
    <3> QED
      BY <1>1, <2>4, <3>1, WithFits
  <2>6. PICK j \in Locals :
           j = [run[r] EXCEPT !.todo = @ \ {p}, !.scan = With(@, p, file),
                              !.at = None, !.before = None, !.bytes = None]
    BY <1>1, <2>5 DEF Locals
  <2>7. /\ j.kind = run[r].kind /\ j.base = run[r].base
        /\ j.cached = run[r].cached /\ j.staged = run[r].staged
        /\ j.scan = With(run[r].scan, p, file) /\ j.todo = run[r].todo \ {p}
    BY <1>1, <2>6 DEF Locals
  <2>8. Step(r, "scan", j)
    BY <1>4, <2>1, <2>2, <2>6 DEF CheckHashed
  <2> QED
    BY <1>1, <1>3, <2>4, <2>7, <2>8, Scans
<1>5. CASE ~ (run[r].at \in DOMAIN source /\ source[run[r].at].stamp = run[r].before)
  BY <1>3, <1>5, Ends DEF CheckHashed
<1> QED
  BY <1>4, <1>5

LEMMA ScanEnds ==
    ASSUME IInv, NEW r \in Run, Scanned(r)
    PROVE  IInv'
<1>1. /\ run[r] \in Locals /\ run[r].scan \in On(File) /\ pc[r] = "scan" /\ run[r].todo = {}
      /\ RunFits(r, "scan", run[r])
      /\ \A x \in Range(run[r].scan) \union Range(run[r].cached) : Known(x)
  BY RunIs DEF Scanned
<1>2. UNCHANGED <<source, manifest, generation, cache, edits>>
  BY DEF Scanned
<1>3. CASE run[r].kind = "encrypt"
  <2>1. r \in Encrypter /\ r \notin Recoverer
    BY <1>1, <1>3, EncrypterIs
  <2>2. PICK keep \in BOOLEAN :
          IF Unchanged(run[r].scan, run[r].base, keep)
            THEN Step(r, "save", [run[r] EXCEPT !.keep = keep])
            ELSE Step(r, "stage", [run[r] EXCEPT !.keep = keep,
                                        !.todo = Encrypted(run[r].scan, run[r].base)])
    BY <1>3 DEF Scanned
  <2>3. CASE Unchanged(run[r].scan, run[r].base, keep)
    <3>1. PICK j \in Locals : j = [run[r] EXCEPT !.keep = keep]
      BY <1>1 DEF Locals
    <3>2. /\ j.kind = run[r].kind /\ j.base = run[r].base /\ j.scan = run[r].scan
          /\ j.cached = run[r].cached
      BY <1>1, <3>1 DEF Locals
    <3>3. RunFits(r, "save", j)
      BY <1>1, <2>1, <3>2
         DEF RunFits, OneFileEach, ReadsOneFile, StagesItsPlan, ScansWhatWasHeld, Hashing, Staging
    <3>4. \A p \in DOMAIN j.scan : p \in DOMAIN j.base /\ j.scan[p].data = j.base[p].data
      BY <2>3, <3>2, UnchangedAgrees
    <3>5. Step(r, "save", j)
      BY <2>2, <2>3, <3>1
    <3> QED
      BY <1>1, <1>2, <3>2, <3>3, <3>4, <3>5, RunStep DEF Phase
  <2>4. CASE ~ Unchanged(run[r].scan, run[r].base, keep)
    <3>1. PICK plan : plan = Encrypted(run[r].scan, run[r].base)
      OBVIOUS
    <3>2. plan \in SUBSET Path
      <4>1. DOMAIN run[r].scan \in SUBSET Path
        BY <1>1, OnFits
      <4> QED
        BY <3>1, <4>1 DEF Encrypted, Created, New
    <3>3. PICK j \in Locals : j = [run[r] EXCEPT !.keep = keep, !.todo = plan]
      BY <1>1, <3>2 DEF Locals
    <3>4. /\ j.kind = run[r].kind /\ j.base = run[r].base /\ j.scan = run[r].scan
          /\ j.cached = run[r].cached /\ j.staged = run[r].staged /\ j.todo = plan
      BY <1>1, <3>3 DEF Locals
    <3>5. StagesItsPlan("stage", j)
      BY <1>1, <2>1, <3>1, <3>4, NothingIsOn DEF RunFits, StagesItsPlan, Hashing, Staging
    <3>6. ScansWhatWasHeld("stage", j)
      <4>1. ScansWhatWasHeld("scan", run[r])
        BY <1>1, <2>1 DEF RunFits
      <4> QED
        BY <1>1, <3>4, <4>1 DEF ScansWhatWasHeld, Hashing, Staging
    <3>7. RunFits(r, "stage", j)
      BY <1>1, <2>1, <3>4, <3>5, <3>6 DEF RunFits, OneFileEach, ReadsOneFile
    <3>8. Step(r, "stage", j)
      BY <2>2, <2>4, <3>1, <3>3
    <3> QED
      BY <1>1, <1>2, <3>4, <3>7, <3>8, RunStep DEF Phase
  <2> QED
    BY <2>3, <2>4
<1>4. CASE run[r].kind # "encrypt" /\ EndRun(r)
  BY <1>2, <1>4, Ends
<1>5. CASE /\ run[r].kind # "encrypt" /\ Step(r, "save", run[r])
           /\ run[r].kind = "adopt" => Unchanged(run[r].scan, run[r].base, FALSE)
  <2>1. RunFits(r, "save", run[r])
    BY <1>1, <1>5 DEF RunFits, Hashing, Staging
  <2>2. run[r].kind # "restore" =>
            \A p \in DOMAIN run[r].scan :
                p \in DOMAIN run[r].base /\ run[r].scan[p].data = run[r].base[p].data
    <3>1. run[r].kind \in {"encrypt", "adopt", "restore"}
      BY <1>1 DEF Locals
    <3>2. run[r].kind # "restore" => Unchanged(run[r].scan, run[r].base, FALSE)
      BY <1>5, <3>1
    <3> QED
      BY <3>2, UnchangedAgrees
  <2> QED
    BY <1>1, <1>2, <1>5, <2>1, <2>2, RunStep DEF Phase
<1> QED
  BY <1>3, <1>4, <1>5 DEF Scanned

LEMMA StatsAgain ==
    ASSUME IInv, NEW r \in Run, NEW p \in Path, StatForEncryption(r, p)
    PROVE  IInv'
<1>1. /\ run[r] \in Locals /\ RunFits(r, "stage", run[r])
      /\ pc[r] = "stage" /\ p \in run[r].todo
      /\ \A x \in Range(run[r].scan) \union Range(run[r].cached) : Known(x)
  BY RunIs DEF StatForEncryption
<1>2. r \in Encrypter /\ r \notin Recoverer
  BY <1>1, EncrypterIs DEF Staging
<1>3. UNCHANGED <<source, manifest, generation, cache, edits>>
  BY DEF StatForEncryption
<1>4. CASE Step(r, "stage read", [run[r] EXCEPT !.at = p])
  <2>1. PICK j \in Locals : j = [run[r] EXCEPT !.at = p]
    BY <1>1 DEF Locals
  <2>2. /\ j.kind = run[r].kind /\ j.base = run[r].base /\ j.scan = run[r].scan
        /\ j.cached = run[r].cached /\ j.staged = run[r].staged /\ j.todo = run[r].todo
        /\ j.at = p
    BY <1>1, <2>1 DEF Locals
  <2>3. RunFits(r, "stage read", j)
    BY <1>1, <1>2, <2>2
       DEF RunFits, OneFileEach, ReadsOneFile, StagesItsPlan, ScansWhatWasHeld, Hashing, Staging
  <2>4. Step(r, "stage read", j)
    BY <1>4, <2>1
  <2> QED
    BY <1>1, <1>3, <2>2, <2>3, <2>4, RunStep DEF Phase
<1>5. CASE EndRun(r)
  BY <1>3, <1>5, Ends
<1> QED
  BY <1>4, <1>5 DEF StatForEncryption

LEMMA ChecksRead ==
    ASSUME IInv, NEW r \in Run, CheckRead(r)
    PROVE  IInv'
<1>1. /\ run[r] \in Locals /\ RunFits(r, "stage check", run[r]) /\ pc[r] = "stage check"
      /\ run[r].staged \in On(Data) /\ run[r].todo \subseteq Path
      /\ \A x \in Range(run[r].scan) \union Range(run[r].cached) : Known(x)
  BY RunIs DEF CheckRead
<1>2. /\ r \in Encrypter /\ r \notin Recoverer /\ ReadsOneFile("stage check", run[r])
      /\ StagesItsPlan("stage check", run[r])
  BY <1>1, EncrypterIs DEF Staging
<1>3. UNCHANGED <<source, manifest, generation, cache, edits>>
  BY DEF CheckRead
<1>4. CASE /\ run[r].bytes = run[r].scan[run[r].at].data
           /\ Step(r, "stage", [run[r] EXCEPT !.todo = @ \ {run[r].at},
                                              !.staged = With(@, run[r].at, run[r].bytes),
                                              !.at = None, !.bytes = None])
  <2>1. PICK p \in run[r].todo : p = run[r].at
    BY <1>2 DEF StagesItsPlan
  <2>2. PICK bytes \in Data : bytes = run[r].bytes
    BY <1>2 DEF ReadsOneFile
  <2>3. PICK old \in On(Data) : old = run[r].staged
    BY <1>1
  <2>4. PICK staged : staged = With(old, p, bytes)
    OBVIOUS
  <2>5. /\ staged \in On(Data) /\ DOMAIN staged = DOMAIN old \union {p} /\ staged[p] = bytes
        /\ \A q \in DOMAIN old \ {p} : staged[q] = old[q]
    <3>1. /\ With(old, p, bytes) \in On(Data)
          /\ DOMAIN With(old, p, bytes) = DOMAIN old \union {p}
          /\ With(old, p, bytes)[p] = bytes
          /\ \A q \in DOMAIN old \ {p} : With(old, p, bytes)[q] = old[q]
          /\ Range(With(old, p, bytes)) \subseteq Range(old) \union {bytes}
      <4>1. p \in Path
        BY <1>1
      <4> QED
        BY <4>1, WithFits
    <3> QED
      BY <2>4, <3>1
  <2>6. PICK j \in Locals : j = [run[r] EXCEPT !.todo = @ \ {p}, !.staged = staged,
                                               !.at = None, !.bytes = None]
    BY <1>1, <2>5 DEF Locals
  <2>7. /\ j.kind = run[r].kind /\ j.base = run[r].base /\ j.scan = run[r].scan
        /\ j.cached = run[r].cached /\ j.staged = staged /\ j.todo = run[r].todo \ {p}
    BY <1>1, <2>6 DEF Locals
  <2>8. StagesItsPlan("stage", j)
    <3>1. /\ DOMAIN old \union run[r].todo = Encrypted(run[r].scan, run[r].base)
          /\ \A q \in DOMAIN old : old[q] = run[r].scan[q].data
      BY <1>2, <2>3 DEF StagesItsPlan, Staging
    <3>2. DOMAIN staged \union j.todo = Encrypted(j.scan, j.base)
      BY <2>1, <2>5, <2>7, <3>1
    <3>3. \A q \in DOMAIN staged : staged[q] = run[r].scan[q].data
      BY <1>4, <2>1, <2>2, <2>5, <3>1
    <3> QED
      BY <2>7, <3>2, <3>3 DEF StagesItsPlan, Hashing, Staging
  <2>9. ScansWhatWasHeld("stage", j)
    <3>1. ScansWhatWasHeld("stage check", run[r])
      BY <1>1, <1>2 DEF RunFits
    <3> QED
      BY <2>7, <3>1 DEF ScansWhatWasHeld, Hashing, Staging
  <2>10. RunFits(r, "stage", j)
    BY <1>1, <1>2, <2>7, <2>8, <2>9 DEF RunFits, OneFileEach, ReadsOneFile
  <2>11. Step(r, "stage", j)
    BY <1>4, <2>1, <2>2, <2>3, <2>4, <2>6
  <2> QED
    BY <1>1, <1>3, <2>7, <2>10, <2>11, RunStep DEF Phase
<1>5. CASE EndRun(r)
  BY <1>3, <1>5, Ends
<1> QED
  BY <1>4, <1>5 DEF CheckRead

\* What a commit does: the manifest is the plan of what was scanned.
LEMMA CommitPlans ==
    ASSUME IInv, NEW r \in Run, Commit(r)
    PROVE  /\ r \in Encrypter /\ r \notin Recoverer /\ lock = r /\ lock # None
           /\ run[r].base = manifest /\ pc[r] = "stage"
           /\ ScansWhatWasHeld("stage", run[r])
           /\ manifest' \in On(Entry) /\ OneFileEach(manifest')
           /\ \A p \in DOMAIN run[r].scan :
                 p \in DOMAIN manifest' /\ manifest'[p].data = run[r].scan[p].data
           /\ run[r].keep => \A p \in DOMAIN manifest :
                 \E q \in DOMAIN manifest' : manifest'[q].id = manifest[p].id
           /\ \A p \in DOMAIN manifest' : p \notin DOMAIN run[r].scan => run[r].keep
<1>1. PICK scan \in On(File), old \in On(Entry), staged \in On(Data), keep \in BOOLEAN :
         /\ scan = run[r].scan /\ old = run[r].base /\ staged = run[r].staged
         /\ keep = run[r].keep
  BY RunIs DEF Locals
<1>2. PICK ids \in Injection(Created(scan, old), Id \ UsedIds) :
         manifest' = Planned(scan, old, keep, ids, staged)
  BY <1>1 DEF Commit
<1>3. /\ r \in Encrypter /\ r \notin Recoverer /\ lock = r /\ lock # None
      /\ run[r].base = manifest /\ pc[r] = "stage"
      /\ ScansWhatWasHeld("stage", run[r]) /\ StagesItsPlan("stage", run[r])
  BY EncrypterIs DEF Commit, Staging
<1>4. /\ DOMAIN staged = Encrypted(scan, old)
      /\ \A p \in DOMAIN staged : staged[p] = scan[p].data
  BY <1>1, <1>3 DEF Commit, StagesItsPlan, Staging
<1>5. OneFileEach(old)
  BY <1>1, RunIs
<1>6. PICK used : used = UsedIds
  OBVIOUS
<1>7. \A p \in DOMAIN old : old[p].id \in used
  BY <1>1, <1>3, <1>6 DEF UsedIds
<1>8. ids \in Injection(Created(scan, old), Id \ used)
  BY <1>2, <1>6
<1>9. FitsScan(manifest', scan, old, keep)
  <2>1. FitsScan(Planned(scan, old, keep, ids, staged), scan, old, keep)
    BY <1>4, <1>5, <1>7, <1>8, PlannedFits
  <2> QED
    BY <1>2, <2>1
<1> QED
  BY <1>1, <1>3, <1>9 DEF FitsScan

LEMMA Commits ==
    ASSUME IInv, NEW r \in Run, Commit(r)
    PROVE  IInv'
<1>1. PICK new \in On(Entry) : new = manifest'
  BY CommitPlans
<1>2. /\ r \in Encrypter /\ r \notin Recoverer /\ lock = r /\ lock # None
      /\ pc[r] = "stage" /\ OneFileEach(new)
      /\ \A p \in DOMAIN run[r].scan : p \in DOMAIN new /\ new[p].data = run[r].scan[p].data
  BY <1>1, CommitPlans
<1>3. /\ run[r] \in Locals /\ RunFits(r, "stage", run[r]) /\ TypeOK
      /\ generation + 1 \in Nat /\ generation' = generation + 1
  BY <1>2, RunIs DEF IInv, TypeOK, Commit
<1>4. PICK j \in Locals : j = [run[r] EXCEPT !.base = new, !.generation = generation + 1]
  BY <1>3 DEF Locals
<1>5. /\ j.kind = run[r].kind /\ j.base = new /\ j.scan = run[r].scan
      /\ j.cached = run[r].cached
  BY <1>3, <1>4 DEF Locals
<1>6. Step(r, "save", j) /\ UNCHANGED <<source, cache, edits>>
  BY <1>1, <1>4 DEF Commit
<1>7. /\ pc' \in [Run -> Phase] /\ run' \in [Run -> Locals] /\ pc'[r] = "save" /\ run'[r] = j
      /\ \A t \in Run : t # r => pc'[t] = pc[t] /\ run'[t] = run[t]
      /\ UNCHANGED <<lock, held>>
  BY <1>6, SourceIs DEF Step, Phase
<1>8. TypeOK'
  BY <1>1, <1>3, <1>6, <1>7 DEF TypeOK
<1>9. StampsTell'
  <2> SUFFICES ASSUME NEW x \in Records' PROVE Known(x)
    BY StampsStay DEF IInv
  <2>1. \/ x \in Range(source)
        \/ cache # None /\ x \in Range(cache.files)
        \/ \E t \in Run : x \in Range(run'[t].scan) \union Range(run'[t].cached)
    BY <1>6 DEF Records
  <2>2. CASE x \in Range(source) \/ (cache # None /\ x \in Range(cache.files))
    BY <1>3, <2>2, RecordsFit DEF Known
  <2>3. ASSUME NEW t \in Run, x \in Range(run'[t].scan) \union Range(run'[t].cached)
        PROVE  Known(x)
    BY <1>5, <1>7, <2>3, RunIs
  <2> QED
    BY <2>1, <2>2, <2>3
<1>10. ASSUME NEW t \in Run, t # r, NEW a, NEW i, a = pc[t], i = run[t]
       PROVE  RunFits(t, a, i)'
  <2>1. RunFits(t, a, i)
    BY <1>10, RunIs
  <2>2. t \in Encrypter => a = "free"
    BY <1>2, <1>10, <2>1 DEF RunFits
  <2> QED
    BY <2>1, <2>2
       DEF RunFits, OneFileEach, ReadsOneFile, StagesItsPlan, ScansWhatWasHeld, Hashing, Staging
<1>11. RunFits(r, "save", j)'
  BY <1>1, <1>2, <1>3, <1>5, <1>7
     DEF RunFits, OneFileEach, ReadsOneFile, StagesItsPlan, ScansWhatWasHeld, Hashing, Staging
<1>12. (\A t \in Run : RunFits(t, pc[t], run[t]))'
  <2> SUFFICES ASSUME NEW t \in Run PROVE RunFits(t, pc[t], run[t])'
    OBVIOUS
  <2>1. CASE t = r
    BY <1>7, <1>11, <2>1
  <2>2. CASE t # r
    <3>1. PICK a \in Phase : a = pc[t] /\ a = pc'[t]
      BY <1>7, <2>2, SourceIs
    <3>2. PICK i \in Locals : i = run[t] /\ i = run'[t]
      BY <1>7, <2>2, SourceIs
    <3>3. RunFits(t, a, i)'
      BY <1>10, <2>2, <3>1, <3>2
    <3> QED
      BY <3>1, <3>2, <3>3
  <2> QED
    BY <2>1, <2>2
<1>13. IdsAreUnique'
  BY <1>1, <1>2 DEF IdsAreUnique, OneFileEach
<1>14. CommittedAsScanned'
  BY <1>2, <1>5, <1>7 DEF IInv, CommittedAsScanned
<1>15. (lock # None => lock \in Encrypter /\ \A p \in Path : Contents(source, p) \in held[p])'
  BY <1>6, <1>7 DEF IInv, Contents
<1> QED
  BY <1>8, <1>9, <1>12, <1>13, <1>14, <1>15 DEF IInv

\* The cache that is written has the contents and the stamps of the scan.
LEMMA Saves ==
    ASSUME IInv, NEW r \in Run, SaveState(r)
    PROVE  IInv'
<1>1. PICK scan \in On(File), base \in On(Entry) : scan = run[r].scan /\ base = run[r].base
  BY RunIs
<1>2. /\ run[r].generation \in Nat /\ \A x \in Range(scan) : Known(x)
  BY <1>1, RunIs
<1>3. CASE /\ \A p \in DOMAIN scan : p \in DOMAIN base /\ scan[p].data = base[p].data
           /\ cache' = [generation |-> run[r].generation,
                        files |-> [p \in DOMAIN scan |->
                           [data |-> scan[p].data, stamp |-> scan[p].stamp, id |-> base[p].id]]]
  <2>1. PICK files : files = [p \in DOMAIN scan |->
                 [data |-> scan[p].data, stamp |-> scan[p].stamp, id |-> base[p].id]]
    OBVIOUS
  <2>2. /\ DOMAIN scan \in SUBSET Path
        /\ \A p \in DOMAIN scan : scan[p] \in File /\ scan[p] \in Range(scan)
        /\ \A p \in DOMAIN base : base[p] \in Entry
    BY OnFits DEF Range
  <2>3. /\ DOMAIN files = DOMAIN scan
        /\ \A p \in DOMAIN scan : /\ files[p] \in CacheEntry
                                  /\ files[p].data = scan[p].data
                                  /\ files[p].stamp = scan[p].stamp
    BY <1>3, <2>1, <2>2 DEF File, Entry, CacheEntry
  <2>4. files \in On(CacheEntry)
    <3>1. files \in [DOMAIN scan -> CacheEntry]
      BY <2>1, <2>3
    <3> QED
      BY <2>2, <3>1, FitsOn
  <2>5. \A x \in Range(files) : Known(x)
    <3> SUFFICES ASSUME NEW p \in DOMAIN scan PROVE Known(files[p])
      BY <2>3 DEF Range
    <3>1. Known(scan[p])
      BY <1>2, <2>2
    <3> QED
      BY <2>3, <3>1 DEF Known
  <2>6. cache' \in Caches /\ cache'.files = files
    BY <1>2, <1>3, <2>1, <2>4 DEF Caches
  <2>7. EndRun(r) /\ UNCHANGED <<source, manifest, generation, edits>>
    BY DEF SaveState
  <2> QED
    BY <2>5, <2>6, <2>7, EndKeeps
<1>4. CASE cache' = cache
  BY <1>4, Ends DEF SaveState
<1> QED
  BY <1>1, <1>3, <1>4 DEF SaveState

---------------------------------------------------------------------------------
(* Theorems. *)

LEMMA InitFits == Init => IInv
<1> SUFFICES ASSUME Init PROVE IInv
  OBVIOUS
<1>1. PICK files \in SUBSET Path :
          /\ \E data \in [files -> Data], ids \in Injection(files, Id) :
                manifest = [p \in files |-> [data |-> data[p], id |-> ids[p]]]
          /\ \E stamps \in Injection(files, Stamp) :
                source = [p \in files |-> [data |-> manifest[p].data, stamp |-> stamps[p]]]
  BY DEF Init
<1>2. PICK data \in [files -> Data], ids \in Injection(files, Id) :
          manifest = [p \in files |-> [data |-> data[p], id |-> ids[p]]]
  BY <1>1
<1>3. PICK stamps \in Injection(files, Stamp) :
          source = [p \in files |-> [data |-> manifest[p].data, stamp |-> stamps[p]]]
  BY <1>1
<1>4. /\ \A p \in files : ids[p] \in Id /\ stamps[p] \in Stamp
      /\ \A p, q \in files : ids[p] = ids[q] => p = q
      /\ \A p, q \in files : stamps[p] = stamps[q] => p = q
  BY DEF Injection, IsInjective
<1>5. /\ DOMAIN manifest = files
      /\ \A p \in files : /\ manifest[p] \in Entry /\ manifest[p].data = data[p]
                          /\ manifest[p].id = ids[p]
  BY <1>2, <1>4 DEF Entry
<1>6. /\ DOMAIN source = files
      /\ \A p \in files : /\ source[p] \in File /\ source[p].data = data[p]
                          /\ source[p].stamp = stamps[p]
  BY <1>3, <1>4, <1>5 DEF File
<1>7. manifest \in On(Entry)
  <2>1. manifest \in [files -> Entry]
    BY <1>2, <1>5
  <2> QED
    BY <2>1, FitsOn
<1>8. source \in On(File)
  <2>1. source \in [files -> File]
    BY <1>3, <1>6
  <2> QED
    BY <2>1, FitsOn
<1>9. /\ cache = None /\ lock = None /\ generation \in Nat /\ edits \in Nat
      /\ pc \in [Run -> Phase] /\ run \in [Run -> Locals]
      /\ \A r \in Run : pc[r] = "free" /\ run[r] = NoRun
      /\ held \in [Path -> SUBSET (Data \union {None})]
  BY NoRunFits DEF Init, Phase
<1>10. TypeOK
  BY <1>7, <1>8, <1>9 DEF TypeOK
<1>11. StampsTell
  <2> SUFFICES ASSUME NEW x \in Records, NEW y \in Records, x.stamp = y.stamp
               PROVE  x.data = y.data
    BY DEF StampsTell
  <2>1. x \in Range(source) /\ y \in Range(source)
    BY <1>9, <1>10, RecordsFit, NoRunFits, NothingIsOn
  <2>2. PICK p \in files, q \in files : x = source[p] /\ y = source[q]
    BY <1>6, <2>1 DEF Range
  <2> QED
    BY <1>4, <1>6, <2>2
<1>12. IdsAreUnique
  BY <1>4, <1>5 DEF IdsAreUnique, OneFileEach
<1>13. ASSUME NEW r \in Run PROVE RunFits(r, pc[r], run[r])
  <2>1. RunFits(r, "free", NoRun)
    BY NoRunFits
       DEF RunFits, OneFileEach, ReadsOneFile, StagesItsPlan, ScansWhatWasHeld, Hashing, Staging
  <2> QED
    BY <1>9, <2>1
<1>14. CommittedAsScanned
  BY <1>9 DEF CommittedAsScanned
<1> QED
  BY <1>9, <1>10, <1>11, <1>12, <1>13, <1>14 DEF IInv

LEMMA NextKeeps == IInv /\ [Next]_vars => IInv'
<1> SUFFICES ASSUME IInv, [Next]_vars PROVE IInv'
  OBVIOUS
<1>1. ASSUME NEW p \in Path, WriteFile(p) \/ DeleteFile(p) \/ \E q \in Path : MoveFile(p, q)
      PROVE  IInv'
  BY <1>1, Writes, Deletes, Moves
<1>2. ASSUME NEW r \in Encrypter, StartEncrypt(r) PROVE IInv'
  BY <1>2, EncryptStarts
<1>3. ASSUME NEW r \in Recoverer, StartAdopt(r) \/ StartRestore(r) PROVE IInv'
  BY <1>3, AdoptStarts, RestoreStarts
<1>4. ASSUME NEW r \in Run, WipeSource(r) \/ MoveInRestored(r) PROVE IInv'
  BY <1>4, Wipes, MovesIn
<1>5. ASSUME NEW r \in Run, NEW p \in Path,
             SkipMissing(r, p) \/ StatFile(r, p) \/ HashFile(r, p) \/ StatForEncryption(r, p)
      PROVE  IInv'
  BY <1>5, Skips, Stats, Hashes, StatsAgain
<1>6. ASSUME NEW r \in Run, ReadFile(r) \/ CheckHashed(r) \/ Scanned(r) \/ CheckRead(r)
      PROVE  IInv'
  BY <1>6, Reads, ChecksHash, ScanEnds, ChecksRead
<1>7. ASSUME NEW r \in Run, Commit(r) \/ SaveState(r) PROVE IInv'
  BY <1>7, Commits, Saves
<1>8. ASSUME NEW r \in Run, Stop(r) PROVE IInv'
  BY <1>8, Ends DEF Stop
<1>9. CASE UNCHANGED vars
  <2>1. UNCHANGED <<source, manifest, generation, cache, lock, pc, run, held, edits>>
    BY <1>9 DEF vars
  <2>2. TypeOK' /\ StampsTell' /\ IdsAreUnique' /\ CommittedAsScanned'
    BY <2>1 DEF IInv, TypeOK, StampsTell, Records, IdsAreUnique, OneFileEach, CommittedAsScanned
  <2>3. (\A r \in Run : RunFits(r, pc[r], run[r]))'
    <3>1. ASSUME NEW r, NEW phase, NEW j, RunFits(r, phase, j)
          PROVE  RunFits(r, phase, j)'
      <4>1. ReadsOneFile(phase, j)' <=> ReadsOneFile(phase, j)
        BY <2>1 DEF ReadsOneFile
      <4>2. ScansWhatWasHeld(phase, j)' <=> ScansWhatWasHeld(phase, j)
        BY <2>1 DEF ScansWhatWasHeld, Contents
      <4>3. StagesItsPlan(phase, j)' <=> StagesItsPlan(phase, j)
        BY DEF StagesItsPlan
      <4> QED
        BY <2>1, <3>1, <4>1, <4>2, <4>3 DEF RunFits, OneFileEach
    <3>2. \A r \in Run : RunFits(r, pc[r], run[r])
      BY DEF IInv
    <3> QED
      BY <2>1, <3>1, <3>2
  <2>4. (lock # None => lock \in Encrypter /\ \A p \in Path : Contents(source, p) \in held[p])'
    BY <2>1 DEF IInv, Contents
  <2> QED
    BY <2>2, <2>3, <2>4 DEF IInv
<1> QED
  BY <1>1, <1>2, <1>3, <1>4, <1>5, <1>6, <1>7, <1>8, <1>9 DEF Next

\* Every stamp that anything remembers tells the contents it was seen with; an
\* encryption holds the lock, works on the manifest as it is and has scanned what its
\* paths held; ids name one file each in every manifest that is around.
THEOREM InductiveInvariant == Spec => []IInv
BY InitFits, NextKeeps, PTL DEF Spec

\* Every variable keeps its type.
THEOREM TypeCorrect == Spec => []TypeOK
<1>1. IInv => TypeOK
  BY DEF IInv
<1> QED
  BY <1>1, InductiveInvariant, PTL

\* Whatever is created, moved, replaced, preserved or restored, no two entries of the
\* manifest have the same id.
THEOREM IdsStayUnique == Spec => []IdsAreUnique
<1>1. IInv => IdsAreUnique
  BY DEF IInv
<1> QED
  BY <1>1, InductiveInvariant, PTL

\* However encryptions, adoptions, restores and edits interleave, the cache never
\* makes a file look unchanged that has changed.
THEOREM CacheIsHonest == Spec => []CacheHidesNothing
<1>1. IInv => CacheHidesNothing
  <2> SUFFICES ASSUME IInv, cache # None, NEW p \in DOMAIN cache.files \cap DOMAIN source,
                      source[p].stamp = cache.files[p].stamp
               PROVE  source[p].data = cache.files[p].data
    BY DEF CacheHidesNothing
  <2>1. source[p] \in Records /\ cache.files[p] \in Records
    BY RecordsFit DEF IInv
  <2> QED
    BY <2>1 DEF IInv, StampsTell
<1> QED
  BY <1>1, InductiveInvariant, PTL

\* A run that has committed, or has found nothing to commit, can write its cache.
THEOREM CommitsAreAsScanned == Spec => []CommittedAsScanned
<1>1. IInv => CommittedAsScanned
  BY DEF IInv
<1> QED
  BY <1>1, InductiveInvariant, PTL

---------------------------------------------------------------------------------
(* What a run makes of the manifest. *)

\* A manifest with the contents of a scan mirrors what the paths have held, as far as a
\* path is scanned or --preserve-remote was not asked for.
LEMMA Mirrors ==
    ASSUME NEW scan, NEW new, NEW keep,
           \A p \in Path : Contents(scan, p) \in held[p],
           \A p \in DOMAIN scan : p \in DOMAIN new /\ new[p].data = scan[p].data,
           \A p \in DOMAIN new : p \notin DOMAIN scan => keep
    PROVE  \A p \in Path : \/ Contents(new, p) \in held[p]
                           \/ keep /\ p \in DOMAIN new /\ None \in held[p]
<1> SUFFICES ASSUME NEW p \in Path
             PROVE  \/ Contents(new, p) \in held[p]
                    \/ keep /\ p \in DOMAIN new /\ None \in held[p]
  OBVIOUS
<1>1. CASE p \in DOMAIN scan
  BY <1>1 DEF Contents
<1>2. CASE p \notin DOMAIN scan
  BY <1>2 DEF Contents
<1> QED
  BY <1>1, <1>2

LEMMA ScannedMirrors ==
    ASSUME IInv, NEW r \in Run, Scanned(r), run[r].kind = "encrypt", pc'[r] = "save"
    PROVE  /\ \A p \in Path :
                  \/ Contents(manifest', p) \in held[p]
                  \/ run'[r].keep /\ p \in DOMAIN manifest' /\ None \in held[p]
           /\ run'[r].keep => {e.id : e \in Range(manifest)} \subseteq
                              {e.id : e \in Range(manifest')}
<1>1. PICK keep \in BOOLEAN :
          /\ Unchanged(run[r].scan, run[r].base, keep)
          /\ Step(r, "save", [run[r] EXCEPT !.keep = keep])
  BY SourceIs DEF Scanned, Step
<1>2. run[r].base = manifest /\ ScansWhatWasHeld("scan", run[r]) /\ run[r].todo = {}
  BY EncrypterIs DEF Scanned
<1>3. \A p \in Path : Contents(run[r].scan, p) \in held[p]
  BY <1>2 DEF ScansWhatWasHeld, Staging
<1>4. run'[r].keep = keep
  <2>1. run' = [run EXCEPT ![r] = [run[r] EXCEPT !.keep = keep]] /\ run[r] \in Locals
    BY <1>1, RunIs DEF Step
  <2> QED
    BY <2>1, SourceIs DEF Locals
<1>5. manifest' = manifest
  BY DEF Scanned
<1>6. /\ \A p \in DOMAIN run[r].scan : p \in DOMAIN manifest
                                       /\ run[r].scan[p].data = manifest[p].data
      /\ \A p \in DOMAIN manifest : p \notin DOMAIN run[r].scan => keep
  BY <1>1, <1>2, UnchangedAgrees
<1>7. \A p \in Path : \/ Contents(manifest, p) \in held[p]
                      \/ keep /\ p \in DOMAIN manifest /\ None \in held[p]
  BY <1>3, <1>6, Mirrors
<1>8. \A p \in Path : Contents(manifest, p) = Contents(manifest', p)
  BY <1>5 DEF Contents
<1> QED
  BY <1>4, <1>5, <1>7, <1>8

LEMMA CommitMirrors ==
    ASSUME IInv, NEW r \in Run, Commit(r)
    PROVE  /\ \A p \in Path :
                  \/ Contents(manifest', p) \in held[p]
                  \/ run'[r].keep /\ p \in DOMAIN manifest' /\ None \in held[p]
           /\ run'[r].keep => {e.id : e \in Range(manifest)} \subseteq
                              {e.id : e \in Range(manifest')}
<1>1. PICK new : new = manifest'
  OBVIOUS
<1>2. /\ ScansWhatWasHeld("stage", run[r])
      /\ \A p \in DOMAIN run[r].scan : p \in DOMAIN new /\ new[p].data = run[r].scan[p].data
      /\ run[r].keep => \A p \in DOMAIN manifest : \E q \in DOMAIN new :
             new[q].id = manifest[p].id
      /\ \A p \in DOMAIN new : p \notin DOMAIN run[r].scan => run[r].keep
  BY <1>1, CommitPlans
<1>3. \A p \in Path : Contents(run[r].scan, p) \in held[p]
  BY <1>2 DEF ScansWhatWasHeld, Staging
<1>4. run'[r].keep = run[r].keep
  <2>1. /\ run' = [run EXCEPT ![r] = [run[r] EXCEPT !.base = new,
                                                    !.generation = generation + 1]]
        /\ run[r] \in Locals
    BY <1>1, RunIs DEF Commit, Step
  <2> QED
    BY <2>1, SourceIs DEF Locals
<1>5. \A p \in Path : \/ Contents(new, p) \in held[p]
                      \/ run[r].keep /\ p \in DOMAIN new /\ None \in held[p]
  BY <1>2, <1>3, Mirrors
<1>6. \A p \in Path : Contents(new, p) = Contents(manifest', p)
  BY <1>1 DEF Contents
<1>7. run[r].keep => {e.id : e \in Range(manifest)} \subseteq {e.id : e \in Range(new)}
  BY <1>2 DEF Range
<1> QED
  BY <1>1, <1>4, <1>5, <1>6, <1>7

\* Only the end of a scan and a commit bring a run to its last step.
LEMMA OnlyTheseSave ==
    ASSUME IInv, Next, NEW r \in Run, run[r].kind = "encrypt", pc[r] # "save", pc'[r] = "save"
    PROVE  Scanned(r) \/ Commit(r)
<1> USE SourceIs
<1>1. ASSUME NEW p \in Path, WriteFile(p) \/ DeleteFile(p) \/ \E q \in Path : MoveFile(p, q)
      PROVE  FALSE
  BY <1>1 DEF WriteFile, DeleteFile, MoveFile, Edited
<1>2. ASSUME NEW t \in Encrypter, StartEncrypt(t) PROVE FALSE
  BY <1>2 DEF StartEncrypt, Run
<1>3. ASSUME NEW t \in Recoverer, StartAdopt(t) \/ StartRestore(t) PROVE FALSE
  BY <1>3 DEF StartAdopt, StartRestore, Step, Run
<1>4. ASSUME NEW t \in Run, WipeSource(t) \/ MoveInRestored(t) PROVE FALSE
  BY <1>4 DEF WipeSource, MoveInRestored
<1>5. ASSUME NEW t \in Run, NEW p \in Path,
             SkipMissing(t, p) \/ StatFile(t, p) \/ HashFile(t, p) \/ StatForEncryption(t, p)
      PROVE  FALSE
  <2>1. CASE SkipMissing(t, p)
    BY <2>1 DEF SkipMissing, Step
  <2>2. CASE StatFile(t, p)
    BY <2>2 DEF StatFile, Step
  <2>3. CASE HashFile(t, p)
    BY <2>3 DEF HashFile, Step
  <2>4. CASE StatForEncryption(t, p)
    BY <2>4 DEF StatForEncryption, Step, EndRun
  <2> QED
    BY <1>5, <2>1, <2>2, <2>3, <2>4
<1>6. ASSUME NEW t \in Run, ReadFile(t) PROVE FALSE
  <2>1. PICK phase \in {"check", "stage check"} : pc' = [pc EXCEPT ![t] = phase]
    BY <1>6, ReadsInPlaces DEF Step
  <2> QED
    BY <2>1
<1>7. ASSUME NEW t \in Run, CheckHashed(t) \/ CheckRead(t) PROVE FALSE
  <2>1. CASE CheckHashed(t)
    BY <2>1 DEF CheckHashed, Step, EndRun
  <2>2. CASE CheckRead(t)
    BY <2>2 DEF CheckRead, Step, EndRun
  <2> QED
    BY <1>7, <2>1, <2>2
<1>8. ASSUME NEW t \in Run, SaveState(t) \/ Stop(t) PROVE FALSE
  BY <1>8 DEF SaveState, Stop, EndRun
<1>9. ASSUME NEW t \in Run, Scanned(t) \/ Commit(t) PROVE t = r
  <2>1. pc'[t] # pc[t] /\ \A u \in Run : u # t => pc'[u] = pc[u]
    BY <1>9 DEF Scanned, Commit, Step, EndRun
  <2> QED
    BY <2>1
<1> QED
  BY <1>1, <1>2, <1>3, <1>4, <1>5, <1>6, <1>7, <1>8, <1>9 DEF Next

\* Whenever an encryption commits, or finds nothing to commit, the manifest says of
\* every path something the path has held while the run had the lock, or keeps the
\* entry of a path that was empty; and --preserve-remote has dropped no file.
THEOREM RunsMirrorTheSource == Spec => RunMirrorsSource
<1>1. ASSUME IInv, [Next]_vars,
             NEW r \in Run, run[r].kind = "encrypt", pc[r] # "save", pc'[r] = "save"
      PROVE  /\ \A p \in Path :
                  \/ Contents(manifest', p) \in held[p]
                  \/ run'[r].keep /\ p \in DOMAIN manifest' /\ None \in held[p]
             /\ run'[r].keep => {e.id : e \in Range(manifest)} \subseteq
                                {e.id : e \in Range(manifest')}
  <2>1. Next
    BY <1>1 DEF vars
  <2>2. Scanned(r) \/ Commit(r)
    BY <1>1, <2>1, OnlyTheseSave
  <2>3. CASE Scanned(r)
    BY <1>1, <2>3, ScannedMirrors
  <2>4. CASE Commit(r)
    BY <1>1, <2>4, CommitMirrors
  <2> QED
    BY <2>2, <2>3, <2>4
<1>2. IInv /\ [Next]_vars =>
         [\A r \in Run :
            run[r].kind = "encrypt" /\ pc[r] # "save" /\ pc'[r] = "save" =>
               /\ \A p \in Path :
                     \/ Contents(manifest', p) \in held[p]
                     \/ run'[r].keep /\ p \in DOMAIN manifest' /\ None \in held[p]
               /\ run'[r].keep => {e.id : e \in Range(manifest)} \subseteq
                                  {e.id : e \in Range(manifest')}]_vars
  BY <1>1
<1> QED
  BY <1>2, InductiveInvariant, PTL DEF Spec, RunMirrorsSource
=================================================================================
