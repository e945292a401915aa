------------------------------- MODULE AtomicVault -------------------------------
(***************************************************************************)
(* What a reader of the output directory is promised: at every moment it   *)
(* sees one complete generation of the vault, and generations follow one   *)
(* another one at a time.  There are no blobs that come and go, no locks,  *)
(* no interrupted runs: a generation replaces the one before it in a       *)
(* single step or not at all.                                              *)
(***************************************************************************)
EXTENDS Naturals, FiniteSets

CONSTANT Blob

VARIABLE vault  \* the generation a reader sees: its kind, revision and readable blobs

Generation == [kind : {"none", "v1", "v2"}, rev : Nat, readable : SUBSET Blob]

\* An empty directory, or a vault somebody made before.
Init ==
    vault \in {g \in Generation : (g.kind = "v2" => g.rev = 1) /\ (g.kind # "v2" => g.rev = 0)
                                  /\ (g.kind = "none" => g.readable = {})}

\* The first vault of a directory.
Create ==
    /\ vault.kind = "none"
    /\ \E C \in SUBSET Blob : vault' = [kind |-> "v2", rev |-> 1, readable |-> C]

\* A v1 vault becomes a v2 vault: as many files, none of the old blobs.
Migrate ==
    /\ vault.kind = "v1"
    /\ \E C \in SUBSET Blob :
          /\ Cardinality(C) = Cardinality(vault.readable)
          /\ C \intersect vault.readable = {}
          /\ vault' = [kind |-> "v2", rev |-> 1, readable |-> C]

\* Each change of a v2 vault is the next revision of the one it replaces.
Update ==
    /\ vault.kind = "v2"
    /\ \E C \in SUBSET Blob : vault' = [kind |-> "v2", rev |-> vault.rev + 1, readable |-> C]

Next == Create \/ Migrate \/ Update

Spec == Init /\ [][Next]_vault
==================================================================================
