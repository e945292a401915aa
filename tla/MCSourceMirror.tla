---------------------------- MODULE MCSourceMirror ----------------------------
(* SourceMirror with symmetric constants. *)
EXTENDS SourceMirror, TLC

Symmetry == Permutations(Path) \union Permutations(Data) \union Permutations(Stamp)
              \union Permutations(Id)
===============================================================================
