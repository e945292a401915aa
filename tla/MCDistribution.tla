------------------------------ MODULE MCDistribution ------------------------------
(***************************************************************************)
(* An instance of Distribution: two blobs, a legacy vault that is migrated *)
(* and changed, and two versions of the browser's sources, the second one  *)
(* with a module that the first one does not have.                         *)
(***************************************************************************)
EXTENDS Distribution, TLC

MCFirstManifests == {[index |-> FALSE, refs |-> {1}], [index |-> TRUE, refs |-> {1, 2}]}
MCTargets == {[index |-> TRUE, refs |-> {1}], [index |-> TRUE, refs |-> {2}]}
MCImports == <<"bootstrap" :> {"app"} @@ "app" :> {"crypto"} @@ "crypto" :> {},
               "bootstrap" :> {"app"} @@ "app" :> {"crypto", "zip"} @@ "crypto" :> {}
                   @@ "zip" :> {}>>

Symmetry == Permutations(Builder)
=================================================================================
