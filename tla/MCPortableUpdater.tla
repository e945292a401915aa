---------------------------- MODULE MCPortableUpdater ----------------------------
(***************************************************************************)
(* An instance of PortableUpdater: two paths, two contents, two vaults     *)
(* with two passwords, an empty Workspace, and one whose file moves, adds  *)
(* or replaces one of the vault.                                           *)
(***************************************************************************)
EXTENDS PortableUpdater, TLC

CONSTANTS d, e, p1, p2

MCPath == {1, 2}
MCFirstVault == [files |-> 1 :> d, pw |-> p1]
MCOtherVaults == {[files |-> 1 :> e @@ 2 :> e, pw |-> p2]}
MCWorkspaces == {<< >>, 2 :> d}

Body(mode, remove, confirm, passphrase, given) ==
    [mode |-> mode, remove |-> remove, confirm |-> confirm, passphrase |-> passphrase,
     token |-> given]

MCBodies == {Body("add-replace", {}, FALSE, p1, TRUE), Body("mirror", {}, TRUE, p2, FALSE),
             Body("remove-selected", {1}, FALSE, p1, TRUE)}

Symmetry == Permutations(Slot)
=================================================================================
