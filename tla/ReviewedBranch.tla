----------------------------- MODULE ReviewedBranch -----------------------------
(***************************************************************************)
(* What the portable updater promises about its target branch: the branch  *)
(* only grows, an update lands once at most, it lands on the very commit   *)
(* it was reviewed against, and it changes the paths its plan names and no *)
(* others.  There are no requests, retries or lost answers here.           *)
(***************************************************************************)
EXTENDS Naturals, Sequences

CONSTANT Path

VARIABLE branch  \* the commits of the branch, oldest first

Tip(commits) == commits[Len(commits)]

\* The paths that two vault contents do not agree on.
Differ(a, b) ==
    {p \in Path : \/ (p \in DOMAIN a) # (p \in DOMAIN b)
                  \/ p \in DOMAIN a \intersect DOMAIN b /\ a[p] # b[p]}

\* The paths that the plan of an update names.
Named(plan) ==
    plan.additions \union plan.replacements \union plan.removals
        \union UNION {{move.from, move.to} : move \in plan.moves}

Init == Len(branch) = 1

\* Somebody else's commit.
Push(c) == c.upd = 0

Land(c) ==
    /\ \A i \in DOMAIN branch : branch[i].upd # c.upd
    /\ Differ(Tip(branch).files, c.files) = Named(c.plan)

Next ==
    /\ Len(branch') = Len(branch) + 1
    /\ SubSeq(branch', 1, Len(branch)) = branch
    /\ Tip(branch').parent = Tip(branch).sha
    /\ Push(Tip(branch')) \/ Land(Tip(branch'))

Spec == Init /\ [][Next]_branch
=================================================================================
