\* Two handlers, two previews, three commits, one change of the Workspace, one fault.
\* The bounds on commits and previews stop the model.
CONSTANTS
    Slot = {s1, s2}
    d = d
    e = e
    p1 = p1
    p2 = p2
    Password = {p1, p2}
    None = None
    Path <- MCPath
    FirstVault <- MCFirstVault
    OtherVaults <- MCOtherVaults
    Workspaces <- MCWorkspaces
    Bodies <- MCBodies
    MaxPreviews = 2
    MaxCommits = 3
    MaxEdits = 1
    MaxFaults = 1
SPECIFICATION Spec
SYMMETRY Symmetry
INVARIANTS OfferedWasRefused SealedWithItsKey
PROPERTIES ImplementsReviewedBranch
CHECK_DEADLOCK FALSE
