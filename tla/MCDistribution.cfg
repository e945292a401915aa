\* Two builders and two builds, one write, one edit, two faults: a rename
\* fails, and so may the one that puts the previous dist back.
\* The bounds on builds and writes stop the model.
CONSTANTS
    Builder = {b1, b2}
    Blob = {1, 2}
    None = None
    Targets <- MCTargets
    FirstManifests <- MCFirstManifests
    Version = {1, 2}
    Imports <- MCImports
    Entry = {"bootstrap"}
    MaxBuilds = 2
    MaxWrites = 1
    MaxEdits = 1
    MaxFaults = 2
SPECIFICATION Spec
SYMMETRY Symmetry
INVARIANTS DistIsWhole EarlyFailureKeepsDist LastBuildSurvives
PROPERTIES QuietBuildIsExact
CHECK_DEADLOCK FALSE
