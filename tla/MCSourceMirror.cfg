\* An encryption and a recovery at the same time, two paths, one edit, one commit.
CONSTANTS
    Path = {p1, p2}
    Data = {d1, d2}
    Stamp = {s1, s2, s3}
    Id = {i1, i2}
    Encrypter = {r1}
    Recoverer = {r2}
    None = None
    MaxGeneration = 2
    MaxEdits = 1
SPECIFICATION Spec
SYMMETRY Symmetry
INVARIANTS IdsAreUnique CacheHidesNothing CommittedAsScanned
PROPERTIES RunMirrorsSource
