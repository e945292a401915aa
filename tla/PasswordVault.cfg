\* A password file, or none yet: then one person makes it, with a prompt or with
\* --init-passphrase.  The other run has the environment or the file.
\* No symmetry: the runs differ, and RotationSettles is a liveness property.
CONSTANTS
    Writer = {w1, w2}
    Free = Free
    Abandoned = Abandoned
    Password = {p1, p2, p3}
    NoPassword = NoPassword
    EnvPasswords = {NoPassword, p1}
    InitialFiles = {NoPassword, p1}
    Initializer = {w1}
    MaxRevision = 3
    MaxPackages = 1
    MaxFaults = 2
SPECIFICATION LiveSpec
INVARIANTS AlwaysUnlockable
PROPERTIES NoRevisionLost RotationSettles
