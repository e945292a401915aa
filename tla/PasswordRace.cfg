\* Two first runs with --init-passphrase.
CONSTANTS
    Writer = {w1, w2}
    Free = Free
    Abandoned = Abandoned
    Password = {p1, p2}
    NoPassword = NoPassword
    EnvPasswords = {NoPassword}
    InitialFiles = {NoPassword}
    Initializer = {w1, w2}
    MaxRevision = 1
    MaxPackages = 0
    MaxFaults = 0
SPECIFICATION Spec
INVARIANTS FirstRunsDoNotOverwrite
