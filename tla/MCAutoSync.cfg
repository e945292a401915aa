\* Every kind of fault, three of them in one behaviour, and two timers at once.  The watcher
\* starts with a pass to make: one change is the second thing to encrypt.  No symmetry:
\* liveness needs the full graph.
\* A watcher with nothing to do, or one that is stopped, rests.
CONSTANTS
    Thread = {t1, t2}
    None = None
    Leaked = Leaked
    Faults = {"network", "git", "refuse", "encrypt", "probe", "kill", "dirty"}
    MaxChanges = 1
    MaxOthers = 1
    MaxFaults = 3
SPECIFICATION LiveSpec
INVARIANTS NoChangeForgotten WorkIsScheduled OnePassAtATime
PROPERTIES EncryptsOnFetchedBase CommitsArePreserved ChangesReachRemote
CHECK_DEADLOCK FALSE
