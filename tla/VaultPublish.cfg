\* Two writers, rollbacks of two blobs, two packages from the same or from
\* successive manifests, two faults.  No symmetry: there are liveness properties.
CONSTANTS
    Writer = {w1, w2}
    Free = Free
    Abandoned = Abandoned
    Blob = {b1, b2, b3}
    ManifestId = {m1, m2, m3, m4, m5}
    NoId = NoId
    MaxRevision = 3
    MaxNew = 2
    MaxPackages = 2
    MaxFaults = 2
SPECIFICATION LiveSpec
INVARIANTS ReferencedBlobsPresent CleanupIsExact IInv
PROPERTIES ApplyReplacesItsBase NoLostUpdate ImplementsAtomicVault
           RunTerminates EncryptCollectsOrphans
