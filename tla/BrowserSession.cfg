\* Two operations under way at once, two links.  No symmetry: there are liveness properties.
CONSTANTS
    Op = {o1, o2}
    Key = {k1, k2}
    Share = {s1, s2}
    None = None
SPECIFICATION LiveSpec
INVARIANTS PublicPageHoldsNoVault OpenShareIsCleanAndTimed
           ClosedPageHoldsNothing KeysAreWiped
PROPERTIES NothingDeliveredAcrossLocks VaultLocksWhenIdle ExpiredShareCloses
