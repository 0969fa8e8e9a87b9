SPECIFICATION Spec
CONSTANTS
    Subs = {s1, s2}
    Copies <- SomeCopies
    MaxStates = 2
    MaxHandling = 2
    None = None
SYMMETRY Symmetric
INVARIANTS TypeOK MirrorCatchesUp CardCacheIsRow
PROPERTIES NoTrialOncePaid
