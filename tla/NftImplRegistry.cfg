SPECIFICATION Spec
CONSTANTS
    Accounts = {a1, a2}
    CollectionIds = {c1, c2}
    Fingerprints = {f1, f2}
    HolderIds = {h1}
    None = None
    MaxCollectionId = 3
    MaxItemId = 2
    MaxAmount = 1
    MaxFTokens = 0
    MaxHolds = 1
    MaxLockNumber = 1
    MaxTimepoint = 1
SYMMETRY RegistrySymmetry
INVARIANT CapacityRespected
INVARIANT ItemIdsCounted
INVARIANT InternalIdsFresh
INVARIANT ItemsMirrorBackingStore
