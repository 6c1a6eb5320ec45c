SPECIFICATION Spec
CONSTANTS
    Accounts = {a1, a2}
    CollectionIds = {c1}
    Fingerprints = {f1}
    HolderIds = {h1}
    None = None
    MaxCollectionId = 1
    MaxItemId = 1
    MaxAmount = 2
    MaxFTokens = 1
    MaxHolds = 1
    MaxLockNumber = 1
    MaxTimepoint = 1
SYMMETRY AccountSymmetry
PROPERTY FailuresWriteNothing
