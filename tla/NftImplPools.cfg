\* Two items of one collection, each with a pool of its own.
SPECIFICATION Spec
CONSTANTS
    Accounts = {a1, a2}
    CollectionIds = {c1}
    Fingerprints = {f1, f2}
    HolderIds = {h1}
    None = None
    MaxCollectionId = 1
    MaxItemId = 2
    MaxAmount = 1
    MaxFTokens = 2
    MaxHolds = 1
    MaxLockNumber = 1
    MaxTimepoint = 1
SYMMETRY RegistrySymmetry
VIEW Storages
INVARIANT FractionalAgreement
INVARIANT OwnerAdministersPool
PROPERTY ImplementsLifecycle
