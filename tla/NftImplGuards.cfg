\* One item, two accounts, three guards over two transactions.
SPECIFICATION Spec
CONSTANTS
    Accounts = {a1, a2}
    CollectionIds = {c1}
    Fingerprints = {f1}
    HolderIds = {h1, h2}
    None = None
    MaxCollectionId = 1
    MaxItemId = 1
    MaxAmount = 1
    MaxFTokens = 1
    MaxHolds = 2
    MaxLockNumber = 2
    MaxTimepoint = 2
SYMMETRY AccountSymmetry
VIEW Storages
INVARIANT GuardsIssuedOnce
INVARIANT TallyWithinEntries
