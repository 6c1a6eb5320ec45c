SPECIFICATION Spec
CONSTANTS
    Fingerprint = f1
    Accounts = {a1, a2, a3}
    Keys <- MCKeys
    None = None
    MaxHolds = 2
    MaxGuards = 3
INVARIANT TypeOK
INVARIANT TallyMirrorsRecord
INVARIANT TallyWithinGuards
