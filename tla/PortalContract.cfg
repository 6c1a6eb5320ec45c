SPECIFICATION Spec
CONSTANTS
    a1 = a1
    a2 = a2
    p1 = p1
    c1 = c1
    c2 = c2
    Accounts = {a1, a2}
    PortalIds = {p1}
    Calls = {c1, c2}
    UnsignedValid = {c1}
    Tenant <- MCTenant
    Nodes = {n1, n2}
    Validators = {n1, n2}
    Extrinsics <- MCExtrinsics
    None = None
    MaxBlock = 2
    MaxExtrinsics = 2
    PoolMayRefuse = TRUE
VIEW Storages
INVARIANT TypeOK
PROPERTY ImplementsContract
CHECK_DEADLOCK FALSE
