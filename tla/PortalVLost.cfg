\* A pool that may refuse: the assumption of PortalLive.cfg is needed.
SPECIFICATION LiveSpec
CONSTANTS
    a1 = a1
    a2 = a2
    p1 = p1
    p2 = p2
    c1 = c1
    Accounts = {a1, a2}
    PortalIds = {p1, p2}
    Calls = {c1}
    UnsignedValid = {c1}
    Tenant <- MCTenant
    Nodes = {n1, n2}
    Validators = {n1}
    Extrinsics <- MCExtrinsics
    None = None
    MaxBlock = 1
    MaxExtrinsics = 4
    PoolMayRefuse = TRUE
PROPERTY ScheduledIsExecuted
CHECK_DEADLOCK FALSE
