CONSTANTS
    a = a
    b = b
    a1 = a1
    a2 = a2
    a3 = a3
    b1 = b1
    b2 = b2
    Calls <- FiveCallers
    Tenants = {a, b}
    TenantOf <- FiveOfTwo
    Global = 3
    PerTenant = 1
    MaxQueue = 3
    ToolSlots = 1
    ClusterCapacity = 3
    Bootstrapped = TRUE
SPECIFICATION Spec
INVARIANTS
    TypeOK
    SlotsAccounted
    NobodyWaitsOnAnEmptyPool
PROPERTIES
    ReserveKept
