CONSTANTS
    a = a
    b = b
    c = c
    s = s
    l1 = l1
    l2 = l2
    l3 = l3
    l4 = l4
    NoLease = NoLease
    Proc = {a, b, s}
    Lease = {l1, l2}
    Role <- RecoveryRoles
    Resource <- Cpus
    MaxCost = 1
    Claims <- LightPrices
    Nested = {}
    Ceilings <- OneSlot
    Lapses = FALSE
    Contention = FALSE
    ParentWaits = TRUE
SPECIFICATION FairSpec
PROPERTIES WaitersServed
CHECK_DEADLOCK FALSE
