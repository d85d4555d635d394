CONSTANTS
    a = a
    b = b
    c = c
    s = s
    l1 = l1
    l2 = l2
    l3 = l3
    l4 = l4
    NoLease = NoLease
    Proc = {a, b, c}
    Lease = {l1, l2, l3}
    Role <- RecoveryRoles
    Resource <- Cpus
    MaxCost = 1
    Claims <- LightPrices
    Nested = {}
    Ceilings <- OneSlot
    Lapses = FALSE
    Contention = FALSE
    ParentWaits = TRUE
SYMMETRY Interchangeable
SPECIFICATION Spec
INVARIANTS WithinCeiling
CHECK_DEADLOCK FALSE
