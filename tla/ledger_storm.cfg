CONSTANTS
    a = a
    b = b
    c = c
    s = s
    l1 = l1
    l2 = l2
    l3 = l3
    l4 = l4
    NoLease = NoLease
    Proc = {a, b, s}
    Lease = {l1, l2}
    Role <- AnyRoles
    Resource <- Cpus
    MaxCost = 1
    Claims <- DockerPrices
    Nested = {}
    Ceilings <- Resized
    Lapses = TRUE
    Contention = TRUE
    ParentWaits = TRUE
SYMMETRY LeaseSymmetry
SPECIFICATION Spec
INVARIANTS TypeOK NoOvertaking
PROPERTIES LineIsLeftOnce
CHECK_DEADLOCK FALSE
