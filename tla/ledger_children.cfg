CONSTANTS
    a = a
    b = b
    c = c
    s = s
    l1 = l1
    l2 = l2
    l3 = l3
    l4 = l4
    NoLease = NoLease
    Proc = {a, b, c, s}
    Lease = {l1, l2, l3}
    Role <- FamilyRoles
    Resource <- Cpus
    MaxCost = 2
    Claims <- FamilyPrices
    Nested <- NestedPrices
    Ceilings <- ThreeCpus
    Lapses = FALSE
    Contention = FALSE
    ParentWaits = TRUE
SYMMETRY FamilySymmetry
SPECIFICATION Spec
INVARIANTS WithinCeiling CoverExact NoOrphanChild Exact NoStrandedHead
CHECK_DEADLOCK FALSE
