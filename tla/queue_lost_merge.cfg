CONSTANTS
    b1 = b1
    b2 = b2
    a1 = a1
    a2 = a2
    Nobody = Nobody
    Branches = {b1}
    Admitters = {a1}
    Ids = {1, 2}
    MaxAttempts = 2
    EntriesPerCycle = 2
    MaxWork = 1
    Scenarios <- LostMerge
SPECIFICATION Spec
INVARIANTS WithdrawnNeverLanded
