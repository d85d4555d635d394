SPECIFICATION Spec
CONSTANTS
    k1 = k1
    k2 = k2
    Lanes = {1, 2}
    Tickets = {k1, k2}
    Orchs = {1, 2, 3, 4}
    Entries = {1, 2, 3, 4}
    Webs = {1, 2}
    RepairCap = 1
    Scenarios <- RacesAndRepairs
INVARIANTS TypeOK OneHolder SettledIsOver
PROPERTIES NoEviction EntriesSettle SlotsComeBack
CHECK_DEADLOCK FALSE
