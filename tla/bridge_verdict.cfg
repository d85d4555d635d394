\* The same, for what run_finality.py says of every run.
SPECIFICATION Spec
CONSTANTS
    Requests = {1, 2}
    Budget <- Troubles
PROPERTIES FirstVerdictStands
CHECK_DEADLOCK FALSE
