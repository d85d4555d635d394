\* One stage, two runs: each scenario of Troubles.
SPECIFICATION Spec
CONSTANTS
    Runs = {1, 2}
    Budgets <- Troubles
INVARIANTS TypeOK NoLiveAgentReaped
PROPERTIES OneVerdict SuccessCounts EveryRunSettles StageNotStranded EveryDriveEnds
