CONSTANTS
    r1 = r1
    l1 = l1
    w1 = w1
    Sweeper = Sweeper
    NoRoot = NoRoot
    Roots = {r1}
    Landers = {l1}
    Workers = {w1}
    MaxLandings = 2
    Budgets <- Troubles
SPECIFICATION FairSpec
INVARIANTS TypeOK InFlightIsRunning OneScheduledPublish
PROPERTIES EveryLandingAccounted
CHECK_DEADLOCK FALSE
