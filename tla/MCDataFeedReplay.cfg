SPECIFICATION Spec
CONSTANTS
    live = live
    run = run
    w1 = w1
    w2 = w2
    w3 = w3
    Events <- MCEvents
    LegalHold <- MCLegalHold
    Live = live
    Runs <- OneRun
    Workers <- ReplayWorkers
    LaneOf <- ReplayLaneOf
    BatchLimit = 1
    AlertAttempt = 2
    MaxFaults = 1
PROPERTY Refines
CHECK_DEADLOCK FALSE
