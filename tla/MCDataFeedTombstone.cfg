SPECIFICATION Spec
CONSTANTS
    live = live
    run = run
    w1 = w1
    w2 = w2
    w3 = w3
    Events <- MCEvents
    LegalHold <- MCLegalHold
    Live = live
    Runs <- OneRun
    Workers <- ReplayWorkers
    LaneOf <- ReplayLaneOf
    BatchLimit = 2
    AlertAttempt = 2
    MaxFaults = 1
PROPERTY TombstoneSuppressesReplay
CHECK_DEADLOCK FALSE
