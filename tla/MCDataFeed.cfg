SPECIFICATION FairSpec
CONSTANTS
    live = live
    run = run
    w1 = w1
    w2 = w2
    w3 = w3
    Events <- MCEvents
    LegalHold <- MCLegalHold
    Live = live
    Runs <- NoRuns
    Workers <- ContendingWorkers
    LaneOf <- ContendingLaneOf
    BatchLimit = 2
    AlertAttempt = 2
    MaxFaults = 2
INVARIANTS
    TypeOK
    SingleHolder
    OneOutcomePerLease
    RetriesStayInBudget
    LiveTombstoneSuppresses
PROPERTY LiveSettles
CHECK_DEADLOCK FALSE
