SPECIFICATION FairSpec
CONSTANTS
    Findings = {f1}
    Uploads = {u1, u2}
    Workers = {w1, w2}
    None = None
    MaximumAttempts = 2
    MaxCAPs = 2
    MaxFaults = 2
INVARIANTS
    TypeOK
    SubmittedAwaitsScan
    ReviewSeesCleanLatest
    ClosureIsJustified
    DecidedOnce
    OutboxMatchesScan
PROPERTIES
    ScanOutcomeFinal
    KeepsPromise
    ScanAnswers
\* A finding that nobody acts on stays as it is.
CHECK_DEADLOCK FALSE
