SPECIFICATION FairSpec
CONSTANTS
    Documents = {d1}
    Emails = {e1}
    Replicas = {w1, w2, w3}
    Renders = {r1, r2}
    None = None
    MaxAttempts = 2
    MaxFaults = 4
INVARIANTS
    TypeOK
    OutcomesAgree
PROPERTIES
    JobsSettle
    KeepsPromise
\* When every job is settled nothing is left to do.
CHECK_DEADLOCK FALSE
