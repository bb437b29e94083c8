SPECIFICATION FairSpec
CONSTANTS
    Replicas = {w1, w2}
    Calls = {c1}
    Sessions = {s1}
    Authorities = {a1, a2}
    Initial = a1
    None = None
    MaxRequests = 2
    MaxAttempts = 2
    MaxFaults = 1
INVARIANTS
    TypeOK
    LiveSessionsAreCurrent
    ProviderAgrees
PROPERTIES
    RequestsSettle
    KeepsPromise
\* A membership that nobody asks anything of stays as it is.
CHECK_DEADLOCK FALSE
