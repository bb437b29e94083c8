SPECIFICATION Spec
CONSTANTS
    Replicas = {w1}
    Calls = {c1}
    Sessions = {s1}
    Authorities = {a1}
    Initial = a1
    None = None
    MaxRequests = 2
    MaxAttempts = 2
    MaxFaults = 0
INVARIANTS
    ActiveMayLogIn
CHECK_DEADLOCK FALSE
