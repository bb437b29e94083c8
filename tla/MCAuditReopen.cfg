SPECIFICATION Spec
CONSTANTS
    Responses = {r1}
    PotentialFindings = {p1, p2}
    Versions = {v1, v2}
    Reports = {a, b}
    Transactions = {t1, t2}
    None = None
    MaxNumber = 2
SYMMETRY Symmetry
CHECK_DEADLOCK FALSE
INVARIANTS
    ReopenIsFieldStageOnly
