\* A withdrawal retried after a failed save.
SPECIFICATION Spec
CONSTANTS
    Nodes = {n1}
    Resources = {r1}
    Handlers = {h1}
    Janitor = janitor
    None = None
    TTL = 1
    MaxTime = 1
    SaveMayFail = TRUE
    Reads = {}
SYMMETRY Symmetry
INVARIANTS OfflineSurvives
CHECK_DEADLOCK TRUE
