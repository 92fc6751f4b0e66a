\* File errors and two handlers, calls of one node overlapping: what a crash must not
\* lose, and that the cleanup thread evicts alone (nobody queries).  Fairness, no symmetry.
SPECIFICATION FairSpec
CONSTANTS
    Nodes = {n1, n2}
    Resources = {r1}
    Handlers = {h1, h2}
    Janitor = janitor
    None = None
    TTL = 1
    MaxTime = 1
    SaveMayFail = TRUE
    Reads = {}
INVARIANTS AckedSurvives
PROPERTIES NoEarlyEviction LapsedAreEvicted
CHECK_DEADLOCK TRUE
