\* Two nodes, two requests in flight, saves succeed.
SPECIFICATION Spec
CONSTANTS
    Nodes = {n1, n2}
    Resources = {r1}
    Handlers = {h1, h2}
    Janitor = janitor
    None = None
    TTL = 2
    MaxTime = 3
    SaveMayFail = FALSE
    Reads = {"list", "snapshot"}
SYMMETRY Symmetry
INVARIANTS TypeOK OfflineSurvives AnswersAreFresh
PROPERTIES DirectorySpec
CHECK_DEADLOCK TRUE
