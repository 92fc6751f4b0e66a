\* Two places, two processes, two names, two files, two changes by users, one torn write;
\* three blocks fit a report.
SPECIFICATION Spec
CONSTANTS
    Nodes = {n1, n2}
    Ids = {a1, a2}
    NameCount = 2
    None = None
    BodyLimit = 3
    UserFiles <- TwoFiles
    MaxChanges = 2
    MaxCuts = 1
SYMMETRY Symmetry
INVARIANTS TypeOK ListedWasPut RecordIsDirectory IndexIsExact
PROPERTIES NamesStay
CHECK_DEADLOCK FALSE
