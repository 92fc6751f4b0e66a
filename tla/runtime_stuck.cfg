\* A request hangs and the interface waits for its answer.
SPECIFICATION FairSpec
CONSTANTS
    Commands <- UpdateOrDownload
    MaxKeys = 2
    MayHang = TRUE
PROPERTIES ExitStops
CHECK_DEADLOCK FALSE
