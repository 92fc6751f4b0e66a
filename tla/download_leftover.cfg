\* A left-over task reports into the next download.
SPECIFICATION Spec
CONSTANTS
    Peers = {me, p1, p2}
    Self = me
    None = None
    Setups <- Alike
    FileSize = 3
    Downloads = 2
    MayHang = FALSE
    MayCorrupt = FALSE
INVARIANTS ShowsLatest
CHECK_DEADLOCK FALSE
