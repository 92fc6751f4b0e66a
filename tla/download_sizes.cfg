\* Two holders with different block sizes.
SPECIFICATION Spec
CONSTANTS
    Peers = {me, p1, p2}
    Self = me
    None = None
    Setups <- OneOrTwo
    FileSize = 2
    Downloads = 1
    MayHang = FALSE
    MayCorrupt = FALSE
INVARIANTS BlocksMakeTheFile
CHECK_DEADLOCK FALSE
