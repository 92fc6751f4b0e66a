\* One download, every choice of the block sizes 1 and 2; peers stop, delete or change files.
SPECIFICATION Spec
CONSTANTS
    Peers = {me, p1, p2}
    Self = me
    None = None
    Setups <- AllOnceOrOneTwice
    FileSize = 3
    Downloads = 1
    MayHang = FALSE
    MayCorrupt = TRUE
SYMMETRY Symmetry
INVARIANTS TypeOK FailsForCause SharesAreFair NoFalseAlarm
CHECK_DEADLOCK FALSE
