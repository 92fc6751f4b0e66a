\* Two downloads, the second beside the left-over tasks of the first; a peer may hang.
SPECIFICATION FairSpec
CONSTANTS
    Peers = {me, p1}
    Self = me
    None = None
    Setups <- Alike
    FileSize = 3
    Downloads = 2
    MayHang = TRUE
    MayCorrupt = TRUE
INVARIANTS CountsAreExact
PROPERTIES TransferSpec Ends
CHECK_DEADLOCK FALSE
