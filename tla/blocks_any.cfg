\* All block sizes up to twice the buffer.
SPECIFICATION Spec
CONSTANTS
    Cap = 8
    Sizes <- UpToTwice
    Lengths <- Files
INVARIANTS TypeOK ServesJustIfAligned BlocksTileFile
CHECK_DEADLOCK FALSE
