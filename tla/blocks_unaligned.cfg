\* A block size that does not divide the buffer.
SPECIFICATION Spec
CONSTANTS
    Cap = 8
    Sizes <- NotDividing
    Lengths <- Files
INVARIANTS ServesWhatItIndexed
CHECK_DEADLOCK FALSE
