SPECIFICATION Spec
CONSTANTS
    NumBlocks = 2
    Words = 3
    FifoDepth = 2
    Tries = 2
\* The system stops when no card answers, and when a CRC error is polled over.
CHECK_DEADLOCK FALSE
INVARIANTS WaitsForCard
