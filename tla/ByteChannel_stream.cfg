SPECIFICATION FairSpec
CONSTANTS
    Limit = 3
    MaxBatch = 4
    MaxBytes = 6
INVARIANTS TypeOK WithinLimit FifoExact StreamOrdered Conserved
PROPERTIES ImplementsStream DrainedUnlessMissed
CHECK_DEADLOCK FALSE
