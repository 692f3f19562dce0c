CONSTANTS
    Limit = 2
    MaxBatch = 1
    MaxBytes = 2
SPECIFICATION FairSpec
PROPERTY SentAsSoonAsPossible
CHECK_DEADLOCK FALSE
