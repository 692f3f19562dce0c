SPECIFICATION Spec
CONSTANTS
    p1 = p1
    p2 = p2
    Unknown = Unknown
    Places = {p1, p2}
    Width = 3
    KeepaliveIds = {1, 2}
    MaxActions = 2
    MaxSending = 1
    MoveEarly = TRUE
SYMMETRY Symmetry
INVARIANTS
    PositionsAgree
CHECK_DEADLOCK FALSE
