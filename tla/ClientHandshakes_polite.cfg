SPECIFICATION Spec
CONSTANTS
    p1 = p1
    p2 = p2
    Unknown = Unknown
    Places = {p1, p2}
    Width = 3
    KeepaliveIds = {1, 2}
    MaxActions = 2
    MaxSending = 1
    MoveEarly = FALSE
SYMMETRY Symmetry
INVARIANTS
    TypeOK
    UnconfirmedInOrder
    PoliteStays
    ServerPrevails
    PositionsAgree
    ActionsAccounted
CHECK_DEADLOCK FALSE
