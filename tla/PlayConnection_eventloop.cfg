SPECIFICATION Spec
CONSTANTS
    c1 = c1
    c2 = c2
    Nobody = Nobody
    Clients = {c1, c2}
    InLimit = 2
    Costs = {1, 2}
    MaxFrames = 2
SYMMETRY Symmetry
INVARIANTS
    TypeOK
    PermitsConserved
    HandledInOrder
