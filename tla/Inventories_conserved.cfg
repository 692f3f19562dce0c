SPECIFICATION Spec
CONSTANTS
    Kinds = {k1, k2}
    Air = Air
    MaxStack = 2
    Clients = {c1}
    Box = Box
    NotTold = NotTold
    BoxSize = 1
    Main = 1
    MaxPackets = 2
    MaxCalls = 1
    Avoided = {"split"}
SYMMETRY Symmetry
INVARIANTS
    ItemsConserved
CHECK_DEADLOCK FALSE
