SPECIFICATION Spec
CONSTANTS
    Kinds = {k1}
    Air = Air
    MaxStack = 2
    Clients = {c1}
    Box = Box
    NotTold = NotTold
    BoxSize = 1
    Main = 1
    MaxPackets = 2
    MaxCalls = 2
    Avoided = {"viewers", "overwrite", "reopen", "crossing", "drop", "cursor", "hurry", "thaw"}
INVARIANT ItemsConserved
CHECK_DEADLOCK FALSE
