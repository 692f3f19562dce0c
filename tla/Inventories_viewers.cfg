SPECIFICATION Spec
CONSTANTS
    Kinds = {k1}
    Air = Air
    MaxStack = 2
    Clients = {c1, c2}
    Box = Box
    NotTold = NotTold
    BoxSize = 1
    Main = 1
    MaxPackets = 0
    MaxCalls = 2
    Avoided = {"overwrite", "reopen", "crossing", "drop", "split", "cursor", "hurry", "thaw"}
INVARIANT WindowAgrees
CHECK_DEADLOCK FALSE
