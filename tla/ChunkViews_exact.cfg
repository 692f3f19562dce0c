SPECIFICATION Spec
CONSTANTS
    c1 = c1
    c2 = c2
    l1 = l1
    l2 = l2
    p1 = p1
    p2 = p2
    b1 = b1
    b2 = b2
    Clients = {c1, c2}
    Layers = {l1, l2}
    Positions = {p1}
    Views <- InOrOut
    SpawnView <- Nowhere
    Blocks = {b1, b2}
    InsertedBlock = b1
    NoLayer = NoLayer
    Absent = Absent
    NoBlock = NoBlock
    CounterWidth = 4
    OpsPerTick = 4
    MaxReplaced = 0
    Calls <- UsualCalls
    QuietLeave = TRUE
SYMMETRY Symmetry
INVARIANTS
    TypeOK
    ViewerCountExact
    ClientSeesView
    MessagesMatchChunks
