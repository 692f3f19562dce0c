SPECIFICATION Spec
CONSTANTS
    player = player
    mob = mob
    l1 = l1
    l2 = l2
    Entities = {player, mob}
    Players = {player}
    Layers = {l1, l2}
    Positions = {0, 1, 2, 4}
    ChunkWidth = 2
    Far = 2
    ViewRadius = 1
    NoLayer = NoLayer
    NotShown = NotShown
    Elsewhere = Elsewhere
    MaxSurfaceArea = 32
    OpsPerTick = 3
    Avoided <- AvoidedButShow
SYMMETRY Symmetry
INVARIANTS
    ClientSeesEntities
