SPECIFICATION FairSpec
CONSTANTS
    c1 = c1
    c2 = c2
    Nobody = Nobody
    Clients = {c1}
    InLimit = 3
    Costs = {1, 2, 4}
    MaxFrames = 4
INVARIANTS TickBounded QueuedHandledInTick
PROPERTY FramesHandled
