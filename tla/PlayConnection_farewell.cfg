SPECIFICATION FairSpec
CONSTANTS
    c1 = c1
    c2 = c2
    Nobody = Nobody
    Clients = {c1}
    InLimit = 1
    Costs = {1}
    MaxFrames = 1
PROPERTY FarewellSent
