SPECIFICATION FairSpec
CONSTANTS
    k1 = k1
    k2 = k2
    k3 = k3
    k4 = k4
    Connections = {k1, k2, k3, k4}
    MaxConnections = 2
    MaxPlayers = 3
    ChannelSize = 2
INVARIANTS
    TypeOK
    PermitsExact
    PlacesExact
    OneClientEach
PROPERTIES
    PermitReturned
    AcceptedInTheEnd
    SpawnedInTheEnd
