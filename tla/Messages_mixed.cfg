SPECIFICATION Spec
CONSTANTS
    Globals = 2
    At <- Spots
    MaxSurfaceArea = 32
    ExtraRadius = 2
    Views <- Around
    MaxSends = 5
    Apart = FALSE
INVARIANTS
    LocalExact
