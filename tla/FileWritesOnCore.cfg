SPECIFICATION FilesSpec
CONSTANTS
    A1 = A1  A2 = A2  B1 = B1  C1 = C1  F1 = F1  F2 = F2  None = None
    Node <- Nodes
    Members <- Arrays
    File <- Files
    Target <- Names
    Contents <- Lines
    IntHalf = 8
    MaxSaves <- OneEach
    MaxTouches = 0
INVARIANTS
    WritesOnCoreOnly
CHECK_DEADLOCK FALSE
