SPECIFICATION FairFilesSpec
CONSTANTS
    A1 = A1  A2 = A2  B1 = B1  C1 = C1  F1 = F1  F2 = F2  None = None
    Node <- Nodes
    Members <- Arrays
    File <- Files
    Target <- Names
    Contents <- Short
    IntHalf = 8
    MaxSaves <- TwoAndOne
    MaxTouches = 1
INVARIANTS
    FilesTypeOK
    NoSaveForgotten
    
PROPERTIES
    SavesRunUnlessDropped
CHECK_DEADLOCK FALSE
