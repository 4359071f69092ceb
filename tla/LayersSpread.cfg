SPECIFICATION FairLayersSpec
CONSTANTS
    A2 = A2  A3 = A3  B2 = B2  C1 = C1  C2 = C2
    Node <- Cores
    LayerOne <- Ones
    LayerTwo <- Twos
    Parent <- ParentOf
    Children <- ChildrenOf
    Writes <- Sums
    UPDATE_COUNT = 1
    IntHalf = 8
    MaxCheckpoints = 2
    MaxSets = 1
    MaxBelow = 2
    None = None
INVARIANTS
    LayersTypeOK
    Downhill
PROPERTIES
    NeverBack
    Spreads
    Stops
CHECK_DEADLOCK FALSE
