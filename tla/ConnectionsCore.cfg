SPECIFICATION ConnectionsSpec
CONSTANTS
    Node = {1, 2, 3, 4}
    Plan <- CorePlan
    Garbled = Garbled
    MaxEarly = 3
INVARIANTS
    ConnectionsTypeOK
    MeshedUnlessLost
PROPERTIES
    Starts
CHECK_DEADLOCK FALSE
