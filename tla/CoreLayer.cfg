SPECIFICATION FairCoreSpec
CONSTANTS
    Node = {1, 2, 3}
    MaxCalls <- OneAndOne
    Writes <- DifferenceAndProduct
    UPDATE_COUNT = 2
    IntHalf = 4
INVARIANTS
    CoreTypeOK
    ReplicasAgree
    ReadyAccounting
PROPERTIES
    ImplementsStore
    WriteFinishesUnlessMissed
CHECK_DEADLOCK FALSE
