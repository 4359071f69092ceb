SPECIFICATION FairCoreSpec
CONSTANTS
    Node = {1, 2}
    MaxCalls <- OneAndOne
    Writes <- OneSum
    UPDATE_COUNT = 2
    IntHalf = 8
PROPERTIES
    WriteFinishes
CHECK_DEADLOCK FALSE
