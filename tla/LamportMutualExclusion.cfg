SPECIFICATION Spec
CONSTANTS
    Node = {1, 2}
    MaxCalls <- OneEach
INVARIANTS
    MutualExclusion
CHECK_DEADLOCK FALSE
