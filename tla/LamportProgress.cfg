SPECIFICATION FairHSpec
CONSTANTS
    Node = {1, 2}
    Watched = {"clock"}
    MaxCalls <- OneEach
PROPERTIES
    EnterUnlessMissed
CHECK_DEADLOCK FALSE
