SPECIFICATION HSpec
CONSTANTS
    Node = {1, 2}
    Watched = {"answer", "queue", "clock"}
    MaxCalls <- TwoAndOne
INVARIANTS
    TypeOK
    QueuesSettle
    MutexUnlessRaced
CHECK_DEADLOCK FALSE
