SPECIFICATION ShutdownSpec
CONSTANTS
    Order <- SomeNodes
    Core <- SomeCore
    Links <- SomeLinks
    Down <- SomeDown
    MaxWrites = 2
    MaxRounds = 1
INVARIANTS
    ShutdownTypeOK
    CleanUnlessBusy
    NoAnswerDue
PROPERTIES
    EndsUnlessStuck
CHECK_DEADLOCK FALSE
