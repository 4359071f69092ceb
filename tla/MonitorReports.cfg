SPECIFICATION MonitorSpec
CONSTANTS
    FrameKind <- AllKinds
    None = None
    MaxPushed = 2
    MaxFrames = 2
INVARIANTS
    MonitorTypeOK
    ReportedInOrder
    HeardInOrder
    HandleClosedOnce
PROPERTIES
    JoinsUnlessStalled
    LeavesUnlessAlone
CHECK_DEADLOCK FALSE
