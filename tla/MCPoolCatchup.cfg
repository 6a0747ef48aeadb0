CONSTANTS
    n1 = n1
    n2 = n2
    n3 = n3
    n4 = n4
    None = None
    Node = {n1, n2, n3, n4}
    ReqId <- MCReqId
    Preordered <- MCPreordered
    ConnLimit = 5
    Starts <- MCStarts
    MaxRefused = 1
    MaxOpens = 2
SPECIFICATION Spec
INVARIANTS SyncedWithLedger CatchupNoUnderflow NoTimerLeft
PROPERTY StatusPhaseEnds
CHECK_DEADLOCK FALSE
