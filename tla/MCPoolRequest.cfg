CONSTANTS
    n1 = n1
    n2 = n2
    n3 = n3
    n4 = n4
    Unknown = Unknown
    None = None
    Node = {n1, n2, n3, n4}
    ReqId = {"r"}
    Preordered <- MCPreordered
    ConnLimit = 5
    Req <- Requests
    Ledger <- OldAndNew
    Lies = {"lie"}
    ReadNodes = 2
    Now = 2
    Threshold = 0
    MaxReplies <- TwoUnlessRead
SPECIFICATION Spec
INVARIANTS AnsweredOnce AnswerCommitted AloneOnlyIfFresh NoUnderflow ToleratesF
PROPERTIES RepliedInTime Answered
CHECK_DEADLOCK FALSE
