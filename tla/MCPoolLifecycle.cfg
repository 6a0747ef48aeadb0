SPECIFICATION FairSpec
CONSTANTS
    Name = {"main"}
    Req = {"r1", "r2"}
    Clients <- AnyAndCareful
    MaxPools = 2
INVARIANT NoStrayAck
PROPERTIES CloseAnswered CallsAnswered
CHECK_DEADLOCK FALSE
