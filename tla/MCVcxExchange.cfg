SPECIFICATION FairSpec
CONSTANTS
    Kinds = {"issuance", "presentation"}
    MaxThreads = 2
    MaxFaults = 2
INVARIANTS Agreement OncePerFault
PROPERTY PollingEnds
CHECK_DEADLOCK FALSE
