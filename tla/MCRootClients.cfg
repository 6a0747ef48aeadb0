SPECIFICATION RootSpec
CONSTANTS
    Admin = Admin
    alice = alice
    Empty = Empty
    NotInt = NotInt
    Missing = Missing
    Key <- Accounts
    MaxInt = 3
    Call <- Calls
    RootHttp <- ClientRequests
    Http <- FinanceRequests
    Req = {r1, r2}
    MaxCrashes = 1
INVARIANT ToldTheTruth
PROPERTY ClientSettled
CHECK_DEADLOCK FALSE
