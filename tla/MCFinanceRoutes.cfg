SPECIFICATION FairSpec
CONSTANTS
    Admin = Admin
    alice = alice
    Empty = Empty
    NotInt = NotInt
    Missing = Missing
    Key <- Accounts
    MaxInt = 3
    Call <- Calls
    Http <- EveryRoute
    Req = {r1, r2}
    MaxCrashes = 1
INVARIANTS IdentityBehindAccount SuccessIsReal BalancesExplained
PROPERTIES NoOverwrite AbandonedStaysOut Answered
CHECK_DEADLOCK FALSE
