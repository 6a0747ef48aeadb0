SPECIFICATION Spec
CONSTANTS
    Admin = Admin
    alice = alice
    Empty = Empty
    NotInt = NotInt
    Missing = Missing
    Key <- Accounts
    MaxInt = 3
    Call <- Calls
    Http <- SameName
    Req = {r1, r2}
    MaxCrashes = 1
INVARIANT RegistrationHeals
CHECK_DEADLOCK FALSE
