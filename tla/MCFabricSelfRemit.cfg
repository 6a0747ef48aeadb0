SPECIFICATION ChannelSpec
CONSTANTS
    Admin = Admin
    alice = alice
    bob = bob
    Empty = Empty
    NotInt = NotInt
    Key <- Accounts
    MaxInt = 3
    Call <- EveryCall
    Tx = {t1, t2}
    Peer = {p1}
INVARIANT RemitMovesMoney
