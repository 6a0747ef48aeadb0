SPECIFICATION ChannelSpec
CONSTANTS
    Admin = Admin
    alice = alice
    bob = bob
    Empty = Empty
    NotInt = NotInt
    Key <- Accounts
    MaxInt = 3
    Call <- EveryCall
    Tx = {t1, t2, t3}
    Peer = {p1, p2}
SYMMETRY TxPeerSymmetry
INVARIANTS TypeOK VersionsCoherent SupplyConserved OpenedOnce
PROPERTIES NoDoubleSpend Serializable
