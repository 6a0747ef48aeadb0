SPECIFICATION Spec
CONSTANTS
    None = None
    Name = {"w"}
    Pass = {p, q}
    Rec = {"r"}
    Val = {1}
    Clients <- MCClients
SYMMETRY PassSymmetry
INVARIANTS StillReadable OpenOnce 
PROPERTY DeletedWithItsKey
CHECK_DEADLOCK FALSE
