CONSTANTS
    n1 = n1
    n2 = n2
    None = None
    Node = {n1, n2}
    ReqId = {"r1", "r2"}
    Preordered <- MCPreordered
    ConnLimit = 2
    MaxConns = 2
SPECIFICATION NetworkerSpec
INVARIANT TimersCleanable
PROPERTIES CurrentNodesAsked OthersUndisturbed
