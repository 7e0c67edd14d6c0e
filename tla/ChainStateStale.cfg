SPECIFICATION Spec
CONSTANTS
    g = g
    a1 = a1
    a2 = a2
    a3 = a3
    b2 = b2
    b3 = b3
    r1 = r1
    None = None
    Genesis = g
    Blocks <- MCBlocks
    Parent <- MCParent
    Work <- MCWork
    Addr <- MCAddr
    Bad = {}
    Rejected = {r1}
    Stalled = {}
    Operated = {a1, a2, b2}
    Reconsidered = {}
    OperatorPoints <- Anywhere
    Restarts = FALSE
INVARIANT ActiveChainValid
