SPECIFICATION MCSpec
CONSTANTS
    g = g
    a1 = a1
    a2 = a2
    a3 = a3
    b2 = b2
    b3 = b3
    r1 = r1
    None = None
    b1 = b1
    x = x
    y = y
    z = z
    w = w
    n = n
    NullBlock = NullBlock
    DiskBlocks <- MCDiskBlocks
    DiskGenesis = g
    DiskParent <- MCDiskParent
    DiskHeight <- MCDiskHeight
    DiskMaxHeight = 3
    DiskTxs <- MCDiskTxs
    DiskNotes = {a1, a2, b2}
    DiskOutpoints = {x, y, z, w}
    DiskNullifiers = {n}
    Genesis = g
    Blocks <- MCBlocks
    Parent <- MCParent
    Work <- MCWork
    Addr <- MCAddr
    Bad = {a3}
    Rejected = {r1}
    Stalled = {a1}
    Operated = {b2}
    Reconsidered = {a1}
    OperatorPoints <- Idle
    Restarts = TRUE
INVARIANTS
    CheckBlockIndex
    ActiveChainValid
    CoinsMatchBest
PROPERTIES
    NoLosingReorg
    BestChainWins
    
