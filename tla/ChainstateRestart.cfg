SPECIFICATION Spec
CONSTANTS
    g = g
    a1 = a1
    a2 = a2
    b1 = b1
    b2 = b2
    x = x
    y = y
    z = z
    w = w
    n = n
    Null = Null
    Blocks <- MCBlocks
    Genesis = g
    Parent <- MCParent
    nHeight <- MCnHeight
    MaxHeight = 3
    Txs <- MCTxs
    Notes <- MCNotes
    Outpoints <- MCOutpoints
    Nullifiers = {n}
INVARIANT
    StartsAgain
