\* The pool, the orphans, the wallet and the sporks may stop at their bounds.
SPECIFICATION MCSpec
CONSTANTS
    txF = txF
    txP = txP
    txX = txX
    txC = txC
    txQ = txQ
    txL = txL
    txS = txS
    txK = txK
    g = g
    a1 = a1
    a2 = a2
    b1 = b1
    b2 = b2
    nf = nf
    NoAnchor = NoAnchor
    txR = txR
    txA = txA
    txB = txB
    txE = txE
    peer1 = peer1
    peer2 = peer2
    NoPeer = NoPeer
    TxOrder <- MCTxOrder
    Parents <- MCParents
    Invalid = {txE, txL}
    Punished = {txE}
    Large = {txL}
    Peers = {peer1, peer2}
    MaxOrphans = 3
    MaxSessions = 2
    txU = txU
    txV = txV
    txW = txW
    NoBlock = NoBlock
    d1 = d1
    d2 = d2
    d3 = d3
    s1 = s1
    s2 = s2
    signer = signer
    node1 = node1
    node2 = node2
    NoSpork = NoSpork
INVARIANTS
    Minable
    TotalsRight
    OrphansTracked
    
    CaughtUpAgrees
    
    Check
    CollisionSlotTaken
    

    
CHECK_DEADLOCK FALSE
