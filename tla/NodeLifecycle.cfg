SPECIFICATION Spec
CONSTANTS
    a = a
    b = b
    NoNode = NoNode
    Nodes <- MCNodes
    Listed <- MCListed
    MaxOutbound = 1
    MaxInbound = 1
    Flood = 0
INVARIANTS
    NoUseAfterDelete
    SlotsConserved
    
PROPERTIES
    ClosedNodeDeleted
CHECK_DEADLOCK FALSE
