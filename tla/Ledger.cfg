SPECIFICATION MCSpec
CONSTANTS
    o1 = o1
    o2 = o2
    c1 = c1
    c2 = c2
    Spent = Spent
    NoCoinEntry = NoCoinEntry
    NoEntry = NoEntry
    n1 = n1
    k1 = k1
    k2 = k2
    Null = Null
    Outpoints = {o1, o2}
    Coins = {c1, c2}
    InvalidOutpoints = {o2}
    Nullifiers = {n1}
    Commitments = {k1, k2}
    MaxHeight = 3
    MaxTree = 2
SYMMETRY Symmetry
INVARIANTS
    NoLogicError
    NoDoubleSpend
    AnchorsMatchChain
PROPERTIES
    ImplementsLedger
