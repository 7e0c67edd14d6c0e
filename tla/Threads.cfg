CONSTANTS
  w1 = w1
  w2 = w2
  m = m
  c1 = c1
  c2 = c2
  peer1 = peer1
  peer2 = peer2
  peer3 = peer3
  tx1 = tx1
  tx2 = tx2
  Workers = {w1, w2}
  Master = m
  Checks = {c1, c2}
  nBatchSize = 2
SPECIFICATION MCSpec
INVARIANTS
    VerdictSound
PROPERTIES
    WaitReturns
    
    
    Arrives
