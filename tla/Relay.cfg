\* Every part may stop: at its bound of blocks or connections.
SPECIFICATION MCSpec
CONSTANTS
    peer1 = peer1
    peer2 = peer2
    NoPeer = NoPeer
    Peers = {peer1, peer2}
    Preferred = {peer1}
    MaxHeight = 3
    Window = 1
    MaxTransit = 1
    MaxSessions = 2
INVARIANTS
    RestsNearTip
    FlightsAgree
PROPERTIES
    CatchesUp
    FlightEnds
CHECK_DEADLOCK FALSE
