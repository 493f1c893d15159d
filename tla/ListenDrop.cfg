SPECIFICATION Spec
CONSTANTS
    Peers = {p1, p2, p3}
    MaxLen = 1
    MaxSockets = 2
    CountMod = 8
    MaxConnects = 3
    NoPeer = NoPeer
CHECK_DEADLOCK FALSE
INVARIANTS
    SynDispatched
