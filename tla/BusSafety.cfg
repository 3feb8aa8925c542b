CONSTANTS
    system = system
    session = session
    b1 = b1
    b2 = b2
    c1 = c1
    c2 = c2
    Buses = {b1, b2}
    Conns = {c1, c2}
    Handles = {h1, h2, h3, h4, h5}
    Names = {n1, n2}
    Types <- OneType
    BusType <- SessionBuses
    ConnType <- SessionConns
    NamesReused = TRUE
    MaxInbox = 1
    Callers = {}
    None = None
SPECIFICATION Spec
SYMMETRY Symmetry
INVARIANTS TypeOK RouteOwner KeepsRunning NoDangling LostIsNoticed
PROPERTY OnlyInitLosesWakeups
CHECK_DEADLOCK FALSE
