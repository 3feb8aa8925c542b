CONSTANTS
    system = system
    session = session
    b1 = b1
    b2 = b2
    c1 = c1
    c2 = c2
    Buses = {b1, b2}
    Conns = {c1, c2}
    Handles = {h1, h2, h3, h4}
    Names = {n1, n2}
    Types <- OneType
    BusType <- SessionBuses
    ConnType <- SessionConns
    NamesReused = TRUE
    MaxInbox = 1
    Callers = {}
    None = None
SPECIFICATION FairSpec
PROPERTY DisconnectIsLocal
CHECK_DEADLOCK FALSE
