CONSTANTS
    system = system
    session = session
    b1 = b1
    b2 = b2
    c1 = c1
    c2 = c2
    Buses = {b1, b2}
    Conns = {c1, c2}
    Handles = {h1, h2, h3}
    Names = {n1, n2}
    Types <- BothTypes
    BusType <- OneBusEach
    ConnType <- ConnOnEach
    NamesReused = TRUE
    MaxInbox = 1
    Callers = {b1, b2}
    None = None
SPECIFICATION FairSpec
INVARIANTS NodeMayExit 
 
CHECK_DEADLOCK FALSE
