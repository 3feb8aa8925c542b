CONSTANTS
    Services = {s1, s2}
    Unnamed = {}
    Paths = {p1, p2}
    Conns = {c1}
    Requests = {r1}
    MaxAnswers = 1
    None = None
SPECIFICATION Spec
INVARIANT ObjectsAreExposed
CHECK_DEADLOCK FALSE
