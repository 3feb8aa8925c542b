CONSTANTS
    Services = {s1, s2, s3}
    Unnamed = {s2, s3}
    Paths = {p1}
    Conns = {c1, c2}
    Requests = {r1}
    MaxAnswers = 2
    None = None
SPECIFICATION Spec
SYMMETRY Symmetry
INVARIANTS TypeOK  CrashOnlyIfShared OneReplyEach LiveIfExpected NamedIsMapped
CHECK_DEADLOCK FALSE
