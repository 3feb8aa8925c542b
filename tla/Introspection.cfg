CONSTANTS
    t1 = t1
    t2 = t2
    Interfaces = {i1, i2}
    Members = {m1, m2}
    Types = {t1, t2}
    Lists <- SomeLists
    Children = {c1}
    MaxChanges = 2
    None = None
SPECIFICATION Spec
INVARIANTS TypeOK IsDescribed ClientServed
CHECK_DEADLOCK FALSE
