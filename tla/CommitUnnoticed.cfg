SPECIFICATION Spec
CONSTANTS
    Users = {u1, u2}
    Ids = {i1, i2}
    Tags = {t}
    Values = {v1, v2}
    Nobody = Nobody
    Closed = Closed
    NoTag = NoTag
    NoLoc = NoLoc
    Faults = {"down"}
    u1 = u1
    u2 = u2
    i1 = i1
    i2 = i2
    t = t
    v1 = v1
    v2 = v2
PROPERTIES
    CommitDone
