CONSTANTS
    l0 = l0
    l1 = l1
    k1 = k1
    other = other
    Nil = Nil
    Conns = {c1}
    Locations = {l0, l1}
    ServerLoc = l0
    Keys = {k1}
    Requests <- MCRequestsPackfile
    MaxReqs = 2
    Entries = {"Server"}

SPECIFICATION Spec

INVARIANT NoPanic
