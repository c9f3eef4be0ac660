CONSTANTS
    l0 = l0
    l1 = l1
    k1 = k1
    other = other
    Nil = Nil
    Conns = {c1}
    Locations = {l0, l1}
    ServerLoc = l0
    Keys = {k1}
    Requests <- MCRequests
    MaxReqs = 3
    Entries = {"Server", "Stdio"}

SPECIFICATION Spec

INVARIANT TypeOK
PROPERTY ConnectionReturns
