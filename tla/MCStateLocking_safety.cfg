CONSTANTS
    t1 = t1
    t2 = t2
    c1 = c1
    o1 = o1
    f1 = f1
    d1 = d1
    b1 = b1
    p1 = p1
    p2 = p2
    NoOwner = NoOwner
    NoCall = NoCall
    Threads <- MCThreads
    SetBlobs <- MCSetBlobs
    LookupBlobs <- MCLookupBlobs
    Packfiles <- MCPackfiles
    LookupOps = {"exists", "subpart", "packfile"}
    MaxCalls = 2
SPECIFICATION Spec
INVARIANT TypeOK
INVARIANT NoDataRace
INVARIANT WaitsOnRunnable
