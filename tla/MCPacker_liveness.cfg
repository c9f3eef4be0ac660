CONSTANTS
    c1 = c1
    o1 = o1
    f1 = f1
    h1 = h1
    NumCPU = 2
    Msgs <- MCMsgsLive
    HeaderMac = h1
    HeaderSize = 1
    PackfileSize = 2
    MaxPuts = 2

SPECIFICATION Spec

PROPERTY CommitTerminates
