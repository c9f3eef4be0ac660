CONSTANTS
    t1 = t1
    t2 = t2
    s1 = s1
    s2 = s2
    b1 = b1
    p1 = p1
    i1 = i1
    v1 = v1
    v2 = v2
    NotFound = NotFound
    NoRead = NoRead
    NoCall = NoCall
    Torn = Torn
    NoScan = NoScan
    NumBuckets = 2
    BucketOf <- MCBucketOf
    Namespace <- MCNamespace
    Clients = {t1, t2}
    Snapshots = {s1, s2}
    Sums = {b1, p1, i1}
    Vals = {v1, v2}
    Calls <- MCCallsPackfile
    AtomicKeys = {p1}
    MaxCalls = 2
    MaxCrashes = 1
SPECIFICATION Spec
PROPERTY KVStoreRefined
