CONSTANTS
    s1 = s1
    s2 = s2
    s3 = s3
    NoOwner = NoOwner
    Snaps <- MCSnaps
    Timestamp <- MCTimestamp
    Match <- MCMatch
    MaxConcurrency = 2
SPECIFICATION Spec
INVARIANT TypeOK
INVARIANT ResultIsFound
INVARIANT LatestIsNewest
