CONSTANTS
    c1 = c1
    f1 = f1
    Blobs <- MCBlobs
    MaxSessions = 3
    MaxRestarts = 1
SPECIFICATION Spec
INVARIANT CommittedRefsLocatable
