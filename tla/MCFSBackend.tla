---------------------------- MODULE MCFSBackend ----------------------------
(* Instantiates FSBackend for TLC: two clients, a snapshot s1 written by   *)
(* Commit and Transaction.Commit and deleted, a snapshot s2 written by     *)
(* PutSnapshot, and one blob, packfile and index checksum (each its own    *)
(* model value, so each names one path), and a listing of every kind.    *)
EXTENDS FSBackend, TLC

CONSTANTS t1, t2, s1, s2, b1, p1, i1, v1, v2

Call(o, k, v) == [op |-> o, k |-> k, v |-> v]

\* The two clients are interchangeable: they are only indices, Init gives
\* them the same state, and every property quantifies over all of them.
MCSymmetry == Permutations({t1, t2})

\* Every method of the backend, on the keys it is called with.
MCCalls ==
    { Call("Create", s1, v1),
      Call("Commit", s1, v1), Call("TxCommit", s1, v2),
      Call("DeleteSnapshot", s1, v1), Call("GetSnapshot", s1, v1),
      Call("PutSnapshot", s2, v1),
      Call("PutBlob", b1, v1), Call("GetBlob", b1, v1), Call("DeleteBlob", b1, v1),
      Call("PutPackfile", p1, v1), Call("GetPackfile", p1, v1),
      Call("DeletePackfile", p1, v1),
      Call("PutIndex", i1, v1), Call("GetIndex", i1, v1), Call("DeleteIndex", i1, v1),
      Call("GetSnapshots", s1, v1), Call("GetBlobs", b1, v1),
      Call("GetPackfiles", p1, v1), Call("GetIndexes", i1, v1) }

\* Two buckets: the two snapshots are in different ones, so that a listing
\* reads them at different times.
MCBucketOf == [k \in {s1, s2, b1, p1, i1} |-> IF k \in {s2, p1} THEN 1 ELSE 0]

\* The keys each Get<Kind>s lists: its own kind's directory.
MCNamespace == [GetSnapshots |-> {s1, s2}, GetBlobs |-> {b1},
                GetPackfiles |-> {p1}, GetIndexes |-> {i1}]

\* A packfile written and read.
MCCallsPackfile == { Call("PutPackfile", p1, v1), Call("GetPackfile", p1, v1) }
=============================================================================
