--------------------------- MODULE MCStateLocking ---------------------------
(* Instances of StateLocking for TLC: two threads, chunk and object blobs  *)
(* registered, lookups of every kind's method.                             *)
EXTENDS StateLocking

CONSTANTS t1, t2, c1, o1, f1, d1, b1, p1, p2

MCThreads == {t1, t2}
MCPackfiles == {p1, p2}

\* Registrations of a chunk and an object (the per-kind maps they write
\* are their own).
MCSetBlobs == {[kind |-> "chunk", c |-> c1], [kind |-> "object", c |-> o1]}

\* Registrations of an object and a file: SetPackfileForFile writes Objects.
MCSetBlobsFile == {[kind |-> "object", c |-> o1], [kind |-> "file", c |-> f1]}

\* Lookups of a chunk, an object, a directory and a data blob.
MCLookupBlobs == {[kind |-> "chunk", c |-> c1], [kind |-> "object", c |-> o1],
                  [kind |-> "directory", c |-> d1], [kind |-> "data", c |-> b1]}
=============================================================================
