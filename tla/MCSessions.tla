----------------------------- MODULE MCSessions -----------------------------
(* Instantiates Sessions for TLC: a chunk, which the producer dedups with  *)
(* CheckChunk, and a file, which CheckFile never finds (its location goes  *)
(* to Objects), over three sessions and one restart.                       *)
EXTENDS Sessions

CONSTANTS c1, f1

MCBlobs == { [type |-> "chunk", mac |-> c1], [type |-> "file", mac |-> f1] }
=============================================================================
