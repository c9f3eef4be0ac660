------------------------------ MODULE MCPacker ------------------------------
(* Instantiates Packer for TLC: two workers (channel capacity 5), a chunk  *)
(* as large as the packfile threshold, an object and a file of size 1, a   *)
(* header of size 1, and three Put* calls before Commit.                   *)
EXTENDS Packer

CONSTANTS c1, o1, f1, h1

MCMsgs == { [type |-> "chunk",  mac |-> c1, size |-> 2],
            [type |-> "object", mac |-> o1, size |-> 1],
            [type |-> "file",   mac |-> f1, size |-> 1] }

\* For the liveness run: a chunk that fills a packfile and a file.
MCMsgsLive == { [type |-> "chunk", mac |-> c1, size |-> 2],
                [type |-> "file",  mac |-> f1, size |-> 1] }
=============================================================================
