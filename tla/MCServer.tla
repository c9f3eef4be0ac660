------------------------------ MODULE MCServer ------------------------------
(* Instantiates Server for TLC: the server's repository at l0, a second    *)
(* location l1 a client may create or open, and one checksum k1.           *)
EXTENDS Server

CONSTANTS l0, l1, k1, other

Req(t, l, k) == [type |-> t, loc |-> l, key |-> k]

\* Every request type handleConnection serves, and one it has no case for.
MCRequests ==
    { Req("ReqCreate", l1, k1), Req("ReqOpen", l1, k1), Req("ReqClose", l1, k1),
      Req("ReqGetStates", l1, k1), Req("ReqPutState", l1, k1),
      Req("ReqGetState", l1, k1), Req("ReqDeleteState", l1, k1),
      Req("ReqGetPackfiles", l1, k1), Req("ReqPutPackfile", l1, k1),
      Req("ReqGetPackfile", l1, k1), Req("ReqGetPackfileBlob", l1, k1),
      Req("ReqDeletePackfile", l1, k1), Req(other, l1, k1) }

\* A client that writes a packfile and reads it back.
MCRequestsPackfile ==
    { Req("ReqPutPackfile", l1, k1), Req("ReqGetPackfile", l1, k1) }
=============================================================================
