------------------------------ MODULE Paginate ------------------------------
(***************************************************************************)
(* The page selection of repositorySnapshots (src/api/api_repository.go):  *)
(* offset and limit are uint32 query parameters, limit 0 means "all", and  *)
(* the page is a slice of the sorted headers.  The arithmetic keeps its    *)
(* width: a uint32 sum wraps modulo 2^Width (Width = 32 in the code; TLC's *)
(* integers hold less than 2^31, so runs use a smaller width, where the    *)
(* same wraparound happens at the same relative place).                    *)
(*                                                                         *)
(* One request is one step: the handler reads the parameters, selects the  *)
(* page and either encodes it or panics on an invalid slice expression.   *)
(***************************************************************************)
EXTENDS Naturals

CONSTANTS
    Width,       \* bit width of offset, limit and uint32(len(headers))
    MaxHeaders   \* bound on the number of snapshots in the repository

UInt == 0 .. 2^Width - 1

\* uint32 addition.
AddU(a, b) == (a + b) % 2^Width

\* The slice the handler takes of headers (length n), as bounds [lo, hi),
\* or a panic when Go's slice expression headers[lo:hi] is out of range.
Page(n, offset, limit0) ==
    LET limit == IF limit0 = 0 THEN n ELSE limit0
        Slice(lo, hi) == IF lo <= hi /\ hi <= n
                         THEN [panic |-> FALSE, lo |-> lo, hi |-> hi]
                         ELSE [panic |-> TRUE, lo |-> 0, hi |-> 0]
    IN  IF offset > n THEN Slice(0, 0)
        ELSE IF AddU(offset, limit) > n THEN Slice(offset, n)
        ELSE Slice(offset, AddU(offset, limit))

\* Reference: the items from offset on, at most limit of them (all of them
\* when limit is 0), computed without overflow.
MinOf(a, b) == IF a <= b THEN a ELSE b
Expected(n, offset, limit0) ==
    LET limit == IF limit0 = 0 THEN n ELSE limit0
    IN  IF offset >= n THEN [panic |-> FALSE, lo |-> 0, hi |-> 0]
        ELSE [panic |-> FALSE, lo |-> offset, hi |-> MinOf(offset + limit, n)]

\* An empty page is the same whatever its bounds.
SamePage(a, b) ==
    /\ a.panic = b.panic
    /\ IF a.hi - a.lo = 0 /\ b.hi - b.lo = 0 THEN TRUE
       ELSE a.lo = b.lo /\ a.hi = b.hi

VARIABLES request, response

vars == <<request, response>>

NoRequest == [n |-> 0, offset |-> 0, limit |-> 0]

Init ==
    /\ request = NoRequest
    /\ response = [panic |-> FALSE, lo |-> 0, hi |-> 0]

\* repositorySnapshots with n snapshots and the given query parameters.
RepositorySnapshots(n, offset, limit) ==
    /\ request' = [n |-> n, offset |-> offset, limit |-> limit]
    /\ response' = Page(n, offset, limit)

Next == \E n \in 0 .. MaxHeaders, offset, limit \in UInt :
            RepositorySnapshots(n, offset, limit)

Spec == Init /\ [][Next]_vars

-----------------------------------------------------------------------------
\* Every request is answered with the page the parameters describe (at most
\* limit headers from offset on) and never with a panic of the slice
\* expression in repositorySnapshots.
PageMatchesRequest ==
    SamePage(response, Expected(request.n, request.offset, request.limit))
=============================================================================
