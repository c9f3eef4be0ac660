------------------------------ MODULE MCLocate ------------------------------
(* Three listed snapshots with distinct timestamps, two of which pass the  *)
(* filters, and two concurrency tokens.                                    *)
EXTENDS Locate

CONSTANTS s1, s2, s3

MCSnaps == {s1, s2, s3}
MCTimestamp == (s1 :> 1) @@ (s2 :> 2) @@ (s3 :> 3)
MCMatch == {s1, s3}
=============================================================================
