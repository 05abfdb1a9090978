--------------------------- MODULE MCUpstreamPool ----------------------------
(* Values of the constants of UpstreamPool for TLC.                        *)
EXTENDS UpstreamPool, TLC
CONSTANTS q1, q2

TwoRequests == {q1, q2}
TwoToOne    == <<2, 1>>
=============================================================================
