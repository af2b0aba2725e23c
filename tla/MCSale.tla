------------------------------- MODULE MCSale -------------------------------
EXTENDS Sale

CONSTANTS k1, k2, k3

\* Two Activate calls and an End call: an overlap of all three is possible.
KindOf == [k \in Calls |-> IF k = k3 THEN "end" ELSE "activate"]
=============================================================================
