--------------------------- MODULE MCTicketClaims ---------------------------
(***************************************************************************)
(* Small instances of TicketClaims: up to three calls of one customer (a   *)
(* repeated click), or one call each of two customers.                     *)
(***************************************************************************)
EXTENDS TicketClaims, TLC

CONSTANTS r1, r2, r3, c1, c2

OwnerOf == [r \in Requests |-> IF r = r3 THEN c2 ELSE c1]

SameCustomer == [r \in Requests |-> c1]

\* The first two calls of one customer are interchangeable: no property tells
\* them apart.  Used by the run of safety properties only.
DoubleClick == Permutations({r1, r2})

\* Bound of the safety run: two calls meet the faults, the workers, the releases
\* and the payments; a third one is there for the lock, comes last and runs on
\* only while none of those has come between.  A lock that runs out is no fault.
ThirdCallUndisturbed ==
    pc[r3] # "idle" =>
        /\ pc[r1] # "idle" /\ pc[r2] # "idle"
        /\ faults = MaxFaults /\ aged = {} /\ releasing = {} /\ Owed = {} /\ rec = "idle"

\* Bound of the safety run: behaviours whose counter is sound have all MaxFaults
\* faults; with an inflated one, where the unique index has to hold what the
\* counter no longer does, they go on with at most one.
OneFaultWhenInflated == inflation # "none" => faults >= MaxFaults - 1
=============================================================================
