----------------------------- MODULE ClaimLedger -----------------------------
(***************************************************************************)
(* What the claims table of Postgres promises to everybody who uses it,    *)
(* for one event: a row is inserted CLAIMED, at most one CLAIMED row per   *)
(* customer exists (the partial unique index of the schema), and a row     *)
(* leaves CLAIMED once, to CONFIRMED or to RELEASED (every UPDATE is        *)
(* conditional on the status it expects).  The table says nothing about    *)
(* the size of the inventory: that bound is kept by Redis alone.           *)
(*                                                                         *)
(* TicketClaims and TicketPayments are both shown to implement this        *)
(* specification, so the two may be composed over the same table.          *)
(***************************************************************************)
CONSTANTS
    Requests,   \* claim attempts; attempt r inserts the row named r
    Owner       \* the customer who makes an attempt

VARIABLE claim  \* status of each row; "NONE": not inserted

ClaimStatus == {"NONE", "CLAIMED", "CONFIRMED", "RELEASED"}

\* The partial unique index over (customer_id, event_id) WHERE CLAIMED.
HasClaim(c) == \E r \in Requests : Owner[r] = c /\ claim[r] = "CLAIMED"

Init == claim = [r \in Requests |-> "NONE"]

Create(r) ==
    /\ claim[r] = "NONE"
    /\ ~HasClaim(Owner[r])
    /\ claim' = [claim EXCEPT ![r] = "CLAIMED"]

\* UPDATE claims SET status = new WHERE id = r AND status = 'CLAIMED'.
UpdateStatus(r, new) ==
    /\ claim[r] = "CLAIMED"
    /\ claim' = [claim EXCEPT ![r] = new]

Next == \E r \in Requests :
            \/ Create(r)
            \/ UpdateStatus(r, "CONFIRMED")
            \/ UpdateStatus(r, "RELEASED")

Spec == Init /\ [][Next]_claim
==============================================================================
