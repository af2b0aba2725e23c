----------------------------- MODULE QueueLedger -----------------------------
(***************************************************************************)
(* What the queue_entries table promises, for one event: a customer has at *)
(* most one entry that is WAITING or ADMITTED (the partial unique index),  *)
(* entries are admitted and expired in batches, and an entry that was      *)
(* completed, abandoned or expired never changes again (every UPDATE is    *)
(* conditional on the status it expects).                                  *)
(***************************************************************************)
CONSTANTS
    Entries,    \* calls of QueueService.Join; call e inserts the row e
    Owner       \* the customer who makes the call

VARIABLE row    \* status of each row; "NONE": not inserted

ActiveStatus == {"WAITING", "ADMITTED"}
RowStatus    == ActiveStatus \cup {"NONE", "COMPLETED", "ABANDONED", "EXPIRED"}

Active(c) == {e \in Entries : Owner[e] = c /\ row[e] \in ActiveStatus}

Init == row = [e \in Entries |-> "NONE"]

Create(e) ==
    /\ row[e] = "NONE"
    /\ Active(Owner[e]) = {}
    /\ row' = [row EXCEPT ![e] = "WAITING"]

\* UPDATE queue_entries SET status = new ... AND status = expected, on one row
\* or on the rows of a list of customers.
UpdateStatus(E, expected, new) ==
    row' = [e \in Entries |-> IF e \in E /\ row[e] = expected THEN new ELSE row[e]]

Next ==
    \/ \E e \in Entries : Create(e)
    \/ \E E \in SUBSET Entries :
          \/ UpdateStatus(E, "WAITING", "ADMITTED")
          \/ UpdateStatus(E, "WAITING", "ABANDONED")
          \/ UpdateStatus(E, "ADMITTED", "COMPLETED")
          \/ \E status \in ActiveStatus : UpdateStatus(E, status, "EXPIRED")

Spec == Init /\ [][Next]_row
==============================================================================
