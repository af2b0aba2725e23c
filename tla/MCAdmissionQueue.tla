--------------------------- MODULE MCAdmissionQueue ---------------------------
(***************************************************************************)
(* Small instances of AdmissionQueue: a customer who may join twice, and   *)
(* one who joins once.                                                     *)
(***************************************************************************)
EXTENDS AdmissionQueue

CONSTANTS e1, e2, e3, c1, c2

OwnerOf == [e \in Entries |-> IF e = e3 THEN c2 ELSE c1]

\* Bound of the expiry run: a customer joins a second time, or calls fail, Redis
\* is wiped and the process crashes, but not both in one behaviour.
RejoinOrFaults == (\E e \in Entries : pc[e] = "idle") \/ faults = MaxFaults
==============================================================================
