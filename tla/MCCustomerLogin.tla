--------------------------- MODULE MCCustomerLogin ---------------------------
(***************************************************************************)
(* A small instance of CustomerLogin: two requests and two verifications   *)
(* with one spelling of the address, and a third of each with another.     *)
(***************************************************************************)
EXTENDS CustomerLogin

CONSTANTS a1, a2, r1, r2, r3, v1, v2, v3

EmailOf == [x \in Requests \cup Verifies |-> IF x \in {r3, v3} THEN a2 ELSE a1]
==============================================================================
