--------------------------- MODULE MCServerProcess ---------------------------
(***************************************************************************)
(* A small instance of ServerProcess: one customer with two connections.   *)
(***************************************************************************)
EXTENDS ServerProcess

CONSTANTS x1, x2, c1

OwnerOf == [x \in Conns |-> c1]
==============================================================================
