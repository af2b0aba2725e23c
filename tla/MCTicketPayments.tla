-------------------------- MODULE MCTicketPayments --------------------------
(***************************************************************************)
(* Small instances of TicketPayments: a claim with two concurrent          *)
(* Initialize calls, and a second claim with one.                          *)
(***************************************************************************)
EXTENDS TicketPayments

CONSTANTS k1, k2, i1, i2, i3

TargetOf == [i \in Calls |-> IF i = i3 THEN k2 ELSE k1]

\* An Initialize call ends long before StalePaymentAge (10 minutes): used where
\* a counterexample should not depend on a call that hangs for so long.
PromptCalls ==
    \A i \in Calls :
        ini[i] \notin {"idle", "done"} => Target[i] \notin stale' \ stale
=============================================================================
