--------------------------- MODULE TicketPayments ---------------------------
(***************************************************************************)
(* Paying for claims: PaymentService (internal/service/payments.go), the   *)
(* payments and claims tables, the webhook endpoint and the payment half   *)
(* of the reconciliation worker, against a gateway that loses replies,     *)
(* repeats, delays or drops webhooks and rejects a reference it has seen.  *)
(*                                                                         *)
(* A claim has at most one payment (unique index on payments.claim_id), so *)
(* a payment is named by its claim.  confirmFlow and failureFlow are one   *)
(* Postgres transaction each, and one step here: both rows stay locked     *)
(* until the commit.  The Redis counter is TicketClaims' subject; here     *)
(* credits counts the increments issued on behalf of each claim.           *)
(***************************************************************************)
EXTENDS Integers, FiniteSets

CONSTANTS
    Claims,      \* claim rows, each of its own customer
    Calls,       \* calls of PaymentService.Initialize
    Target,      \* the claim an Initialize call is about
    MaxHooks,    \* bound: webhook deliveries per claim
    MaxFaults    \* bound: failed calls, lost replies and crashes

ASSUME TargetAssumption == Target \in [Calls -> Claims]
ASSUME BoundsAssumption == MaxHooks \in Nat /\ MaxFaults \in Nat

VARIABLES
    claim,    \* claims table
    aged,     \* claims older than ClaimTTL
    pay,      \* payments table: status, "NONE" without a row
    stale,    \* payments not updated for StalePaymentAge
    credits,  \* INCRs of the inventory issued for each claim
    tx,       \* the gateway's transaction for the payment's reference
    url,      \* claims whose customer was given the checkout URL
    ini,      \* where each Initialize call is
    async,    \* claims with a webhook goroutine that has not run yet
    hooks,    \* webhook deliveries left
    batch,    \* the reconciliation worker's list, with the status it read
    faults    \* faults left

rowVars  == <<claim, aged, pay, stale>>
gateVars == <<tx, url, hooks>>
vars == <<rowVars, credits, gateVars, ini, async, batch, faults>>

Ledger == INSTANCE ClaimLedger
              WITH Requests <- Claims, Owner <- [k \in Claims |-> k]

PayStatus   == {"NONE", "INITIALIZING", "PENDING", "CONFIRMED", "FAILED"}
OpenStatus  == {"INITIALIZING", "PENDING"}
TxStatus    == {"none", "open", "success", "failed", "abandoned"}
TxFinal     == {"success", "failed", "abandoned"}
IniLabels   == {"idle", "load", "create", "gateway", "pending", "reject", "done"}
BatchStatus == {"none", "INITIALIZING", "PENDING", "initialized", "rejected"}

Init ==
    /\ claim = [k \in Claims |-> "NONE"]
    /\ aged = {}
    /\ pay = [k \in Claims |-> "NONE"]
    /\ stale = {}
    /\ credits = [k \in Claims |-> 0]
    /\ tx = [k \in Claims |-> "none"]
    /\ url = {}
    /\ ini = [i \in Calls |-> "idle"]
    /\ async = {}
    /\ hooks = [k \in Claims |-> MaxHooks]
    /\ batch = [k \in Claims |-> "none"]
    /\ faults = MaxFaults

Fault == faults > 0 /\ faults' = faults - 1

-----------------------------------------------------------------------------
(* The two flows every settlement goes through.                             *)

\* restoreInventoryBestEffort: the INCR may fail, or the process may die
\* between the commit and the INCR.
Restore(k) ==
    \/ credits' = [credits EXCEPT ![k] = @ + 1] /\ UNCHANGED faults
    \/ Fault /\ UNCHANGED credits

\* Mutant of ConfirmFlow: the gateway's word is stored as the status.
ConfirmFlowGatewayStatus(k) ==
    /\ pay[k] = "PENDING"
    /\ Ledger!UpdateStatus(k, "CONFIRMED")
    /\ pay' = [pay EXCEPT ![k] = tx[k]]
    /\ UNCHANGED <<credits, faults>>

\* Mutant of ConfirmFlow: the result of updating the claim is ignored.
ConfirmFlowNoRollback(k) ==
    /\ pay[k] = "PENDING"
    /\ pay' = [pay EXCEPT ![k] = "CONFIRMED"]
    /\ claim' = IF claim[k] = "CLAIMED" THEN [claim EXCEPT ![k] = "CONFIRMED"] ELSE claim
    /\ UNCHANGED <<credits, faults>>

\* Mutant of ConfirmFlow: the claim is updated whatever its status is.
ConfirmFlowUnconditional(k) ==
    /\ pay[k] = "PENDING"
    /\ pay' = [pay EXCEPT ![k] = "CONFIRMED"]
    /\ claim' = [claim EXCEPT ![k] = "CONFIRMED"]
    /\ UNCHANGED <<credits, faults>>

\* A payment that is not PENDING is left alone; a claim that is no longer
\* CLAIMED makes the transaction roll back.
ConfirmFlow(k) ==
    /\ \/ /\ pay[k] = "PENDING"
          /\ Ledger!UpdateStatus(k, "CONFIRMED")
          /\ pay' = [pay EXCEPT ![k] = "CONFIRMED"] /\ UNCHANGED faults
       \/ /\ pay[k] # "PENDING" \/ claim[k] # "CLAIMED"
          /\ UNCHANGED <<claim, pay, faults>>
       \/ Fault /\ UNCHANGED <<claim, pay>>
    /\ UNCHANGED credits

\* Mutant of FailureFlow: the inventory is restored also after a rollback.
FailureFlowRestoresAlways(k, expected) ==
    \/ /\ pay[k] = expected
       /\ Ledger!UpdateStatus(k, "RELEASED")
       /\ pay' = [pay EXCEPT ![k] = "FAILED"]
       /\ Restore(k)
    \/ /\ pay[k] # expected \/ claim[k] # "CLAIMED"
       /\ UNCHANGED <<claim, pay>>
       /\ Restore(k)

\* Mutant of FailureFlow: any open payment is failed, not only one that still
\* has the status the caller saw.
FailureFlowAnyOpen(k, expected) ==
    /\ pay[k] \in OpenStatus
    /\ Ledger!UpdateStatus(k, "RELEASED")
    /\ pay' = [pay EXCEPT ![k] = "FAILED"]
    /\ Restore(k)

\* The inventory is restored whenever the transaction commits, and it commits
\* without an update when the payment does not have the expected status.
FailureFlow(k, expected) ==
    \/ /\ pay[k] = expected
       /\ Ledger!UpdateStatus(k, "RELEASED")
       /\ pay' = [pay EXCEPT ![k] = "FAILED"]
       /\ Restore(k)
    \/ /\ pay[k] # expected
       /\ UNCHANGED <<claim, pay>>
       /\ Restore(k)
    \/ /\ pay[k] = expected /\ claim[k] # "CLAIMED"
       /\ UNCHANGED <<claim, pay, credits, faults>>
    \/ Fault /\ UNCHANGED <<claim, pay, credits>>

\* UPDATE payments SET status = 'PENDING' ... AND status = 'INITIALIZING'.
MarkPending(k) ==
    \/ /\ pay[k] = "INITIALIZING"
       /\ pay' = [pay EXCEPT ![k] = "PENDING"]
       /\ stale' = stale \ {k} /\ UNCHANGED faults
    \/ pay[k] # "INITIALIZING" /\ UNCHANGED <<pay, stale, faults>>
    \/ Fault /\ UNCHANGED <<pay, stale>>

-----------------------------------------------------------------------------
(* The gateway, as far as the code depends on it.                           *)

Opened(k) == tx' = [tx EXCEPT ![k] = "open"]

\* InitializeTransaction, with the client's own retries inside.
\* A reference the gateway knows is a duplicate: a permanent error.  That is
\* also what a retry meets when the reply to the first attempt was lost.
GatewayAccepts(k) == tx[k] = "none" /\ Opened(k) /\ UNCHANGED faults
GatewayRejects(k) ==
    \/ UNCHANGED <<tx, faults>>
    \/ tx[k] = "none" /\ Fault /\ Opened(k)
GatewayUnavailable(k) ==
    /\ Fault
    /\ \/ UNCHANGED tx
       \/ tx[k] = "none" /\ Opened(k)

\* The customer completes the checkout, or the gateway gives it up.
Checkout(k) ==
    /\ tx[k] = "open"
    /\ \/ k \in url /\ \E result \in {"success", "failed"} :
                          tx' = [tx EXCEPT ![k] = result]
       \/ tx' = [tx EXCEPT ![k] = "abandoned"]
    /\ UNCHANGED <<rowVars, credits, url, hooks, ini, async, batch, faults>>

-----------------------------------------------------------------------------
(* Initialize.                                                              *)

Goto(i, label) == ini' = [ini EXCEPT ![i] = label]

\* An existing row is returned with the URL that MarkPending stored in it.
ReturnExisting(i) ==
    /\ Goto(i, "done")
    /\ url' = IF pay[Target[i]] = "PENDING" THEN url \cup {Target[i]} ELSE url

GetExistingPayment(i) ==
    /\ ini[i] = "idle"
    /\ claim[Target[i]] # "NONE"
    /\ \/ pay[Target[i]] # "NONE" /\ ReturnExisting(i) /\ UNCHANGED faults
       \/ pay[Target[i]] = "NONE" /\ Goto(i, "load") /\ UNCHANGED <<url, faults>>
       \/ Fault /\ Goto(i, "done") /\ UNCHANGED url
    /\ UNCHANGED <<rowVars, credits, tx, hooks, async, batch>>

\* fetchInitData and validateClaimForPayment.
ValidateClaim(i) ==
    /\ ini[i] = "load"
    /\ \/ /\ Goto(i, IF claim[Target[i]] = "CLAIMED" /\ Target[i] \notin aged
                     THEN "create" ELSE "done")
          /\ UNCHANGED faults
       \/ Fault /\ Goto(i, "done")
    /\ UNCHANGED <<rowVars, credits, gateVars, async, batch>>

\* Mutant of CreatePayment: no unique index on payments.claim_id.
CreatePaymentDuplicate(i) ==
    /\ ini[i] = "create"
    /\ pay' = [pay EXCEPT ![Target[i]] = "INITIALIZING"]
    /\ Goto(i, "gateway")
    /\ UNCHANGED <<claim, aged, stale, credits, gateVars, async, batch, faults>>

\* The INSERT; the loser of a race gets the winner's row.
CreatePayment(i) ==
    /\ ini[i] = "create"
    /\ \/ /\ pay[Target[i]] = "NONE"
          /\ pay' = [pay EXCEPT ![Target[i]] = "INITIALIZING"]
          /\ Goto(i, "gateway") /\ UNCHANGED <<url, faults>>
       \/ pay[Target[i]] # "NONE" /\ ReturnExisting(i) /\ UNCHANGED <<pay, faults>>
       \/ Fault /\ Goto(i, "done") /\ UNCHANGED <<pay, url>>
    /\ UNCHANGED <<claim, aged, stale, credits, tx, hooks, async, batch>>

InitializeTransaction(i) ==
    /\ ini[i] = "gateway"
    /\ \/ GatewayAccepts(Target[i]) /\ Goto(i, "pending")
       \/ GatewayRejects(Target[i]) /\ Goto(i, "reject")
       \/ GatewayUnavailable(Target[i]) /\ Goto(i, "done")
    /\ UNCHANGED <<rowVars, credits, url, hooks, async, batch>>

\* Whether or not MarkPending worked, the customer is given the URL.
FinishInitialize(i) ==
    /\ ini[i] = "pending"
    /\ MarkPending(Target[i])
    /\ url' = url \cup {Target[i]}
    /\ Goto(i, "done")
    /\ UNCHANGED <<claim, aged, credits, tx, hooks, async, batch>>

HandleGatewayInitError(i) ==
    /\ ini[i] = "reject"
    /\ FailureFlow(Target[i], "INITIALIZING")
    /\ Goto(i, "done")
    /\ UNCHANGED <<aged, stale, gateVars, async, batch>>

InitializeStep(i) ==
    \/ ValidateClaim(i) \/ CreatePayment(i) \/ InitializeTransaction(i)
    \/ FinishInitialize(i) \/ HandleGatewayInitError(i)

-----------------------------------------------------------------------------
(* Webhooks: acknowledged first, processed by a goroutine later.            *)

HandleWebhook(k) ==
    /\ tx[k] \in {"success", "failed"}
    /\ hooks[k] > 0 /\ k \notin async
    /\ hooks' = [hooks EXCEPT ![k] = @ - 1]
    /\ async' = async \cup {k}
    /\ UNCHANGED <<rowVars, credits, tx, url, ini, batch, faults>>

ProcessCharge(k) ==
    /\ k \in async
    /\ async' = async \ {k}
    /\ \/ tx[k] = "success" /\ ConfirmFlow(k)
       \/ tx[k] = "failed" /\ FailureFlow(k, "PENDING")
    /\ UNCHANGED <<aged, stale, gateVars, ini, batch>>

-----------------------------------------------------------------------------
(* Reconcile, run by one worker that handles its list one by one.           *)

Idle == \A k \in Claims : batch[k] \notin {"initialized", "rejected"}
Drop(k) == batch' = [batch EXCEPT ![k] = "none"]

\* Mutant of ReconcileFetch: INITIALIZING payments are not looked for.
ReconcileFetchPendingOnly ==
    /\ \A k \in Claims : batch[k] = "none"
    /\ batch' = [k \in Claims |->
                    IF k \in stale /\ pay[k] = "PENDING" THEN "PENDING" ELSE "none"]
    /\ UNCHANGED <<rowVars, credits, gateVars, ini, async, faults>>

ReconcileFetch ==
    /\ \A k \in Claims : batch[k] = "none"
    /\ batch' = [k \in Claims |->
                    IF k \in stale /\ pay[k] \in OpenStatus THEN pay[k] ELSE "none"]
    /\ UNCHANGED <<rowVars, credits, gateVars, ini, async, faults>>

\* The claim is loaded but its status is not looked at.
RetryInitialization(k) ==
    /\ batch[k] = "INITIALIZING" /\ Idle
    /\ \/ GatewayAccepts(k) /\ batch' = [batch EXCEPT ![k] = "initialized"]
       \/ GatewayRejects(k) /\ batch' = [batch EXCEPT ![k] = "rejected"]
       \/ GatewayUnavailable(k) /\ Drop(k)
    /\ UNCHANGED <<rowVars, credits, url, hooks, ini, async>>

RetryMarkPending(k) ==
    /\ batch[k] = "initialized"
    /\ MarkPending(k)
    /\ Drop(k)
    /\ UNCHANGED <<claim, aged, credits, gateVars, ini, async>>

RetryFail(k) ==
    /\ batch[k] = "rejected"
    /\ FailureFlow(k, "INITIALIZING")
    /\ Drop(k)
    /\ UNCHANGED <<aged, stale, gateVars, ini, async>>

\* Mutant of PollGatewayStatus: everything but a failure is a success.
PollGatewayStatusDefault(k) ==
    /\ batch[k] = "PENDING" /\ Idle
    /\ Drop(k)
    /\ \/ tx[k] \notin {"failed", "abandoned"} /\ ConfirmFlow(k)
       \/ tx[k] \in {"failed", "abandoned"} /\ FailureFlow(k, "PENDING")
    /\ UNCHANGED <<aged, stale, gateVars, ini, async>>

\* A final status of the gateway does not change any more, so the poll and
\* the flow it leads to are one step; the flow looks at both rows again.
PollGatewayStatus(k) ==
    /\ batch[k] = "PENDING" /\ Idle
    /\ Drop(k)
    /\ \/ tx[k] = "success" /\ ConfirmFlow(k)
       \/ tx[k] \in {"failed", "abandoned"} /\ FailureFlow(k, "PENDING")
       \/ tx[k] = "open" /\ UNCHANGED <<claim, pay, credits, faults>>
       \/ Fault /\ UNCHANGED <<claim, pay, credits>>
    /\ UNCHANGED <<aged, stale, gateVars, ini, async>>

-----------------------------------------------------------------------------
(* The rest of the system, time, and crashes.                               *)

\* ClaimService.Claim has inserted the row and returned its id.
CreateClaim(k) ==
    /\ Ledger!Create(k)
    /\ UNCHANGED <<aged, pay, stale, credits, gateVars, ini, async, batch, faults>>

\* ClaimService.Release by the customer, ExpiryWorker.releaseClaim for a claim
\* older than its TTL: neither looks at the payment.
ReleaseClaim(k) ==
    /\ Ledger!UpdateStatus(k, "RELEASED")
    /\ Restore(k)
    /\ UNCHANGED <<aged, pay, stale, gateVars, ini, async, batch>>

ExpireClaim(k) ==
    /\ k \in aged
    /\ ReleaseClaim(k)

ClaimAges(k) ==
    /\ claim[k] = "CLAIMED" /\ k \notin aged
    /\ aged' = aged \cup {k}
    /\ UNCHANGED <<claim, pay, stale, credits, gateVars, ini, async, batch, faults>>

PaymentAges(k) ==
    /\ pay[k] \in OpenStatus /\ k \notin stale
    /\ stale' = stale \cup {k}
    /\ UNCHANGED <<claim, aged, pay, credits, gateVars, ini, async, batch, faults>>

\* A crash followed by a restart that gets as far as serving (see ServerProcess
\* for those that do not): acknowledged webhooks whose goroutine has not run,
\* Initialize calls and the worker's list are gone.
CrashRestart ==
    /\ Fault
    /\ ini' = [i \in Calls |-> IF ini[i] = "idle" THEN "idle" ELSE "done"]
    /\ async' = {}
    /\ batch' = [k \in Claims |-> "none"]
    /\ UNCHANGED <<rowVars, credits, gateVars>>

Next ==
    \/ \E i \in Calls : GetExistingPayment(i) \/ InitializeStep(i)
    \/ \E k \in Claims :
          \/ Checkout(k) \/ HandleWebhook(k) \/ ProcessCharge(k)
          \/ RetryInitialization(k) \/ RetryMarkPending(k) \/ RetryFail(k)
          \/ PollGatewayStatus(k)
          \/ CreateClaim(k) \/ ReleaseClaim(k) \/ ExpireClaim(k)
          \/ ClaimAges(k) \/ PaymentAges(k)
    \/ ReconcileFetch
    \/ CrashRestart

Spec == Init /\ [][Next]_vars

(***************************************************************************)
(* A goroutine that runs goes on, the scheduler keeps ticking, and time    *)
(* passes.  Webhooks need not arrive, customers need not pay, and nothing  *)
(* is assumed of the expiry worker: it would settle every claim by itself. *)
(***************************************************************************)
Fairness ==
    /\ \A i \in Calls : WF_vars(InitializeStep(i))
    /\ \A k \in Claims :
          /\ WF_vars(ProcessCharge(k))
          /\ WF_vars(RetryInitialization(k))
          /\ WF_vars(RetryMarkPending(k))
          /\ WF_vars(RetryFail(k))
          /\ WF_vars(PollGatewayStatus(k))
          /\ WF_vars(PaymentAges(k))
    /\ WF_vars(ReconcileFetch)

FairSpec == Spec /\ Fairness

-----------------------------------------------------------------------------
(* Properties.                                                              *)

\* Every variable stays in its set.
TypeOK ==
    /\ claim \in [Claims -> Ledger!ClaimStatus]
    /\ aged \subseteq Claims
    /\ pay \in [Claims -> PayStatus]
    /\ stale \subseteq Claims
    /\ credits \in [Claims -> Nat]
    /\ tx \in [Claims -> TxStatus]
    /\ url \subseteq Claims
    /\ ini \in [Calls -> IniLabels]
    /\ async \subseteq Claims
    /\ hooks \in [Claims -> 0..MaxHooks]
    /\ batch \in [Claims -> BatchStatus]
    /\ faults \in 0..MaxFaults

\* The two tables agree after every commit: a claim is CONFIRMED exactly when
\* its payment is, and a FAILED payment's claim is RELEASED, whichever of the
\* webhook, the poll, the retry, the expiry and the release came first.
SettledTogether ==
    \A k \in Claims :
        /\ pay[k] = "CONFIRMED" <=> claim[k] = "CONFIRMED"
        /\ pay[k] = "FAILED" => claim[k] = "RELEASED"

\* A ticket is confirmed only if the gateway has charged the customer.
ConfirmedIsPaid == \A k \in Claims : claim[k] = "CONFIRMED" => tx[k] = "success"

\* How far the inventory can be over-credited: failureFlow credits it also when
\* it found nothing to fail, but a claim is credited at most twice, plus once per
\* webhook delivery, however often the workers, the calls and time come by.  (Once
\* for its release, and once for the slower of an Initialize call and a retry.)
CreditsBounded == \A k \in Claims : credits[k] <= 2 + MaxHooks - hooks[k]

\* However many Initialize calls race for a claim, only one of them is past
\* the INSERT, so only one may talk to the gateway and fail the payment.
OneInitializer ==
    \A i, j \in Calls :
        /\ Target[i] = Target[j]
        /\ {ini[i], ini[j]} \subseteq {"gateway", "pending", "reject"}
        => i = j

\* Whose payment is FAILED was not charged, unless the payment was stale when it
\* failed: only the worker's retry, which sends the reference again and fails the
\* payment for the duplicate, gives up a checkout that the customer completes.
FailedChargeWasStale ==
    \A k \in Claims : pay[k] = "FAILED" /\ tx[k] = "success" => k \in stale

\* A payment that is open when its claim is released stays open: the confirmation
\* and the failure both roll back, on every webhook and every tick.
ReleasedNeverSettles ==
    \A k \in Claims :
        [](claim[k] = "RELEASED" /\ pay[k] \in OpenStatus => [](pay[k] \in OpenStatus))

\* The claims table is used only as ClaimLedger allows.
LedgerSpec == Ledger!Spec

\* Without any webhook, reconciliation settles every payment whose checkout
\* has ended, unless the claim was released in the meantime, also after a crash
\* that the process came back from.
SettlesUnlessReleased ==
    \A k \in Claims :
        pay[k] \in OpenStatus /\ tx[k] \in TxFinal
            ~> pay[k] \in {"CONFIRMED", "FAILED"} \/ claim[k] = "RELEASED"

\* payments.go: "Reconcile heals stale payments stuck in intermediate states".
\* Not so when the claim of a charged customer was released before the payment
\* was settled: the confirmation rolls back on every tick.
StalePaymentsHeal ==
    \A k \in Claims :
        pay[k] \in OpenStatus /\ tx[k] = "success" ~> pay[k] \in {"CONFIRMED", "FAILED"}
=============================================================================
