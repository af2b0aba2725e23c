------------------------ MODULE TicketPaymentsProofs ------------------------
(***************************************************************************)
(* Proofs about TicketPayments, for every number of claims, Initialize     *)
(* calls, webhook deliveries and faults.                                   *)
(***************************************************************************)
EXTENDS TicketPayments, TLAPS

\* Each step of Initialize, of a webhook, of the reconciliation and of the
\* gateway keeps every variable in its set.
LEMMA TypeStep == TypeOK /\ [Next]_vars => TypeOK'
<1> SUFFICES ASSUME TypeOK, [Next]_vars PROVE TypeOK'
  OBVIOUS
<1> USE TargetAssumption, BoundsAssumption
    DEF TypeOK, PayStatus, OpenStatus, TxStatus, IniLabels, BatchStatus,
        Ledger!ClaimStatus, rowVars, gateVars
<1>f. ASSUME Fault PROVE faults' \in 0..MaxFaults
  BY <1>f DEF Fault
<1>1. ASSUME NEW i \in Calls, GetExistingPayment(i) PROVE TypeOK'
  BY <1>1, <1>f DEF GetExistingPayment, ReturnExisting, Goto
<1>2. ASSUME NEW i \in Calls, ValidateClaim(i) PROVE TypeOK'
  BY <1>2, <1>f DEF ValidateClaim, Goto
<1>3. ASSUME NEW i \in Calls, CreatePayment(i) PROVE TypeOK'
  BY <1>3, <1>f DEF CreatePayment, ReturnExisting, Goto
<1>4. ASSUME NEW i \in Calls, InitializeTransaction(i) PROVE TypeOK'
  BY <1>4, <1>f DEF InitializeTransaction, GatewayAccepts, GatewayRejects, GatewayUnavailable, Opened, Goto
<1>5. ASSUME NEW i \in Calls, FinishInitialize(i) PROVE TypeOK'
  BY <1>5, <1>f DEF FinishInitialize, MarkPending, Goto
<1>6. ASSUME NEW i \in Calls, HandleGatewayInitError(i) PROVE TypeOK'
  BY <1>6, <1>f DEF HandleGatewayInitError, FailureFlow, Restore, Ledger!UpdateStatus, Goto
<1>7. ASSUME NEW k \in Claims, Checkout(k) PROVE TypeOK'
  BY <1>7, <1>f DEF Checkout
<1>8. ASSUME NEW k \in Claims, HandleWebhook(k) PROVE TypeOK'
  BY <1>8, <1>f DEF HandleWebhook
<1>9. ASSUME NEW k \in Claims, ProcessCharge(k) PROVE TypeOK'
  BY <1>9, <1>f DEF ProcessCharge, ConfirmFlow, FailureFlow, Restore, Ledger!UpdateStatus
<1>10. ASSUME NEW k \in Claims, RetryInitialization(k) PROVE TypeOK'
  BY <1>10, <1>f DEF RetryInitialization, GatewayAccepts, GatewayRejects, GatewayUnavailable, Opened, Drop
<1>11. ASSUME NEW k \in Claims, RetryMarkPending(k) PROVE TypeOK'
  BY <1>11, <1>f DEF RetryMarkPending, MarkPending, Drop
<1>12. ASSUME NEW k \in Claims, RetryFail(k) PROVE TypeOK'
  BY <1>12, <1>f DEF RetryFail, FailureFlow, Restore, Ledger!UpdateStatus, Drop
<1>13. ASSUME NEW k \in Claims, PollGatewayStatus(k) PROVE TypeOK'
  BY <1>13, <1>f DEF PollGatewayStatus, ConfirmFlow, FailureFlow, Restore, Ledger!UpdateStatus, Drop
<1>14. ASSUME NEW k \in Claims, CreateClaim(k) PROVE TypeOK'
  BY <1>14, <1>f DEF CreateClaim, Ledger!Create
<1>15. ASSUME NEW k \in Claims, ReleaseClaim(k) PROVE TypeOK'
  BY <1>15, <1>f DEF ReleaseClaim, Restore, Ledger!UpdateStatus
<1>16. ASSUME NEW k \in Claims, ExpireClaim(k) PROVE TypeOK'
  BY <1>16, <1>f DEF ExpireClaim, ReleaseClaim, Restore, Ledger!UpdateStatus
<1>17. ASSUME NEW k \in Claims, ClaimAges(k) PROVE TypeOK'
  BY <1>17, <1>f DEF ClaimAges
<1>18. ASSUME NEW k \in Claims, PaymentAges(k) PROVE TypeOK'
  BY <1>18, <1>f DEF PaymentAges
<1>19. CASE ReconcileFetch
  BY <1>19, <1>f DEF ReconcileFetch
<1>20. CASE CrashRestart
  BY <1>20, <1>f DEF CrashRestart
<1>21. CASE UNCHANGED vars
  BY <1>21 DEF vars
<1> QED
  BY <1>1, <1>2, <1>3, <1>4, <1>5, <1>6, <1>7, <1>8, <1>9, <1>10, <1>11,
     <1>12, <1>13, <1>14, <1>15, <1>16, <1>17, <1>18, <1>19, <1>20, <1>21 DEF Next, InitializeStep

\* Every variable stays in its set, whatever the gateway, the webhooks, the
\* workers and the crashes do.
THEOREM TypeCorrect == Spec => []TypeOK
<1>1. Init => TypeOK
  BY BoundsAssumption
     DEF Init, TypeOK, PayStatus, TxStatus, IniLabels, BatchStatus, Ledger!ClaimStatus
<1>2. TypeOK /\ [Next]_vars => TypeOK'
  BY TypeStep
<1> QED
  BY <1>1, <1>2, PTL DEF Spec

-----------------------------------------------------------------------------
(* The two tables agree, and no ticket is given away.                       *)

\* confirmFlow and failureFlow change both rows or none, and no other step
\* settles a payment or confirms a claim.
LEMMA SettledStep == TypeOK /\ SettledTogether /\ [Next]_vars => SettledTogether'
<1> SUFFICES ASSUME TypeOK, SettledTogether, [Next]_vars PROVE SettledTogether'
  OBVIOUS
<1> USE TargetAssumption
    DEF TypeOK, SettledTogether, PayStatus, Ledger!ClaimStatus, rowVars, gateVars
<1>1. ASSUME NEW i \in Calls, GetExistingPayment(i) PROVE SettledTogether'
  BY <1>1 DEF GetExistingPayment, ReturnExisting, Goto
<1>2. ASSUME NEW i \in Calls, ValidateClaim(i) PROVE SettledTogether'
  BY <1>2 DEF ValidateClaim, Goto
<1>3. ASSUME NEW i \in Calls, CreatePayment(i) PROVE SettledTogether'
  BY <1>3 DEF CreatePayment, ReturnExisting, Goto
<1>4. ASSUME NEW i \in Calls, InitializeTransaction(i) PROVE SettledTogether'
  BY <1>4 DEF InitializeTransaction, GatewayAccepts, GatewayRejects, GatewayUnavailable, Opened, Goto
<1>5. ASSUME NEW i \in Calls, FinishInitialize(i) PROVE SettledTogether'
  BY <1>5 DEF FinishInitialize, MarkPending, Goto
<1>6. ASSUME NEW i \in Calls, HandleGatewayInitError(i) PROVE SettledTogether'
  BY <1>6 DEF HandleGatewayInitError, FailureFlow, Restore, Ledger!UpdateStatus, Goto
<1>7. ASSUME NEW k \in Claims, Checkout(k) PROVE SettledTogether'
  BY <1>7 DEF Checkout
<1>8. ASSUME NEW k \in Claims, HandleWebhook(k) PROVE SettledTogether'
  BY <1>8 DEF HandleWebhook
<1>9. ASSUME NEW k \in Claims, ProcessCharge(k) PROVE SettledTogether'
  BY <1>9 DEF ProcessCharge, ConfirmFlow, FailureFlow, Restore, Ledger!UpdateStatus
<1>10. ASSUME NEW k \in Claims, RetryInitialization(k) PROVE SettledTogether'
  BY <1>10 DEF RetryInitialization, GatewayAccepts, GatewayRejects, GatewayUnavailable, Opened, Drop
<1>11. ASSUME NEW k \in Claims, RetryMarkPending(k) PROVE SettledTogether'
  BY <1>11 DEF RetryMarkPending, MarkPending, Drop
<1>12. ASSUME NEW k \in Claims, RetryFail(k) PROVE SettledTogether'
  BY <1>12 DEF RetryFail, FailureFlow, Restore, Ledger!UpdateStatus, Drop
<1>13. ASSUME NEW k \in Claims, PollGatewayStatus(k) PROVE SettledTogether'
  BY <1>13 DEF PollGatewayStatus, ConfirmFlow, FailureFlow, Restore, Ledger!UpdateStatus, Drop
<1>14. ASSUME NEW k \in Claims, CreateClaim(k) PROVE SettledTogether'
  BY <1>14 DEF CreateClaim, Ledger!Create
<1>15. ASSUME NEW k \in Claims, ReleaseClaim(k) PROVE SettledTogether'
  BY <1>15 DEF ReleaseClaim, Restore, Ledger!UpdateStatus
<1>16. ASSUME NEW k \in Claims, ExpireClaim(k) PROVE SettledTogether'
  BY <1>16 DEF ExpireClaim, ReleaseClaim, Restore, Ledger!UpdateStatus
<1>17. ASSUME NEW k \in Claims, ClaimAges(k) PROVE SettledTogether'
  BY <1>17 DEF ClaimAges
<1>18. ASSUME NEW k \in Claims, PaymentAges(k) PROVE SettledTogether'
  BY <1>18 DEF PaymentAges
<1>19. CASE ReconcileFetch
  BY <1>19 DEF ReconcileFetch
<1>20. CASE CrashRestart
  BY <1>20 DEF CrashRestart
<1>21. CASE UNCHANGED vars
  BY <1>21 DEF vars
<1> QED
  BY <1>1, <1>2, <1>3, <1>4, <1>5, <1>6, <1>7, <1>8, <1>9, <1>10, <1>11,
     <1>12, <1>13, <1>14, <1>15, <1>16, <1>17, <1>18, <1>19, <1>20, <1>21 DEF Next, InitializeStep

\* Whatever the order in which webhooks, polls, retries, releases and expiries
\* commit, and whatever fails, payment and claim are CONFIRMED together and a
\* FAILED payment's claim is RELEASED.
THEOREM SettledCorrect == Spec => []SettledTogether
<1>1. Init => SettledTogether
  BY DEF Init, SettledTogether
<1>2. TypeOK /\ SettledTogether /\ [Next]_vars => SettledTogether'
  BY SettledStep
<1> QED
  BY <1>1, <1>2, TypeCorrect, PTL DEF Spec

\* Only confirmFlow confirms a claim, and it is entered only when the gateway
\* said success, which the gateway does not take back.
LEMMA PaidStep == TypeOK /\ ConfirmedIsPaid /\ [Next]_vars => ConfirmedIsPaid'
<1> SUFFICES ASSUME TypeOK, ConfirmedIsPaid, [Next]_vars PROVE ConfirmedIsPaid'
  OBVIOUS
<1> USE TargetAssumption
    DEF TypeOK, ConfirmedIsPaid, TxStatus, Ledger!ClaimStatus, rowVars, gateVars
<1>1. ASSUME NEW i \in Calls, GetExistingPayment(i) PROVE ConfirmedIsPaid'
  BY <1>1 DEF GetExistingPayment, ReturnExisting, Goto
<1>2. ASSUME NEW i \in Calls, ValidateClaim(i) PROVE ConfirmedIsPaid'
  BY <1>2 DEF ValidateClaim, Goto
<1>3. ASSUME NEW i \in Calls, CreatePayment(i) PROVE ConfirmedIsPaid'
  BY <1>3 DEF CreatePayment, ReturnExisting, Goto
<1>4. ASSUME NEW i \in Calls, InitializeTransaction(i) PROVE ConfirmedIsPaid'
  BY <1>4 DEF InitializeTransaction, GatewayAccepts, GatewayRejects, GatewayUnavailable, Opened, Goto
<1>5. ASSUME NEW i \in Calls, FinishInitialize(i) PROVE ConfirmedIsPaid'
  BY <1>5 DEF FinishInitialize, MarkPending, Goto
<1>6. ASSUME NEW i \in Calls, HandleGatewayInitError(i) PROVE ConfirmedIsPaid'
  BY <1>6 DEF HandleGatewayInitError, FailureFlow, Restore, Ledger!UpdateStatus, Goto
<1>7. ASSUME NEW k \in Claims, Checkout(k) PROVE ConfirmedIsPaid'
  BY <1>7 DEF Checkout
<1>8. ASSUME NEW k \in Claims, HandleWebhook(k) PROVE ConfirmedIsPaid'
  BY <1>8 DEF HandleWebhook
<1>9. ASSUME NEW k \in Claims, ProcessCharge(k) PROVE ConfirmedIsPaid'
  BY <1>9 DEF ProcessCharge, ConfirmFlow, FailureFlow, Restore, Ledger!UpdateStatus
<1>10. ASSUME NEW k \in Claims, RetryInitialization(k) PROVE ConfirmedIsPaid'
  BY <1>10 DEF RetryInitialization, GatewayAccepts, GatewayRejects, GatewayUnavailable, Opened, Drop
<1>11. ASSUME NEW k \in Claims, RetryMarkPending(k) PROVE ConfirmedIsPaid'
  BY <1>11 DEF RetryMarkPending, MarkPending, Drop
<1>12. ASSUME NEW k \in Claims, RetryFail(k) PROVE ConfirmedIsPaid'
  BY <1>12 DEF RetryFail, FailureFlow, Restore, Ledger!UpdateStatus, Drop
<1>13. ASSUME NEW k \in Claims, PollGatewayStatus(k) PROVE ConfirmedIsPaid'
  BY <1>13 DEF PollGatewayStatus, ConfirmFlow, FailureFlow, Restore, Ledger!UpdateStatus, Drop
<1>14. ASSUME NEW k \in Claims, CreateClaim(k) PROVE ConfirmedIsPaid'
  BY <1>14 DEF CreateClaim, Ledger!Create
<1>15. ASSUME NEW k \in Claims, ReleaseClaim(k) PROVE ConfirmedIsPaid'
  BY <1>15 DEF ReleaseClaim, Restore, Ledger!UpdateStatus
<1>16. ASSUME NEW k \in Claims, ExpireClaim(k) PROVE ConfirmedIsPaid'
  BY <1>16 DEF ExpireClaim, ReleaseClaim, Restore, Ledger!UpdateStatus
<1>17. ASSUME NEW k \in Claims, ClaimAges(k) PROVE ConfirmedIsPaid'
  BY <1>17 DEF ClaimAges
<1>18. ASSUME NEW k \in Claims, PaymentAges(k) PROVE ConfirmedIsPaid'
  BY <1>18 DEF PaymentAges
<1>19. CASE ReconcileFetch
  BY <1>19 DEF ReconcileFetch
<1>20. CASE CrashRestart
  BY <1>20 DEF CrashRestart
<1>21. CASE UNCHANGED vars
  BY <1>21 DEF vars
<1> QED
  BY <1>1, <1>2, <1>3, <1>4, <1>5, <1>6, <1>7, <1>8, <1>9, <1>10, <1>11,
     <1>12, <1>13, <1>14, <1>15, <1>16, <1>17, <1>18, <1>19, <1>20, <1>21 DEF Next, InitializeStep

\* A claim is CONFIRMED only if the gateway's transaction succeeded.
THEOREM PaidCorrect == Spec => []ConfirmedIsPaid
<1>1. Init => ConfirmedIsPaid
  BY DEF Init, ConfirmedIsPaid
<1>2. TypeOK /\ ConfirmedIsPaid /\ [Next]_vars => ConfirmedIsPaid'
  BY PaidStep
<1> QED
  BY <1>1, <1>2, TypeCorrect, PTL DEF Spec

-----------------------------------------------------------------------------
(* The unique index makes one Initialize call responsible for a payment.    *)

PastInsert == {"gateway", "pending", "reject"}

\* A call that is past its INSERT has a row: what makes OneInitializer inductive.
InsertedFirst ==
    \A i \in Calls : ini[i] \in PastInsert => pay[Target[i]] # "NONE"

\* The unique index lets one INSERT per claim succeed, and only its call goes
\* on to the gateway.
LEMMA InitializerStep ==
  TypeOK /\ InsertedFirst /\ OneInitializer /\ [Next]_vars
    => InsertedFirst' /\ OneInitializer'
<1> SUFFICES ASSUME TypeOK, InsertedFirst, OneInitializer, [Next]_vars
             PROVE  InsertedFirst' /\ OneInitializer'
  OBVIOUS
<1> USE TargetAssumption
    DEF TypeOK, InsertedFirst, OneInitializer, PastInsert, IniLabels, rowVars, gateVars
<1>1. ASSUME NEW i \in Calls, GetExistingPayment(i) PROVE (InsertedFirst /\ OneInitializer)'
  BY <1>1 DEF GetExistingPayment, ReturnExisting, Goto
<1>2. ASSUME NEW i \in Calls, ValidateClaim(i) PROVE (InsertedFirst /\ OneInitializer)'
  BY <1>2 DEF ValidateClaim, Goto
<1>3. ASSUME NEW i \in Calls, CreatePayment(i) PROVE (InsertedFirst /\ OneInitializer)'
  BY <1>3 DEF CreatePayment, ReturnExisting, Goto
<1>4. ASSUME NEW i \in Calls, InitializeTransaction(i) PROVE (InsertedFirst /\ OneInitializer)'
  BY <1>4 DEF InitializeTransaction, GatewayAccepts, GatewayRejects, GatewayUnavailable, Opened, Goto
<1>5. ASSUME NEW i \in Calls, FinishInitialize(i) PROVE (InsertedFirst /\ OneInitializer)'
  BY <1>5 DEF FinishInitialize, MarkPending, Goto
<1>6. ASSUME NEW i \in Calls, HandleGatewayInitError(i) PROVE (InsertedFirst /\ OneInitializer)'
  BY <1>6 DEF HandleGatewayInitError, FailureFlow, Restore, Ledger!UpdateStatus, Goto
<1>7. ASSUME NEW k \in Claims, Checkout(k) PROVE (InsertedFirst /\ OneInitializer)'
  BY <1>7 DEF Checkout
<1>8. ASSUME NEW k \in Claims, HandleWebhook(k) PROVE (InsertedFirst /\ OneInitializer)'
  BY <1>8 DEF HandleWebhook
<1>9. ASSUME NEW k \in Claims, ProcessCharge(k) PROVE (InsertedFirst /\ OneInitializer)'
  BY <1>9 DEF ProcessCharge, ConfirmFlow, FailureFlow, Restore, Ledger!UpdateStatus
<1>10. ASSUME NEW k \in Claims, RetryInitialization(k) PROVE (InsertedFirst /\ OneInitializer)'
  BY <1>10 DEF RetryInitialization, GatewayAccepts, GatewayRejects, GatewayUnavailable, Opened, Drop
<1>11. ASSUME NEW k \in Claims, RetryMarkPending(k) PROVE (InsertedFirst /\ OneInitializer)'
  BY <1>11 DEF RetryMarkPending, MarkPending, Drop
<1>12. ASSUME NEW k \in Claims, RetryFail(k) PROVE (InsertedFirst /\ OneInitializer)'
  BY <1>12 DEF RetryFail, FailureFlow, Restore, Ledger!UpdateStatus, Drop
<1>13. ASSUME NEW k \in Claims, PollGatewayStatus(k) PROVE (InsertedFirst /\ OneInitializer)'
  BY <1>13 DEF PollGatewayStatus, ConfirmFlow, FailureFlow, Restore, Ledger!UpdateStatus, Drop
<1>14. ASSUME NEW k \in Claims, CreateClaim(k) PROVE (InsertedFirst /\ OneInitializer)'
  BY <1>14 DEF CreateClaim, Ledger!Create
<1>15. ASSUME NEW k \in Claims, ReleaseClaim(k) PROVE (InsertedFirst /\ OneInitializer)'
  BY <1>15 DEF ReleaseClaim, Restore, Ledger!UpdateStatus
<1>16. ASSUME NEW k \in Claims, ExpireClaim(k) PROVE (InsertedFirst /\ OneInitializer)'
  BY <1>16 DEF ExpireClaim, ReleaseClaim, Restore, Ledger!UpdateStatus
<1>17. ASSUME NEW k \in Claims, ClaimAges(k) PROVE (InsertedFirst /\ OneInitializer)'
  BY <1>17 DEF ClaimAges
<1>18. ASSUME NEW k \in Claims, PaymentAges(k) PROVE (InsertedFirst /\ OneInitializer)'
  BY <1>18 DEF PaymentAges
<1>19. CASE ReconcileFetch
  BY <1>19 DEF ReconcileFetch
<1>20. CASE CrashRestart
  BY <1>20 DEF CrashRestart
<1>21. CASE UNCHANGED vars
  BY <1>21 DEF vars
<1> QED
  BY <1>1, <1>2, <1>3, <1>4, <1>5, <1>6, <1>7, <1>8, <1>9, <1>10, <1>11,
     <1>12, <1>13, <1>14, <1>15, <1>16, <1>17, <1>18, <1>19, <1>20, <1>21 DEF Next, InitializeStep

\* Of any number of concurrent Initialize calls for a claim at most one is past
\* its INSERT, so the gateway is never asked by two calls for one claim.
THEOREM InitializerCorrect == Spec => []OneInitializer
<1>1. Init => InsertedFirst /\ OneInitializer
  BY DEF Init, InsertedFirst, OneInitializer, PastInsert
<1>2. TypeOK /\ InsertedFirst /\ OneInitializer /\ [Next]_vars
        => InsertedFirst' /\ OneInitializer'
  BY InitializerStep
<1> QED
  BY <1>1, <1>2, TypeCorrect, PTL DEF Spec

-----------------------------------------------------------------------------
(* How often a claim can be credited.                                       *)

Retrying == {"INITIALIZING", "initialized", "rejected"}

Calling(k) == \E i \in Calls : Target[i] = k /\ ini[i] \in PastInsert

\* An Initialize call or a retry may still find that the other was faster.
Racing(k) == pay[k] \in {"NONE", "INITIALIZING"} \/ batch[k] \in Retrying \/ Calling(k)

\* Whoever moves a payment out of INITIALIZING is done with it: the other may come
\* late, but not both.  A worker that polls a payment has seen it PENDING.
Racers ==
    \A k \in Claims :
        /\ batch[k] \in Retrying /\ Calling(k) => pay[k] = "INITIALIZING"
        /\ batch[k] \in Retrying => pay[k] # "NONE"
        /\ batch[k] = "PENDING" => pay[k] \in {"PENDING", "CONFIRMED", "FAILED"}

One(p) == IF p THEN 1 ELSE 0

\* The credits that may still come: of a delivery, of a release, of a late racer
\* and of a poll that a webhook has overtaken.
ToCome(k) ==
    hooks[k] + One(k \in async) + One(claim[k] \in {"NONE", "CLAIMED"})
        + One(Racing(k)) + One(batch[k] = "PENDING" /\ pay[k] = "FAILED")

\* What makes CreditsBounded inductive: a credit uses up one that was to come.
CreditsPlanned == \A k \in Claims : credits[k] + ToCome(k) <= 2 + MaxHooks

\* An Initialize call that is past its INSERT is the only one of its claim.
LEMMA OnlyCaller ==
  ASSUME TypeOK, OneInitializer, NEW i \in Calls, ini[i] \in PastInsert,
         NEW j \in Calls, ini[j] \in PastInsert, Target[i] = Target[j]
  PROVE  i = j
BY DEF OneInitializer, PastInsert

\* The race between an Initialize call and the retry has one loser.
LEMMA RacersStep ==
  TypeOK /\ InsertedFirst /\ OneInitializer /\ Racers /\ [Next]_vars => Racers'
<1> SUFFICES ASSUME TypeOK, InsertedFirst, OneInitializer, Racers, [Next]_vars PROVE Racers'
  OBVIOUS
<1> USE TargetAssumption, OnlyCaller
    DEF TypeOK, InsertedFirst, Racers, Calling, Retrying, PastInsert, PayStatus, OpenStatus,
        IniLabels, BatchStatus, rowVars, gateVars
<1>1. ASSUME NEW i \in Calls, GetExistingPayment(i) PROVE Racers'
  BY <1>1 DEF GetExistingPayment, ReturnExisting, Goto
<1>2. ASSUME NEW i \in Calls, ValidateClaim(i) PROVE Racers'
  BY <1>2 DEF ValidateClaim, Goto
<1>3. ASSUME NEW i \in Calls, CreatePayment(i) PROVE Racers'
  BY <1>3 DEF CreatePayment, ReturnExisting, Goto
<1>4. ASSUME NEW i \in Calls, InitializeTransaction(i) PROVE Racers'
  BY <1>4 DEF InitializeTransaction, Goto
<1>5. ASSUME NEW i \in Calls, FinishInitialize(i) PROVE Racers'
  BY <1>5 DEF FinishInitialize, MarkPending, Goto
<1>6. ASSUME NEW i \in Calls, HandleGatewayInitError(i) PROVE Racers'
  BY <1>6 DEF HandleGatewayInitError, FailureFlow, Goto
<1>7. ASSUME NEW k \in Claims, Checkout(k) PROVE Racers'
  BY <1>7 DEF Checkout
<1>8. ASSUME NEW k \in Claims, HandleWebhook(k) PROVE Racers'
  BY <1>8 DEF HandleWebhook
<1>9. ASSUME NEW k \in Claims, ProcessCharge(k) PROVE Racers'
  BY <1>9 DEF ProcessCharge, ConfirmFlow, FailureFlow
<1>10. ASSUME NEW k \in Claims, RetryInitialization(k) PROVE Racers'
  BY <1>10 DEF RetryInitialization, Drop
<1>11. ASSUME NEW k \in Claims, RetryMarkPending(k) PROVE Racers'
  BY <1>11 DEF RetryMarkPending, MarkPending, Drop
<1>12. ASSUME NEW k \in Claims, RetryFail(k) PROVE Racers'
  BY <1>12 DEF RetryFail, FailureFlow, Drop
<1>13. ASSUME NEW k \in Claims, PollGatewayStatus(k) PROVE Racers'
  BY <1>13 DEF PollGatewayStatus, ConfirmFlow, FailureFlow, Drop
<1>14. ASSUME NEW k \in Claims, CreateClaim(k) PROVE Racers'
  BY <1>14 DEF CreateClaim
<1>15. ASSUME NEW k \in Claims, ReleaseClaim(k) PROVE Racers'
  BY <1>15 DEF ReleaseClaim
<1>16. ASSUME NEW k \in Claims, ExpireClaim(k) PROVE Racers'
  BY <1>16 DEF ExpireClaim, ReleaseClaim
<1>17. ASSUME NEW k \in Claims, ClaimAges(k) PROVE Racers'
  BY <1>17 DEF ClaimAges
<1>18. ASSUME NEW k \in Claims, PaymentAges(k) PROVE Racers'
  BY <1>18 DEF PaymentAges
<1>19. CASE ReconcileFetch
  BY <1>19 DEF ReconcileFetch
<1>20. CASE CrashRestart
  BY <1>20 DEF CrashRestart
<1>21. CASE UNCHANGED vars
  BY <1>21 DEF vars
<1> QED
  BY <1>1, <1>2, <1>3, <1>4, <1>5, <1>6, <1>7, <1>8, <1>9, <1>10, <1>11,
     <1>12, <1>13, <1>14, <1>15, <1>16, <1>17, <1>18, <1>19, <1>20, <1>21 DEF Next, InitializeStep

\* Every step that credits a claim uses up a delivery, its release, the race or an
\* overtaken poll, and no step brings one of them back.
LEMMA CreditsStep ==
  /\ TypeOK /\ InsertedFirst /\ OneInitializer /\ Racers
  /\ SettledTogether /\ ConfirmedIsPaid /\ CreditsPlanned /\ [Next]_vars
  => CreditsPlanned'
<1> SUFFICES ASSUME TypeOK, InsertedFirst, OneInitializer, Racers,
                    SettledTogether, ConfirmedIsPaid, CreditsPlanned, [Next]_vars
             PROVE  CreditsPlanned'
  OBVIOUS
<1> USE TargetAssumption, BoundsAssumption, OnlyCaller
    DEF TypeOK, InsertedFirst, Racers, Calling, Racing, Retrying, PastInsert, CreditsPlanned,
        ToCome, One, PayStatus, OpenStatus, IniLabels, BatchStatus, rowVars, gateVars
<1>1. ASSUME NEW i \in Calls, GetExistingPayment(i) PROVE CreditsPlanned'
  BY <1>1 DEF GetExistingPayment, ReturnExisting, Goto
<1>2. ASSUME NEW i \in Calls, ValidateClaim(i) PROVE CreditsPlanned'
  BY <1>2 DEF ValidateClaim, Goto
<1>3. ASSUME NEW i \in Calls, CreatePayment(i) PROVE CreditsPlanned'
  BY <1>3 DEF CreatePayment, ReturnExisting, Goto
<1>4. ASSUME NEW i \in Calls, InitializeTransaction(i) PROVE CreditsPlanned'
  BY <1>4 DEF InitializeTransaction, Goto
<1>5. ASSUME NEW i \in Calls, FinishInitialize(i) PROVE CreditsPlanned'
  BY <1>5 DEF FinishInitialize, MarkPending, Goto
<1>6. ASSUME NEW i \in Calls, HandleGatewayInitError(i) PROVE CreditsPlanned'
  BY <1>6 DEF HandleGatewayInitError, FailureFlow, Restore, Ledger!UpdateStatus, Goto
<1>7. ASSUME NEW k \in Claims, Checkout(k) PROVE CreditsPlanned'
  BY <1>7 DEF Checkout
<1>8. ASSUME NEW k \in Claims, HandleWebhook(k) PROVE CreditsPlanned'
  BY <1>8 DEF HandleWebhook
<1>9. ASSUME NEW k \in Claims, ProcessCharge(k) PROVE CreditsPlanned'
  BY <1>9 DEF ProcessCharge, ConfirmFlow, FailureFlow, Restore, Ledger!UpdateStatus
<1>10. ASSUME NEW k \in Claims, RetryInitialization(k) PROVE CreditsPlanned'
  BY <1>10 DEF RetryInitialization, Drop
<1>11. ASSUME NEW k \in Claims, RetryMarkPending(k) PROVE CreditsPlanned'
  BY <1>11 DEF RetryMarkPending, MarkPending, Drop
<1>12. ASSUME NEW k \in Claims, RetryFail(k) PROVE CreditsPlanned'
  BY <1>12 DEF RetryFail, FailureFlow, Restore, Ledger!UpdateStatus, Drop
<1>13. ASSUME NEW k \in Claims, PollGatewayStatus(k) PROVE CreditsPlanned'
  <2>1. pay[k] = "CONFIRMED" => tx[k] = "success"
    BY DEF SettledTogether, ConfirmedIsPaid
  <2> QED
    BY <1>13, <2>1 DEF PollGatewayStatus, ConfirmFlow, FailureFlow, Restore, Ledger!UpdateStatus, Drop
<1>14. ASSUME NEW k \in Claims, CreateClaim(k) PROVE CreditsPlanned'
  BY <1>14 DEF CreateClaim, Ledger!Create
<1>15. ASSUME NEW k \in Claims, ReleaseClaim(k) PROVE CreditsPlanned'
  BY <1>15 DEF ReleaseClaim, Restore, Ledger!UpdateStatus
<1>16. ASSUME NEW k \in Claims, ExpireClaim(k) PROVE CreditsPlanned'
  BY <1>16 DEF ExpireClaim, ReleaseClaim, Restore, Ledger!UpdateStatus
<1>17. ASSUME NEW k \in Claims, ClaimAges(k) PROVE CreditsPlanned'
  BY <1>17 DEF ClaimAges
<1>18. ASSUME NEW k \in Claims, PaymentAges(k) PROVE CreditsPlanned'
  BY <1>18 DEF PaymentAges
<1>19. CASE ReconcileFetch
  BY <1>19 DEF ReconcileFetch
<1>20. CASE CrashRestart
  BY <1>20 DEF CrashRestart
<1>21. CASE UNCHANGED vars
  BY <1>21 DEF vars
<1> QED
  BY <1>1, <1>2, <1>3, <1>4, <1>5, <1>6, <1>7, <1>8, <1>9, <1>10, <1>11,
     <1>12, <1>13, <1>14, <1>15, <1>16, <1>17, <1>18, <1>19, <1>20, <1>21 DEF Next, InitializeStep

\* A claim is credited at most twice, plus once per webhook delivery, for every
\* number of Initialize calls, deliveries and faults.
THEOREM CreditsCorrect == Spec => []CreditsBounded
<1> DEFINE Inv == InsertedFirst /\ OneInitializer /\ Racers /\ CreditsPlanned
<1>1. Init => Inv
  BY BoundsAssumption
     DEF Init, InsertedFirst, OneInitializer, PastInsert, Racers, Retrying, Calling, Racing,
         CreditsPlanned, ToCome, One
<1>2. TypeOK /\ SettledTogether /\ ConfirmedIsPaid /\ Inv /\ [Next]_vars => Inv'
  BY InitializerStep, RacersStep, CreditsStep
<1>3. TypeOK /\ Inv => CreditsBounded
  BY BoundsAssumption DEF TypeOK, CreditsPlanned, ToCome, One, CreditsBounded
<1> QED
  BY <1>1, <1>2, <1>3, TypeCorrect, SettledCorrect, PaidCorrect, PTL DEF Spec

-----------------------------------------------------------------------------
(* Charges that are recorded as failed, and payments nobody settles.        *)

\* A customer pays only with a URL, and a URL is given out only for a payment whose
\* Initialize call got past the gateway; what the worker retries is stale for as
\* long as it is INITIALIZING; and a payment fails because the gateway said so,
\* because the worker gave it up, or before anybody could be given its URL.
GivenInv ==
    \A k \in Claims :
        /\ tx[k] = "success" => k \in url
        /\ k \in url => pay[k] # "NONE"
        /\ pay[k] = "INITIALIZING" /\ batch[k] # "none" => k \in stale
        /\ \A i \in Calls :
              Target[i] = k /\ ini[i] \in {"gateway", "reject"} /\ pay[k] = "INITIALIZING"
                  => k \notin url
        /\ pay[k] = "FAILED" =>
              \/ tx[k] \in {"failed", "abandoned"}
              \/ k \in stale
              \/ k \notin url /\ ~Calling(k)

\* Every step keeps GivenInv.
LEMMA GivenStep ==
  TypeOK /\ InsertedFirst /\ OneInitializer /\ Racers /\ GivenInv /\ [Next]_vars => GivenInv'
<1> SUFFICES ASSUME TypeOK, InsertedFirst, OneInitializer, Racers, GivenInv, [Next]_vars
             PROVE  GivenInv'
  OBVIOUS
<1> USE TargetAssumption, OnlyCaller
    DEF TypeOK, InsertedFirst, GivenInv, Calling, PastInsert, PayStatus, TxStatus, IniLabels,
        BatchStatus, rowVars, gateVars
<1>1. ASSUME NEW i \in Calls, GetExistingPayment(i) PROVE GivenInv'
  BY <1>1 DEF GetExistingPayment, ReturnExisting, Goto
<1>2. ASSUME NEW i \in Calls, ValidateClaim(i) PROVE GivenInv'
  BY <1>2 DEF ValidateClaim, Goto
<1>3. ASSUME NEW i \in Calls, CreatePayment(i) PROVE GivenInv'
  BY <1>3 DEF CreatePayment, ReturnExisting, Goto, Racers, Retrying
<1>4. ASSUME NEW i \in Calls, InitializeTransaction(i) PROVE GivenInv'
  BY <1>4 DEF InitializeTransaction, GatewayAccepts, GatewayRejects, GatewayUnavailable, Opened, Goto
<1>5. ASSUME NEW i \in Calls, FinishInitialize(i) PROVE GivenInv'
  BY <1>5 DEF FinishInitialize, MarkPending, Goto
<1>6. ASSUME NEW i \in Calls, HandleGatewayInitError(i) PROVE GivenInv'
  BY <1>6 DEF HandleGatewayInitError, FailureFlow, Goto
<1>7. ASSUME NEW k \in Claims, Checkout(k) PROVE GivenInv'
  BY <1>7 DEF Checkout
<1>8. ASSUME NEW k \in Claims, ProcessCharge(k) PROVE GivenInv'
  BY <1>8 DEF ProcessCharge, ConfirmFlow, FailureFlow
<1>9. ASSUME NEW k \in Claims, RetryInitialization(k) PROVE GivenInv'
  BY <1>9 DEF RetryInitialization, GatewayAccepts, GatewayRejects, GatewayUnavailable, Opened, Drop
<1>10. ASSUME NEW k \in Claims, RetryMarkPending(k) PROVE GivenInv'
  BY <1>10 DEF RetryMarkPending, MarkPending, Drop
<1>11. ASSUME NEW k \in Claims, RetryFail(k) PROVE GivenInv'
  BY <1>11 DEF RetryFail, FailureFlow, Drop
<1>12. ASSUME NEW k \in Claims, PollGatewayStatus(k) PROVE GivenInv'
  BY <1>12 DEF PollGatewayStatus, ConfirmFlow, FailureFlow, Drop
<1>13. ASSUME NEW k \in Claims, PaymentAges(k) PROVE GivenInv'
  BY <1>13 DEF PaymentAges
<1>14. CASE ReconcileFetch
  BY <1>14 DEF ReconcileFetch, OpenStatus
<1>15. CASE CrashRestart
  BY <1>15 DEF CrashRestart
<1>16. ASSUME UNCHANGED <<pay, stale, tx, url, ini, batch>> PROVE GivenInv'
  BY <1>16
<1>17. ASSUME NEW k \in Claims,
              \/ HandleWebhook(k) \/ CreateClaim(k) \/ ReleaseClaim(k) \/ ExpireClaim(k)
              \/ ClaimAges(k)
       PROVE  GivenInv'
  BY <1>16, <1>17 DEF HandleWebhook, CreateClaim, ReleaseClaim, ExpireClaim, ClaimAges
<1>18. CASE UNCHANGED vars
  BY <1>16, <1>18 DEF vars
<1> QED
  BY <1>1, <1>2, <1>3, <1>4, <1>5, <1>6, <1>7, <1>8, <1>9, <1>10, <1>11,
     <1>12, <1>13, <1>14, <1>15, <1>17, <1>18 DEF Next, InitializeStep

\* A FAILED payment was charged only if it was stale: the Initialize call that is
\* rejected never gave a URL away, and the gateway does not charge without one.
THEOREM FailedChargeCorrect == Spec => []FailedChargeWasStale
<1> DEFINE Inv == InsertedFirst /\ OneInitializer /\ Racers /\ GivenInv
<1>1. Init => Inv
  BY BoundsAssumption
     DEF Init, InsertedFirst, OneInitializer, PastInsert, Racers, Retrying, Calling, GivenInv
<1>2. TypeOK /\ Inv /\ [Next]_vars => Inv'
  BY InitializerStep, RacersStep, GivenStep
<1>3. Inv => FailedChargeWasStale
  BY DEF GivenInv, FailedChargeWasStale
<1> QED
  BY <1>1, <1>2, <1>3, TypeCorrect, PTL DEF Spec

\* The claim was released under an open payment.
Orphaned(k) == claim[k] = "RELEASED" /\ pay[k] \in OpenStatus

\* confirmFlow and failureFlow find no CLAIMED row and roll back; MarkPending
\* leaves the payment open.
LEMMA OrphanedStep ==
  ASSUME NEW k \in Claims PROVE TypeOK /\ Orphaned(k) /\ [Next]_vars => Orphaned(k)'
<1> SUFFICES ASSUME TypeOK, Orphaned(k), [Next]_vars PROVE Orphaned(k)'
  OBVIOUS
<1> USE TargetAssumption DEF TypeOK, Orphaned, OpenStatus, rowVars, gateVars
<1>1. ASSUME NEW l \in Claims,
             \/ ConfirmFlow(l)
             \/ \E expected \in OpenStatus : FailureFlow(l, expected)
      PROVE  Orphaned(k)'
  BY <1>1 DEF ConfirmFlow, FailureFlow, Ledger!UpdateStatus
<1>2. ASSUME NEW l \in Claims, MarkPending(l), UNCHANGED claim PROVE Orphaned(k)'
  BY <1>2 DEF MarkPending
<1>3. ASSUME NEW l \in Claims, ProcessCharge(l) \/ PollGatewayStatus(l) \/ RetryFail(l)
      PROVE  Orphaned(k)'
  BY <1>1, <1>3 DEF ProcessCharge, PollGatewayStatus, RetryFail
<1>4. ASSUME NEW i \in Calls, HandleGatewayInitError(i) PROVE Orphaned(k)'
  BY <1>1, <1>4 DEF HandleGatewayInitError
<1>5. ASSUME NEW i \in Calls, FinishInitialize(i) PROVE Orphaned(k)'
  BY <1>2, <1>5 DEF FinishInitialize
<1>6. ASSUME NEW l \in Claims, RetryMarkPending(l) PROVE Orphaned(k)'
  BY <1>2, <1>6 DEF RetryMarkPending
<1>7. ASSUME NEW i \in Calls, CreatePayment(i) PROVE Orphaned(k)'
  BY <1>7 DEF CreatePayment
<1>8. ASSUME NEW l \in Claims, CreateClaim(l) \/ ReleaseClaim(l) \/ ExpireClaim(l)
      PROVE  Orphaned(k)'
  BY <1>8 DEF CreateClaim, ReleaseClaim, ExpireClaim, Ledger!Create, Ledger!UpdateStatus
<1>9. ASSUME UNCHANGED <<claim, pay>> PROVE Orphaned(k)'
  BY <1>9
<1>10. ASSUME NEW i \in Calls,
              GetExistingPayment(i) \/ ValidateClaim(i) \/ InitializeTransaction(i)
       PROVE  Orphaned(k)'
  BY <1>9, <1>10 DEF GetExistingPayment, ValidateClaim, InitializeTransaction
<1>11. ASSUME NEW l \in Claims,
              \/ Checkout(l) \/ HandleWebhook(l) \/ RetryInitialization(l) \/ ClaimAges(l)
              \/ PaymentAges(l)
       PROVE  Orphaned(k)'
  BY <1>9, <1>11 DEF Checkout, HandleWebhook, RetryInitialization, ClaimAges, PaymentAges
<1>12. CASE ReconcileFetch \/ CrashRestart \/ UNCHANGED vars
  BY <1>9, <1>12 DEF ReconcileFetch, CrashRestart, vars
<1> QED
  BY <1>3, <1>4, <1>5, <1>6, <1>7, <1>8, <1>10, <1>11, <1>12 DEF Next, InitializeStep

\* The payment of a claim that was released first is never settled, however often
\* the webhook is delivered and however long reconciliation goes on: what the run
\* payments_stuck finds once is permanent.
THEOREM NeverSettlesCorrect == Spec => ReleasedNeverSettles
<1> SUFFICES ASSUME NEW k \in Claims
             PROVE  Spec => [](claim[k] = "RELEASED" /\ pay[k] \in OpenStatus
                                  => [](pay[k] \in OpenStatus))
  BY DEF ReleasedNeverSettles
<1>1. claim[k] = "RELEASED" /\ pay[k] \in OpenStatus => Orphaned(k)
  BY DEF Orphaned
<1>2. TypeOK /\ Orphaned(k) /\ [Next]_vars => Orphaned(k)'
  BY OrphanedStep
<1>3. Orphaned(k) => pay[k] \in OpenStatus
  BY DEF Orphaned
<1> QED
  BY <1>1, <1>2, <1>3, TypeCorrect, PTL DEF Spec

-----------------------------------------------------------------------------
(* The claims table is used as ClaimLedger allows.                          *)

\* TicketPayments implements ClaimLedger, as TicketClaims does: the payment
\* service and the claim service may share the table.
THEOREM ImplementsLedger == Spec => LedgerSpec
<1>1. Init => Ledger!Init
  BY DEF Init, Ledger!Init
<1>2. ASSUME [Next]_vars PROVE [Ledger!Next]_claim
  <2> USE TargetAssumption DEF rowVars, gateVars
  <2>1. ASSUME NEW k \in Claims, CreateClaim(k) PROVE [Ledger!Next]_claim
    BY <2>1 DEF CreateClaim, Ledger!Next
  <2>2. ASSUME NEW k \in Claims, ReleaseClaim(k) \/ ExpireClaim(k)
        PROVE  [Ledger!Next]_claim
    BY <2>2 DEF ReleaseClaim, ExpireClaim, Ledger!Next
  <2>3. ASSUME NEW k \in Claims,
               \/ ConfirmFlow(k)
               \/ \E expected \in OpenStatus : FailureFlow(k, expected)
               \/ UNCHANGED claim
        PROVE  [Ledger!Next]_claim
    BY <2>3 DEF ConfirmFlow, FailureFlow, Ledger!Next
  <2>4. ASSUME NEW k \in Claims, ProcessCharge(k) \/ PollGatewayStatus(k) \/ RetryFail(k)
        PROVE  [Ledger!Next]_claim
    BY <2>3, <2>4 DEF ProcessCharge, PollGatewayStatus, RetryFail, OpenStatus
  <2>5. ASSUME NEW i \in Calls, HandleGatewayInitError(i) PROVE [Ledger!Next]_claim
    BY <2>3, <2>5 DEF HandleGatewayInitError, OpenStatus
  <2>6. ASSUME NEW i \in Calls,
               \/ GetExistingPayment(i) \/ ValidateClaim(i) \/ CreatePayment(i)
               \/ InitializeTransaction(i) \/ FinishInitialize(i)
        PROVE  UNCHANGED claim
    BY <2>6 DEF GetExistingPayment, ValidateClaim, CreatePayment,
                InitializeTransaction, FinishInitialize
  <2>7. ASSUME NEW k \in Claims,
               \/ Checkout(k) \/ HandleWebhook(k) \/ RetryInitialization(k)
               \/ RetryMarkPending(k) \/ ClaimAges(k) \/ PaymentAges(k)
        PROVE  UNCHANGED claim
    BY <2>7 DEF Checkout, HandleWebhook, RetryInitialization, RetryMarkPending,
                ClaimAges, PaymentAges
  <2>8. ASSUME ReconcileFetch \/ CrashRestart \/ UNCHANGED vars PROVE UNCHANGED claim
    BY <2>8 DEF ReconcileFetch, CrashRestart, vars
  <2> QED
    BY <1>2, <2>1, <2>2, <2>4, <2>5, <2>6, <2>7, <2>8 DEF Next, InitializeStep
<1> QED
  BY <1>1, <1>2, PTL DEF Spec, LedgerSpec, Ledger!Spec
=============================================================================
