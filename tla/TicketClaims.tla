---------------------------- MODULE TicketClaims ----------------------------
(***************************************************************************)
(* Claiming the tickets of one event: ClaimService and the inventory       *)
(* coordinator (internal/service), the Redis inventory counter and claim   *)
(* lock (internal/store/redis), the claims table (internal/store/postgres) *)
(* and the three background activities that touch the counter: the expiry  *)
(* worker, the reconciliation worker and the recovery at start-up          *)
(* (internal/worker).                                                      *)
(*                                                                         *)
(* One step is one call to Redis or to Postgres, so everything that another*)
(* goroutine can do between two calls of a request is explored.  A call    *)
(* may fail, and may also take effect and lose its reply.  The payment     *)
(* service appears here only through the transactions it commits on the    *)
(* claims table and the credits it gives back (TicketPayments has the      *)
(* rest); queue.Complete at the end of Claim touches none of this state.   *)
(***************************************************************************)
EXTENDS Integers, FiniteSets

CONSTANTS
    Requests,    \* calls of ClaimService.Claim; call r inserts the row r
    Customers,
    Owner,       \* the customer named by the admission token of a call
    Total,       \* event.TotalInventory
    MaxFaults,   \* bound: failed calls, repeated webhooks, wipes and crashes
    NoKey        \* the inventory key does not exist in Redis

ASSUME RequestsAssumption == IsFiniteSet(Requests)
ASSUME OwnerAssumption    == Owner \in [Requests -> Customers]
ASSUME TotalAssumption    == Total \in Nat \ {0}
ASSUME FaultsAssumption   == MaxFaults \in Nat
ASSUME NoKeyAssumption    == NoKey \notin Int

VARIABLES
    claim,      \* claims table: status of row r, "NONE" before the INSERT
    aged,       \* rows older than ClaimTTL
    status,     \* events.status
    counter,    \* Redis inventory:{event}, or NoKey
    lock,       \* customers whose Redis claim lock exists
    pc,         \* where each Claim call is
    owns,       \* calls whose Acquire succeeded: they will DEL the lock
    count,      \* the fallback's local count of free tickets
    last,       \* calls whose local newCount is <= 0
    releasing,  \* rows a Release call has found CLAIMED and will update
    credit,     \* who released row r and still has to INCR the counter
    batch,      \* rows the expiry worker has fetched and not yet updated
    rec,        \* where the reconciliation worker is
    recCount,   \* its local pgCount
    up,         \* the server process runs
    faults,     \* faults left
    inflation,  \* history: first step that let the counter exceed Free
    lapses      \* history: how often a customer's lock vanished while it was held

pgVars     == <<claim, aged, status>>
redisVars  == <<counter, lock>>
reqVars    == <<pc, owns, count, last>>
creditVars == <<releasing, credit>>
recVars    == <<rec, recCount>>
envVars    == <<up, faults>>
histVars   == <<inflation, lapses>>
vars == <<pgVars, redisVars, reqVars, creditVars, batch, recVars, envVars, histVars>>

Ledger == INSTANCE ClaimLedger

EventStatus == {"ACTIVE", "SOLD_OUT", "ENDED"}  \* tokens exist: no longer DRAFT
Labels == {"idle", "lock", "decrement", "count", "sync", "retry", "unlock",
           "unlockFail", "insert", "rollback", "soldout", "done", "refused"}
Section == {"decrement", "count", "sync", "retry", "unlock", "unlockFail"}
Final  == {"idle", "done", "refused"}
Actors == {"none", "user", "worker", "payment"}
Causes == {"none", "ignoredMiss", "fallbackSync", "lostInsertReply",
           "repeatedCredit", "reconcileSync", "recovery"}

-----------------------------------------------------------------------------
(* The inventory as Postgres sees it, and as it really is.                  *)

\* Mutant of CountActive: claims past their TTL are not counted.
CountActiveFresh == Cardinality({r \in Requests : claim[r] = "CLAIMED" /\ r \notin aged})

CountActive == Cardinality({r \in Requests : claim[r] = "CLAIMED"})

\* What the fallback, the reconciliation and the recovery compute.
PgCount == Total - CountActive

\* Get: a missing key reads as -1.
RedisCount == IF counter = NoKey THEN -1 ELSE counter

\* INCRBY of a missing key starts from 0.
Incr(c) == IF c = NoKey THEN 1 ELSE c + 1

Held     == {r \in Requests : claim[r] \in {"CLAIMED", "CONFIRMED"}}
Reserved == {r \in Requests : pc[r] \in {"unlock", "insert", "rollback"}}
Owed     == {r \in Requests : credit[r] # "none"}

\* Tickets nobody holds, has taken out of the counter, or will give back.
Free == Total - Cardinality(Held) - Cardinality(Reserved) - Cardinality(Owed)

CounterSound == Free >= 0 /\ (counter # NoKey => counter <= Free)

\* The last conjunct of every step that overwrites the counter, or takes or
\* gives a ticket without the other half of the exchange.
Record(cause) ==
    inflation' = IF inflation = "none" /\ ~CounterSound' THEN cause ELSE inflation

-----------------------------------------------------------------------------
(* A Claim call.                                                            *)

Goto(r, label) == pc' = [pc EXCEPT ![r] = label]
At(r, label)   == up /\ pc[r] = label
Fault          == faults > 0 /\ faults' = faults - 1

Init ==
    /\ claim = [r \in Requests |-> "NONE"]
    /\ aged = {}
    /\ status = "ACTIVE"
    /\ counter = Total           \* no token is issued before it was read above 0
    /\ lock = {}
    /\ pc = [r \in Requests |-> "idle"]
    /\ owns = {}
    /\ count = [r \in Requests |-> 0]
    /\ last = {}
    /\ releasing = {}
    /\ credit = [r \in Requests |-> "none"]
    /\ batch = {}
    /\ rec = "idle"
    /\ recCount = 0
    /\ up = TRUE
    /\ faults = MaxFaults
    /\ inflation = "none"
    /\ lapses = [c \in Customers |-> 0]

EnsureNotClaimed(r) ==
    /\ At(r, "idle")
    /\ \/ Ledger!HasClaim(Owner[r]) /\ Goto(r, "refused") /\ UNCHANGED faults
       \/ ~Ledger!HasClaim(Owner[r]) /\ Goto(r, "lock") /\ UNCHANGED faults
       \/ Fault /\ Goto(r, "refused")
    /\ UNCHANGED <<pgVars, redisVars, owns, count, last, creditVars, batch,
                   recVars, up, histVars>>

\* Mutant of Acquire: SET without NX, the lock is always acquired.
AcquireWithoutNX(r) ==
    /\ At(r, "lock")
    /\ lock' = lock \cup {Owner[r]}
    /\ owns' = owns \cup {r}
    /\ Goto(r, "decrement")
    /\ UNCHANGED <<pgVars, counter, count, last, creditVars, batch, recVars, envVars, histVars>>

\* When Redis fails, the call goes on without owning the lock, also when the
\* SET NX took effect and only its reply was lost: that key has no owner.
Acquire(r) ==
    /\ At(r, "lock")
    /\ \/ /\ Owner[r] \notin lock
          /\ lock' = lock \cup {Owner[r]}
          /\ owns' = owns \cup {r}
          /\ Goto(r, "decrement") /\ UNCHANGED faults
       \/ /\ Owner[r] \in lock
          /\ Goto(r, "refused") /\ UNCHANGED <<lock, owns, faults>>
       \/ /\ Fault
          /\ Goto(r, "decrement") /\ UNCHANGED owns
          /\ lock' \in {lock, lock \cup {Owner[r]}}
    /\ UNCHANGED <<pgVars, counter, count, last, creditVars, batch, recVars, up, histVars>>

\* The script found a ticket and took it: newCount is counter - 1.
TakeTicket(r) ==
    /\ counter # NoKey
    /\ counter > 0
    /\ counter' = counter - 1
    /\ last' = IF counter = 1 THEN last \cup {r} ELSE last
    /\ Goto(r, "unlock")

SoldOut(r) ==
    /\ counter # NoKey
    /\ counter <= 0
    /\ Goto(r, "unlockFail")
    /\ UNCHANGED <<counter, last>>

\* The script failed: it did not run, or it ran and its reply was lost.
DecrementFails(r) ==
    /\ Fault
    /\ Goto(r, "unlockFail")
    /\ \/ counter' = counter
       \/ counter # NoKey /\ counter > 0 /\ counter' = counter - 1
    /\ UNCHANGED last

AttemptDecrement(r) ==
    /\ At(r, "decrement")
    /\ \/ TakeTicket(r) /\ UNCHANGED faults
       \/ counter = NoKey /\ Goto(r, "count") /\ UNCHANGED <<counter, last, faults>>
       \/ SoldOut(r) /\ UNCHANGED faults
       \/ DecrementFails(r)
    /\ UNCHANGED <<pgVars, lock, owns, count, creditVars, batch, recVars, up, histVars>>

CountFromPostgres(r) ==
    /\ At(r, "count")
    /\ \/ /\ PgCount <= 0
          /\ Goto(r, "unlockFail") /\ UNCHANGED <<count, faults>>
       \/ /\ PgCount > 0
          /\ count' = [count EXCEPT ![r] = PgCount]
          /\ Goto(r, "sync") /\ UNCHANGED faults
       \/ Fault /\ Goto(r, "unlockFail") /\ UNCHANGED count
    /\ UNCHANGED <<pgVars, redisVars, owns, last, creditVars, batch, recVars, up, histVars>>

\* ForceSync of the count read one step earlier; a failure is only logged.
FallbackSync(r) ==
    /\ At(r, "sync")
    /\ Goto(r, "retry")
    /\ count' = [count EXCEPT ![r] = 0]
    /\ UNCHANGED <<pgVars, lock, owns, last, creditVars, batch, recVars, up, lapses>>
    /\ \/ counter' = count[r] /\ UNCHANGED faults /\ Record("fallbackSync")
       \/ Fault /\ UNCHANGED <<counter, inflation>>

\* The second AttemptDecrement: its cacheMiss result is discarded, so on a
\* miss the call goes on with newCount = 0 and no ticket taken.
RetryDecrement(r) ==
    /\ At(r, "retry")
    /\ UNCHANGED <<pgVars, lock, owns, count, creditVars, batch, recVars, up, lapses>>
    /\ \/ TakeTicket(r) /\ UNCHANGED <<faults, inflation>>
       \/ /\ counter = NoKey
          /\ Goto(r, "unlock") /\ last' = last \cup {r}
          /\ UNCHANGED <<counter, faults>>
          /\ Record("ignoredMiss")
       \/ SoldOut(r) /\ UNCHANGED <<faults, inflation>>
       \/ DecrementFails(r) /\ UNCHANGED inflation

\* The deferred Release of the lock: a DEL that does not look at the owner.
Unlock(r) ==
    /\ At(r, "unlock") \/ At(r, "unlockFail")
    /\ Goto(r, IF pc[r] = "unlock" THEN "insert" ELSE "refused")
    /\ owns' = owns \ {r}
    /\ \/ lock' = (IF r \in owns THEN lock \ {Owner[r]} ELSE lock) /\ UNCHANGED faults
       \/ r \in owns /\ Fault /\ UNCHANGED lock
    /\ UNCHANGED <<pgVars, counter, count, last, creditVars, batch, recVars, up, histVars>>

\* Mutant of CreateClaim: the index over CLAIMED rows is not unique.
CreateClaimTwice(r) ==
    /\ At(r, "insert")
    /\ claim' = [claim EXCEPT ![r] = "CLAIMED"]
    /\ Goto(r, IF r \in last THEN "soldout" ELSE "done")
    /\ UNCHANGED <<aged, status, redisVars, owns, count, last, creditVars, batch,
                   recVars, envVars, histVars>>

\* The INSERT of createClaim.  Any error leads to the rollback, also when the
\* row was committed and only the reply was lost.
CreateClaim(r) ==
    /\ At(r, "insert")
    /\ UNCHANGED <<aged, status, redisVars, owns, count, creditVars, batch, recVars, up, lapses>>
    /\ \/ /\ Ledger!Create(r)
          /\ Goto(r, IF r \in last THEN "soldout" ELSE "done")
          /\ UNCHANGED <<last, faults, inflation>>
       \/ /\ Ledger!HasClaim(Owner[r])
          /\ Goto(r, "rollback") /\ last' = last \ {r}
          /\ UNCHANGED <<claim, faults, inflation>>
       \/ /\ Fault
          /\ Goto(r, "rollback") /\ last' = last \ {r}
          /\ UNCHANGED <<claim, inflation>>
       \/ /\ Fault
          /\ Ledger!Create(r)
          /\ Goto(r, "rollback") /\ last' = last \ {r}
          /\ Record("lostInsertReply")

Rollback(r) ==
    /\ At(r, "rollback")
    /\ Goto(r, "refused")
    /\ \/ counter' = Incr(counter) /\ UNCHANGED faults
       \/ Fault /\ UNCHANGED counter
    /\ UNCHANGED <<pgVars, lock, owns, count, last, creditVars, batch, recVars, up, histVars>>

\* Mutant of MarkEventSoldOut: a status the schema does not know.
MarkEventClosed(r) ==
    /\ At(r, "soldout")
    /\ Goto(r, "done")
    /\ last' = last \ {r}
    /\ status' = "CLOSED"
    /\ UNCHANGED <<claim, aged, redisVars, owns, count, creditVars, batch, recVars, envVars, histVars>>

\* The event is loaded, but ErrInvalidTransition is ignored: whatever its
\* status is, it becomes SOLD_OUT.  A failure is only logged.
MarkEventSoldOut(r) ==
    /\ At(r, "soldout")
    /\ Goto(r, "done")
    /\ last' = last \ {r}
    /\ \/ status' = "SOLD_OUT" /\ UNCHANGED faults
       \/ Fault /\ UNCHANGED status
    /\ UNCHANGED <<claim, aged, redisVars, owns, count, creditVars, batch, recVars, up, histVars>>

ClaimStep(r) ==
    \/ Acquire(r) \/ AttemptDecrement(r) \/ CountFromPostgres(r)
    \/ FallbackSync(r) \/ RetryDecrement(r) \/ Unlock(r)
    \/ CreateClaim(r) \/ Rollback(r) \/ MarkEventSoldOut(r)

-----------------------------------------------------------------------------
(* Rows leave CLAIMED: Release, the expiry worker, the payment service.     *)

\* Mutant of ReleaseRow: the number of updated rows is not looked at.
ReleaseRowUncounted(r, who) ==
    /\ claim' = IF claim[r] = "CLAIMED" THEN [claim EXCEPT ![r] = "RELEASED"] ELSE claim
    /\ credit' = [credit EXCEPT ![r] = who]
    /\ UNCHANGED faults

\* The conditional UPDATE to RELEASED, whose caller owes an INCR if and only
\* if it is told that a row was updated.
ReleaseRow(r, who) ==
    \/ /\ Ledger!UpdateStatus(r, "RELEASED")
       /\ credit' = [credit EXCEPT ![r] = who] /\ UNCHANGED faults
    \/ /\ Ledger!UpdateStatus(r, "RELEASED")
       /\ Fault /\ UNCHANGED credit
    \/ claim[r] # "CLAIMED" /\ UNCHANGED <<claim, credit, faults>>
    \/ Fault /\ UNCHANGED <<claim, credit>>

\* Release is called with an id its customer was given: the call has returned.
ReleaseCheck(r) ==
    /\ At(r, "done")
    /\ claim[r] = "CLAIMED"
    /\ r \notin releasing
    /\ releasing' = releasing \cup {r}
    /\ UNCHANGED <<pgVars, redisVars, reqVars, credit, batch, recVars, envVars, histVars>>

ReleaseUpdate(r) ==
    /\ r \in releasing
    /\ releasing' = releasing \ {r}
    /\ ReleaseRow(r, "user")
    /\ UNCHANGED <<aged, status, redisVars, reqVars, batch, recVars, up, histVars>>

\* Increment after a release; a failure is only logged.
RestoreInventory(r) ==
    /\ credit[r] # "none"
    /\ credit' = [credit EXCEPT ![r] = "none"]
    /\ \/ counter' = Incr(counter) /\ UNCHANGED faults
       \/ Fault /\ UNCHANGED counter
    /\ UNCHANGED <<pgVars, lock, reqVars, releasing, batch, recVars, up, histVars>>

\* The transaction of confirmFlow.
ConfirmFlow(r) ==
    /\ At(r, "done")
    /\ Ledger!UpdateStatus(r, "CONFIRMED")
    /\ UNCHANGED <<aged, status, redisVars, reqVars, creditVars, batch, recVars, envVars, histVars>>

\* The transaction of failureFlow when it releases the claim.
FailureFlow(r) ==
    /\ At(r, "done")
    /\ Ledger!UpdateStatus(r, "RELEASED")
    /\ credit' = [credit EXCEPT ![r] = "payment"]
    /\ UNCHANGED <<aged, status, redisVars, reqVars, releasing, batch, recVars, envVars, histVars>>

\* failureFlow for a payment that is not in the expected state: nothing is
\* updated, the transaction commits, and the inventory is incremented again.
RepeatedCredit(r) ==
    /\ At(r, "done")
    /\ Fault
    /\ counter' = Incr(counter)
    /\ UNCHANGED <<pgVars, lock, reqVars, creditVars, batch, recVars, up, lapses>>
    /\ Record("repeatedCredit")

WorkerBusy == \E r \in Requests : credit[r] = "worker"

\* Mutant of ExpiryFetch: claims of events that are not ACTIVE are skipped.
ExpiryFetchActiveOnly ==
    /\ up /\ status = "ACTIVE"
    /\ batch = {} /\ ~WorkerBusy
    /\ batch' = {r \in Requests : claim[r] = "CLAIMED" /\ r \in aged}
    /\ UNCHANGED <<pgVars, redisVars, reqVars, creditVars, recVars, envVars, histVars>>

ExpiryFetch ==
    /\ up
    /\ batch = {} /\ ~WorkerBusy
    /\ batch' = {r \in Requests : claim[r] = "CLAIMED" /\ r \in aged}
    /\ UNCHANGED <<pgVars, redisVars, reqVars, creditVars, recVars, envVars, histVars>>

ExpiryRelease(r) ==
    /\ r \in batch /\ ~WorkerBusy
    /\ batch' = batch \ {r}
    /\ ReleaseRow(r, "worker")
    /\ UNCHANGED <<aged, status, redisVars, reqVars, releasing, recVars, up, histVars>>

-----------------------------------------------------------------------------
(* The reconciliation worker.                                               *)

\* Mutant of ReconcileFetch: SOLD_OUT events are not reconciled.
ReconcileFetchActiveOnly ==
    /\ up
    /\ rec = "idle"
    /\ status = "ACTIVE"
    /\ rec' = "count"
    /\ UNCHANGED <<pgVars, redisVars, reqVars, creditVars, batch, recCount, envVars, histVars>>

ReconcileFetch ==
    /\ up
    /\ rec = "idle"
    /\ status \in {"ACTIVE", "SOLD_OUT"}
    /\ rec' = "count"
    /\ UNCHANGED <<pgVars, redisVars, reqVars, creditVars, batch, recCount, envVars, histVars>>

ReconcileCount ==
    /\ rec = "count"
    /\ \/ rec' = "read" /\ recCount' = PgCount /\ UNCHANGED faults
       \/ Fault /\ rec' = "idle" /\ UNCHANGED recCount
    /\ UNCHANGED <<pgVars, redisVars, reqVars, creditVars, batch, up, histVars>>

ReconcileRead ==
    /\ rec = "read"
    /\ \/ /\ RedisCount = recCount
          /\ rec' = "idle" /\ recCount' = 0 /\ UNCHANGED faults
       \/ /\ RedisCount # recCount
          /\ rec' = "sync" /\ UNCHANGED <<recCount, faults>>
       \/ Fault /\ rec' = "idle" /\ recCount' = 0
    /\ UNCHANGED <<pgVars, redisVars, reqVars, creditVars, batch, up, histVars>>

ReconcileSync ==
    /\ rec = "sync"
    /\ rec' = "idle" /\ recCount' = 0
    /\ UNCHANGED <<pgVars, lock, reqVars, creditVars, batch, up, lapses>>
    /\ \/ counter' = recCount /\ UNCHANGED faults /\ Record("reconcileSync")
       \/ Fault /\ UNCHANGED <<counter, inflation>>

-----------------------------------------------------------------------------
(* Time, the organizer, and the failures of Redis and of the process.       *)

ClaimAges(r) ==
    /\ claim[r] = "CLAIMED"
    /\ r \notin aged
    /\ aged' = aged \cup {r}
    /\ UNCHANGED <<claim, status, redisVars, reqVars, creditVars, batch, recVars, envVars, histVars>>

EndEvent ==
    /\ up
    /\ status \in {"ACTIVE", "SOLD_OUT"}
    /\ status' = "ENDED"
    /\ UNCHANGED <<claim, aged, redisVars, reqVars, creditVars, batch, recVars, envVars, histVars>>

HeldBy(c) == {r \in owns : Owner[r] = c}

\* The keys of the customers in S vanish, some of them under their holders.
LocksVanish(S) ==
    /\ lock' = lock \ S
    /\ lapses' = [c \in Customers |->
                    lapses[c] + (IF c \in S /\ HeldBy(c) # {} THEN 1 ELSE 0)]

LockExpires(c) ==
    /\ c \in lock
    /\ LocksVanish({c})
    /\ UNCHANGED <<pgVars, counter, reqVars, creditVars, batch, recVars, envVars, inflation>>

RedisWipe ==
    /\ Fault
    /\ counter' = NoKey
    /\ LocksVanish(lock)
    /\ UNCHANGED <<pgVars, reqVars, creditVars, batch, recVars, up, inflation>>

\* Everything in memory is gone; deferred calls do not run.
Crash ==
    /\ up /\ Fault
    /\ up' = FALSE
    /\ pc' = [r \in Requests |-> IF pc[r] \in Final THEN pc[r] ELSE "refused"]
    /\ owns' = {}
    /\ count' = [r \in Requests |-> 0]
    /\ last' = {}
    /\ releasing' = {}
    /\ credit' = [r \in Requests |-> "none"]
    /\ batch' = {}
    /\ rec' = "idle" /\ recCount' = 0
    /\ UNCHANGED <<pgVars, redisVars, histVars>>

\* A boot that gets as far as serving (ServerProcess has the ones that do not,
\* among them every boot on a database that is already migrated).
\* RecoverRedisState runs before the workers and the HTTP server start, so
\* nothing else touches the event between its count and its SET NX.
Restart ==
    /\ ~up
    /\ up' = TRUE
    /\ UNCHANGED <<pgVars, lock, reqVars, creditVars, batch, recVars, lapses>>
    /\ \/ /\ status = "ACTIVE" /\ counter = NoKey
          /\ counter' = PgCount
          /\ UNCHANGED faults
          /\ Record("recovery")
       \/ /\ ~(status = "ACTIVE" /\ counter = NoKey)
          /\ UNCHANGED <<counter, faults, inflation>>
       \/ Fault /\ UNCHANGED <<counter, inflation>>

Next ==
    \/ \E r \in Requests :
          \/ EnsureNotClaimed(r) \/ ClaimStep(r)
          \/ ReleaseCheck(r) \/ ReleaseUpdate(r) \/ RestoreInventory(r)
          \/ ConfirmFlow(r) \/ FailureFlow(r) \/ RepeatedCredit(r)
          \/ ExpiryRelease(r) \/ ClaimAges(r)
    \/ \E c \in Customers : LockExpires(c)
    \/ ExpiryFetch
    \/ ReconcileFetch \/ ReconcileCount \/ ReconcileRead \/ ReconcileSync
    \/ EndEvent \/ RedisWipe \/ Crash \/ Restart

Spec == Init /\ [][Next]_vars

(***************************************************************************)
(* A call that has started goes on (each call to a store returns, with an  *)
(* error if need be), the schedulers tick for as long as the process runs, *)
(* and time passes.  Nothing obliges a customer to claim, release or pay,  *)
(* nor a stopped process to come up again.                                 *)
(***************************************************************************)
Fairness ==
    /\ \A r \in Requests :
          /\ WF_vars(ClaimStep(r))
          /\ WF_vars(ReleaseUpdate(r))
          /\ WF_vars(RestoreInventory(r))
          /\ WF_vars(ExpiryRelease(r))
          /\ WF_vars(ClaimAges(r))
    /\ WF_vars(ExpiryFetch)
    /\ WF_vars(ReconcileFetch) /\ WF_vars(ReconcileCount)
    /\ WF_vars(ReconcileRead)  /\ WF_vars(ReconcileSync)

FairSpec == Spec /\ Fairness

-----------------------------------------------------------------------------
(* Properties.                                                              *)

\* Every variable stays in its set: the statuses the schema knows, the control
\* points of the code, an integer or no key in Redis.
TypeOK ==
    /\ claim \in [Requests -> Ledger!ClaimStatus]
    /\ aged \subseteq Requests
    /\ status \in EventStatus
    /\ counter \in Int \cup {NoKey}
    /\ lock \subseteq Customers
    /\ pc \in [Requests -> Labels]
    /\ owns \subseteq Requests
    /\ count \in [Requests -> Int]
    /\ last \subseteq Requests
    /\ releasing \subseteq Requests
    /\ credit \in [Requests -> Actors]
    /\ batch \subseteq Requests
    /\ rec \in {"idle", "count", "read", "sync"}
    /\ recCount \in Int
    /\ up \in BOOLEAN
    /\ faults \in 0..MaxFaults
    /\ inflation \in Causes
    /\ lapses \in [Customers -> Nat]

\* How the table and the goroutines fit together: an INCR is owed only for a
\* row that was released, a call has inserted its row only when it is past the
\* INSERT, only calls inside decrementInventory own a lock, and nothing of a
\* crashed process survives in memory.
ControlOK ==
    /\ \A r \in Requests :
          /\ credit[r] # "none" => claim[r] = "RELEASED"
          /\ claim[r] # "NONE" => pc[r] \in {"rollback", "soldout", "done", "refused"}
    /\ \A r \in owns : pc[r] \in Section
    /\ ~up => /\ \A r \in Requests : pc[r] \in Final /\ credit[r] = "none"
              /\ releasing = {} /\ batch = {} /\ rec = "idle"

\* The counter and the tickets in flight never add up to more than is free,
\* so no interleaving of decrements, inserts, rollbacks, releases, expiries,
\* wipes and crashes oversells, unless one of the steps that Record names
\* (an overwrite of the counter with a stale or incomplete count, the
\* discarded second cache miss, the rollback of a committed INSERT, the
\* repeated credit) has broken the balance first.
SoundUnlessInflated == inflation = "none" => CounterSound

\* Corollary for the customer: without such a step, no more tickets are held
\* (CLAIMED or CONFIRMED) than the event has.
SoldWithinTotal == inflation = "none" => Cardinality(Held) <= Total

\* Whether the organizer has sold anything for good.
Paid == \E r \in Requests : claim[r] = "CONFIRMED"

\* The tickets that are in nobody's row but not in the counter either: taken
\* out before their INSERT, or released before their INCR.
InFlight == Reserved \cup Owed

\* An overwrite of the counter breaks the balance only for the reasons it can:
\* the recovery only because its count leaves out the CONFIRMED rows (nothing
\* is in flight while the process is down); the reconciliation and the fallback
\* also because of tickets in flight, or because the count they write is larger
\* than the one Postgres would give now; the discarded second cache miss only
\* when no ticket was free.  With no sale paid, no ticket in flight and a fresh
\* count, ForceSync and the recovery are sound.
OverwriteBlame ==
    [][inflation = "none" =>
          /\ inflation' = "recovery" => Paid
          /\ inflation' = "reconcileSync" =>
                Paid \/ InFlight # {} \/ recCount > PgCount
          /\ inflation' = "fallbackSync" =>
                \/ Paid \/ InFlight # {}
                \/ \E r \in Requests : pc[r] = "sync" /\ pc'[r] # "sync" /\ count[r] > PgCount
          /\ inflation' = "ignoredMiss" => Free = 0]_vars

\* README: "ensuring no overselling".  Not so when the reconciliation, or the
\* fallback of a second call, writes a count over the decrement of a call that
\* has not inserted its row yet, or one that leaves out the CONFIRMED rows.
NoOversell == Cardinality(Held) <= Total

\* The lock of ClaimService.decrementInventory: of one customer's calls at most
\* one more is between Acquire and Release as a lock holder than the lock has
\* lapsed (its TTL ran out, or Redis was wiped) under its holder.  With no lapse
\* it is a mutex; after one, the DEL of the call that overran its TTL takes the
\* key from the next holder and lets a third call in, but every such DEL is also
\* the end of a holder: one lapse never lets in two calls too many.
LockHolders == \A c \in Customers : Cardinality(HeldBy(c)) <= 1 + lapses[c]

\* Every holder is accounted for by the key or by a lapse.
LockBalance ==
    \A c \in Customers :
        Cardinality(HeldBy(c)) <= lapses[c] + (IF c \in lock THEN 1 ELSE 0)

\* The claims table is used only as ClaimLedger allows, by the request path,
\* the two release paths, the workers and the crashes together.
LedgerSpec == Ledger!Spec

\* While the process runs, a CLAIMED row does not stay CLAIMED: it is confirmed,
\* released, or the expiry worker releases it, whatever calls fail and also if
\* an earlier process crashed on it.  A process that is down releases nothing.
ClaimsExpire == \A r \in Requests : claim[r] = "CLAIMED" ~> claim[r] # "CLAIMED" \/ ~up

\* Once faults and requests have stopped, reconciliation makes the Redis count
\* equal to the Postgres count for good, for an event that has not ended, if the
\* process is running.
CounterHeals == <>[](up /\ status # "ENDED" => RedisCount = PgCount)
=============================================================================
