# FairQueue in TLA+

FairQueue sells the tickets of high-demand events. Customers join a virtual
queue, are admitted in batches, claim a ticket with a short-lived token, and pay
for the claim through Paystack. Postgres is the durable store; Redis holds what
must be fast: the number of tickets left, a lock per customer, and the queue.
This directory models the parts of the program in which those two stores, the
gateway, the request goroutines and the background workers interact.

## The system

| component | state | operations | interacts with |
|---|---|---|---|
| claim service, inventory coordinator (`service/claims.go`, `service/inventory_coordinator.go`) | locals of a call: the count read by the fallback, `newCount`, whether it owns the lock | `Claim`, `Release` | claims table, Redis counter and lock, events table, queue coordinator |
| Redis inventory (`store/redis/inventory.go`, `lock.go`) | `inventory:{event}` or no key; `lock:claim:{customer}:{event}` with a TTL | decrement script, INCR, SET, SET NX, DEL | every component that takes or returns a ticket |
| claims table (`store/postgres/claim_store.go`, schema) | rows CLAIMED, CONFIRMED, RELEASED; partial unique index on CLAIMED rows | INSERT, conditional UPDATE, COUNT of CLAIMED | claim service, payment service, expiry, reconciliation, recovery |
| payment service (`service/payments.go`) | payments table: INITIALIZING, PENDING, CONFIRMED, FAILED; goroutines of acknowledged webhooks | `Initialize`, `HandleWebhook`, `Reconcile` | claims table in the same transaction, gateway, Redis counter |
| Paystack client (`gateway/paystack`, `infra/retry`) | none here; a transaction per reference at the gateway | initialize, verify | payment service |
| queue service, queue coordinator (`service/queue.go`, `queue_coordinator.go`) | queue_entries table; sorted sets `waiting` and `admitted` | `Join`, `Abandon`, `Complete`, `AdmitNextBatch`, `EvictExpired` | admission worker, claim service |
| admission worker (`worker/admission.go`) | a tick's batch size and list of admitted customers | evict, size the batch, pop, mark, notify | Redis counter, queue coordinator, WebSocket hub |
| expiry worker (`worker/expiry.go`) | the lists it has fetched | release old claims, expire old entries | claims and queue tables, Redis counter |
| reconciliation worker (`worker/reconciliation.go`) | the count it has read | overwrite the counter; reconcile payments | claims table, Redis counter, payment service |
| recovery (`worker/recovery.go`) | none | SET NX of the counter, re-add WAITING entries | runs once before everything else |
| event service (`service/event.go`, `event_store.go`) | DRAFT, ACTIVE, SOLD_OUT, ENDED | create, activate, end | claim service marks SOLD_OUT; queue, admission and reconciliation read the status |
| WebSocket hub (`api/hub.go`) | a map from customers to connections, under a lock | `ServeWS`, `send` | request goroutines, admission worker |
| process (`cmd/api/main.go`, `worker/scheduler.go`, `config`, `migrate`) | boot step, an errgroup of five goroutines, its first error, the signal channel | boot, tick, shut down | supervisor, every worker, the hub |
| customer login (`api/middleware.go`, `customer_store.go`) | customers table, `otp:{email}` with a TTL | `RequestOTP`, `VerifyOTP` | Redis, Postgres |
| tokens, handlers, router (`api`, `auth`) | none | sign, verify, decode, authorise | every service |

What is hard here: no transaction spans Postgres and Redis, so every operation
is a sequence of calls between which any other goroutine may run, any of which
may fail, and whose reply may be lost after it took effect. Redis may lose its
data, the process may die between two calls, workers act on lists and counts
they read earlier, and webhooks are lost, late or repeated. `PROJECT.json` lists
these hazards line by line.

What correctness means: no more tickets are held than exist; a claim and its
payment are settled together, and only when the customer paid; every released
ticket is returned to the counter once; the counter, the claims and the queue
recover from any fault; nobody in the queue is passed over; an event's status
follows its life cycle and means what the others take it for; a customer's
newest connection is the one that is written to; a code logs in once; a failing
or signalled process ends without cutting requests short.

## Modules

| module | models | |
|---|---|---|
| `ClaimLedger` | what the claims table promises to its users | abstract |
| `TicketClaims` | a Claim call, Release, the expiry and reconciliation of the inventory, recovery | implements `ClaimLedger` |
| `TicketPayments` | Initialize, webhooks, payment reconciliation, the two settlement flows | implements `ClaimLedger` |
| `QueueLedger` | what the queue_entries table promises | abstract |
| `AdmissionQueue` | Join, Abandon, the admission worker, the position endpoint, Complete, entry expiry, recovery | implements `QueueLedger` |
| `Sale` | one event from its creation to its end: Create, Activate, End, SOLD_OUT, with the queue, the claims and the counter at the grain at which they notice each other | composes the two ledgers |
| `ConnectionHub` | the WebSocket map, its handlers and `send` | abstract for `ServerProcess` |
| `ServerProcess` | boot, errgroup, signals, shutdown, restarts; the hub inside it | implements `ConnectionHub` |
| `CustomerLogin` | RequestOTP and VerifyOTP of one customer | |
| `MC...` | small instances for TLC | |
| `...Proofs` | inductive invariants and theorems | |

The first five modules and `Sale` are about one event. `TicketClaims` and
`TicketPayments` use the same table; since each implements `ClaimLedger`, and each allows for the other's steps
on it (`ConfirmFlow`, `FailureFlow` in the one, `CreateClaim`, `ReleaseClaim`,
`ExpireClaim` in the other), what is shown of either holds beside the other.

### TicketClaims

`pc[r]` says where call `r` of `Claim` is: `idle` (before `ensureNotClaimed`),
`lock` (before `Acquire`), `decrement`, `count`, `sync`, `retry` (inside
`decrementInventory`), `unlock` and `unlockFail` (the deferred release of the
lock, on success and on failure), `insert`, `rollback`, `soldout`, and `done` or
`refused`. One action is one call to a store. The disjuncts of an action are the
outcomes the code distinguishes; `Fault` marks a call that returns an error, and
where it matters there is one disjunct for a call that had no effect and one for
a call that had its effect and lost its reply (a cancelled request context does
both). `credit[r]` is the INCR that the releaser of row `r` still owes.

`Free` is the number of tickets that nobody holds, has taken out of the counter,
or is about to give back. `inflation` and `lapses` are history variables: they
influence no step. `inflation` remembers the first step of six named kinds after
which the counter was above `Free`; the steps that overwrite the counter, or move
a ticket without its counterpart, end with `Record`. `lapses` counts how often a
customer's lock vanished while a call held it.

A call needs an admission token, and the admission worker issues none before it
has read a counter above zero, so the module starts with the counter at `Total`;
the key is missing only after `RedisWipe`. A release that is asked for twice at the
same time is one pending `Release` here (its second UPDATE finds no row).

### TicketPayments

A claim has at most one payment, so payments are named by their claims.
`confirmFlow` and `failureFlow` are one transaction, and one step, each: the rows
stay locked until the commit. `tx` is the gateway's transaction; it can be paid
only by a customer who was given the URL. `GatewayRejects` includes a permanent
error for any reason and, for a known reference, the duplicate error that
`errors.go` names; `GatewayUnavailable` is what is left when the client's retries
are used up, with or without an effect at the gateway. `async` holds the
goroutines of webhooks that were acknowledged and not yet processed: a crash
loses them. `batch` is the worker's list with the status it read.

### AdmissionQueue

`row` is the table; `waiting` holds the entries whose `joined_at` is a score in
the sorted set, `admitted` the customers of the other set. `joined` is the rank
of an entry among all joins. The three Lua scripts are one step each; everything
else is split between Postgres and Redis. `Claim` is one step with the effect on
the counter that `TicketClaims` details; tickets are not returned in this module.
`missing` is a history variable: the WAITING entries that Redis was not told of,
or has lost, by one of the ways the code has for it (a failed ZADD, a refused
`joinScript`, a lost INSERT reply, an `Abandon` whose ZREM hits a later entry, an
admission whose reply or whose UPDATE was lost, a wipe, a crash). `old` stands
for both TTLs of an entry, `lapsed` for the score of an admitted customer.

### Sale

`status` is the row of the events table; `call[k]` is what an organizer's call has
loaded: `Activate` and `End` load, ask the domain object, and update without
looking at the row again, as `markEventSoldOut` does (it even ignores the domain's
refusal). `step[c]` is a Claim call between its decrement and its last call; the
lock, the fallback's own race and the second claim of a customer are
`TicketClaims`' subject and left out here, the missing counter and its fallback
are not. A claim and a queue row are written through `ClaimLedger` and
`QueueLedger`, which the detailed modules implement. The admission worker's tick
and the reconciliation are three and two steps, since both use what they read
before. `late` is a history variable: who was admitted after the event stopped
being ACTIVE. A failed claim and a loss of Redis share the bound `MaxFaults`.

### ConnectionHub and ServerProcess

One action of `ConnectionHub` is one critical section of the hub's lock or one
call to the WebSocket library. `client` is the other end: a client that is `gone`
never makes `Read` fail. `newest` and `refused` are history variables.
`ServerProcess` contains the hub (`INSTANCE` without renaming): an upgrade needs a
listening server, a send needs a tick of the admission worker, and the end of
the process empties the map. `phase` is the step of `run()` that is next; `worker`,
`http` and `shut` are the goroutines, `group` the errgroup's first error, which is
what cancels its context. `Shutdown` ignores hijacked connections, so that only
ordinary requests are waited for. `schema` survives a restart.

### CustomerLogin

`RequestOTP` is a SELECT, an INSERT for a new customer, and a SET; `VerifyOTP` a
GET, a DEL and a SELECT. Each may fail or lose its reply. Code and account are
named by the request that made them. `Spellings` are forms of one address that
CITEXT identifies and a Redis key does not. `latest`, `expired`, `kept` and
`overlap` are history variables with which the properties name the exceptions.

## Runs

Deadlock is not checked: all calls may have returned and all bounds be used up,
and then only the workers' idle ticks remain, or nothing.

Every fault (failed call, lost reply, wiped Redis, crash, repeated credit) uses
one of `MaxFaults`. One fault reaches every error path; two reach every pair, such
as an INSERT that fails and a rollback that fails, or a crash and a failing
recovery. The runs of the counter and the lock use three.

| run | instance | shows |
|---|---|---|
| `claims_safety` | 3 calls of one customer, 1 ticket, 3 faults | `TypeOK`, `SoundUnlessInflated`, `LockHolders`, `OverwriteBlame`, `LedgerSpec` |
| `claims_recovery` | 1 call, 3 faults | `ClaimsExpire`, `CounterHeals` |
| `payments_settle` | 1 claim, 2 Initialize calls, 2 deliveries, 2 faults | `TypeOK`, `SettledTogether`, `ConfirmedIsPaid`, `OneInitializer`, `CreditsBounded`, `FailedChargeWasStale`, `LedgerSpec`, `SettlesUnlessReleased` |
| `queue_rejoin` | a customer who may join twice, 2 faults | `TypeOK`, `OnePlace`, `InSync`, `LostOnlyByRejoin`, `LedgerSpec` |
| `queue_progress` | 2 customers, 1 ticket, batches of 1 | `FirstComeFirstServed`, `QueueMoves` |
| `queue_expiry` | a customer who joins twice, or 2 faults; time passes | `EntriesSettle` |
| `sale_lifecycle` | 2 customers, 2 tickets, batches of 1, two Activate calls and an End, 1 fault | `TypeOK`, `AdmissionsStop`, `SoldOutHonest`, `LifecycleRespected`, `SaleMoves` |
| `server_lifecycle` | the admission scheduler, 1 request, 2 connections of a customer, 1 fault | `TypeOK`, `NoDangling`, `NewestStays`, `FailedIsForgotten`, `RequestsDrain`, `ClosedIsForgotten`, `ErrorEndsProcess`, `SignalQuiesces` |
| `login_codes` | 3 requests and 3 verifications, 2 spellings | `TypeOK`, `UsedOnce`, `CodeSurvives`, `OneAccount` |

One ticket is the hard case for the claims: the first decrement is also the last,
so the races around zero and around SOLD_OUT all happen. Two calls of one
customer are needed for the unique index, and are enough for every way to inflate
the counter; an oversell takes a second customer (`claims_oversell`). A third call
is needed for the lock: the first overruns its TTL, the second acquires, the DEL of
the first takes the second's key, and the third acquires beside the second. The
third call of `claims_safety` comes last and runs on only while no fault, worker,
release or payment has come between (`ThirdCallUndisturbed`); the first two are
interchangeable (`DoubleClick`). While the counter is sound, all three faults may
happen; once it is inflated at most one (`OneFaultWhenInflated`). That is where the
table has to hold by itself: with one ticket, a call whose INSERT meets another
CLAIMED row of its customer has taken a ticket that was not there. Each of the six
causes of `inflation` and the unique violation of `createClaim` occur in the run; three
faults are what the recovery needs (SOLD_OUT is not stored, Redis is wiped, the
process dies, and the only ticket is paid). Claims share no state of
`TicketPayments` except the worker, which handles them one by one, so one claim is
enough there. More calls of several customers, more tickets and larger batches are
left to the theorems below, which cover every safety property of these runs without
bounds.

In `queue_expiry` a behaviour has a second join or faults, and not both
(`RejoinOrFaults`); together they are in `queue_rejoin`, for safety.

In `sale_lifecycle` two tickets are what it takes for one that is left to be
mistaken for none, and two customers to take both; the three calls are the
smallest set with a stale Activate that meets an ENDED event. The other two
schedulers of `server_lifecycle` would be copies of the one that is there, without
sends; two connections of one customer are what replacement needs, and
customers share nothing in the map. In `login_codes` two calls of each kind race
for one key and the third ones use another spelling.

What these runs settle about the code:

- The unconditional status updates break the domain's life cycle in two ways
  only (`LifecycleRespected`): a second Activate that had loaded the DRAFT revives an
  event that has moved on, and the last claim turns an ENDED event into a SOLD_OUT one.
- SOLD_OUT is never premature as long as Redis keeps its data
  (`SoldOutHonest`). After a loss it can be: an INCR makes the missing counter 1, and
  the fallback goes on with 0 when its ForceSync failed; and SOLD_OUT is final.
- A sale starts only because of the reconciliation worker (`SaleMoves`): Activate
  does not create the counter, and without it nobody is admitted.
- An overwrite of the counter is wrong for three reasons only (`OverwriteBlame`):
  CONFIRMED rows that `CountActive` leaves out, tickets that are in flight between
  the two stores, and a count that was read too early. Counting both statuses
  would make the recovery sound; the other two writers would stay racy.
- As long as no call fails, only a customer who joins again can be told to wait and be
  in no sorted set (`LostOnlyByRejoin`): the ZREM of the earlier entry's Abandon is
  late, or the customer is still in a sorted set.
- `failureFlow` gives a ticket back also when it failed nothing. `CreditsBounded` is
  how far that goes: twice for a claim, plus once per delivery of a webhook. The
  bound is reached.
- A code is accepted twice, or deleted unused, only by calls that overlap
  between GET and DEL, or when a DEL fails (`UsedOnce`, `CodeSurvives`).
- An error of a goroutine ends the process. A signal alone does not: it ends
  listening and drains (`SignalQuiesces`), but then no goroutine has returned an
  error, the group's context is not cancelled, the schedulers go on and `g.Wait`
  does not return.

Three runs are expected to fail. Each states what a document or a comment says,
and the trace shows the code doing otherwise; `findings` in `PROJECT.json` quotes
both sides.

| run | the claim | what happens |
|---|---|---|
| `claims_oversell` | no overselling | a call has taken the only ticket; reconciliation counts the rows, the call inserts its row, the counter is set back to 1, and a second customer claims the same ticket |
| `payments_stuck` | reconciliation heals stale payments | a charge whose claim was released rolls back forever |
| `sale_released_ticket` | a released ticket goes to the next in the queue | after SOLD_OUT nothing makes the event ACTIVE again, and the admission worker does not list it |

More statements of the documents are not what the modelled code does, and have
no run of their own:

- ARCHITECTURE.md: reconciliation heals a counter that is too high. It counts
  CLAIMED rows only, and puts a paid ticket back on sale for good (one of the
  named steps of `inflation` in `TicketClaims`).
- Webhooks are idempotent: the status is, the INCR is not (`CreditsBounded`).
- A failed MarkPending is healed by reconciliation: the retry sends a duplicate
  reference and fails a payment that the customer may then complete. This is the
  only way to a FAILED payment of a charged customer (`FailedChargeWasStale`).
- An expired entry must rejoin: it stays in the sorted set and is admitted by a
  later tick (`AdmissionQueue` and `Sale` allow for it).
- TRADEOFFS.md: the counter is decremented after the INSERT. It is decremented
  before, so a crash in between shows too few tickets until reconciliation.
- The unique index covers CLAIMED rows only: a customer who has paid may claim again.
- The cap on admissions is one tick's: more customers than tickets may be admitted.
- `migrate.go` calls `Run` safe on every startup. `CREATE EXTENSION
  pg_stat_statements` has no IF NOT EXISTS, so that a restart on a migrated database
  fails at `Migrate`, forever (`ServesOnce`). `TicketClaims` therefore lets a crashed
  process stay down, and `ClaimsExpire` and `CounterHeals` speak of a process that runs.
  `CrashRestart` of `TicketPayments` and `AdmissionQueue` is a crash that the process
  comes back from: after any other crash nothing is settled, expired or served.
- `main.go` logs "shutdown complete" after a signal only if a goroutine failed
  (`CleanShutdownWaits`).
- `MetricsMiddleware` wraps the ResponseWriter in a `statusRecorder` that neither
  forwards Hijack nor has Unwrap, so that behind the router `websocket.Accept`
  takes its error branch. The hub is modelled as it works when it is given a
  writer it can hijack.

`PromptCalls` keeps the traces of the payment run to Initialize calls that end
before their payment is stale (ten minutes).

### Fairness

Weak fairness, and only for what the program does by itself: a call that has
started goes on, because each call to a store returns; the schedulers tick as
long as the process runs (`Scheduler.Start` goes on after a failed tick); time
passes. No fairness for customers (they need not claim, pay, release or leave), for
webhooks, for the organizer, for faults, or, in `TicketClaims`, for a restart. In `TicketPayments` the expiry worker has none either: it would settle
every claim by itself and hide what reconciliation does. `QueueMoves` assumes no
passing of time, so that no timeout can stand in for the admission worker.

`Sale` assumes only that the two schedulers tick: Claim calls, customers, timeouts
and the organizer may stop anywhere, so that `SaleMoves` owes nothing to them.
`ServerProcess` assumes that goroutines run, a job ends, the 30 seconds of
`Shutdown` pass and the supervisor restarts; requests need not end. A scheduler
whose ticker and context are both ready leaves its select for either, so that
`StopWorker` is enabled again and again rather than always: it gets strong
fairness, which Go's uniform choice among ready cases justifies.

## Proofs

The theorems hold for every set of calls, customers, claims and entries, every
number of tickets, every batch size and every number of faults and deliveries,
from the named assumptions of the component modules: finiteness of the set of
calls (of entries), owners and targets that are functions, a positive inventory
and batch size, a `NoKey` that is not an integer, and a `NoConn` and a `None` that
are no connection and no code.

`TicketClaimsProofs`
: `TypeCorrect`, then `ControlCorrect`: `ControlOK` is inductive with `TypeOK`.
  `LockCorrect` needs a strengthening, `LockBalance`: the holders of a customer's lock
  are at most its lapses, plus one if the key exists. SET NX adds a holder and the
  key; a DEL removes a holder and at most the key, whoever's it was; a TTL or a wipe
  removes the key and, if it is held, counts a lapse. `ImplementsLedger` maps
  every step to a step or a stutter of `ClaimLedger`. `CounterCorrect` is about
  `Free`: the balance counter + held + reserved + owed <= total is kept by each
  action because it moves one call between the three disjoint sets, or one unit
  between a set and the counter; the cardinality lemmas say what adding or
  removing one element does to the sum. Disjointness is where `ControlOK` is
  needed: an INCR is owed only for a RELEASED row, and a row is there only for a
  call past its INSERT. A step that ends with `Record` either keeps the balance
  or sets `inflation`. `SoldWithinTotalCorrect` follows. `OverwriteBlameCorrect` turns
  the balance around: with no CONFIRMED row and nothing in flight `PgCount` is
  `Free` (`PgCountExact`), so writing it, or less, keeps the balance
  (`OverwriteSound`); `ControlOK` says that nothing is in flight while the process is down.

`TicketPaymentsProofs`
: `SettledCorrect` and `PaidCorrect` need only the types: the flows re-read both
  rows, and a final gateway status is final. `InitializerCorrect` rests on the
  fact that a call past its INSERT has a payment row, so that no second INSERT
  succeeds. `ImplementsLedger` as above. `CreditsCorrect` counts: the credits given
  and those that a webhook, a caller past its gateway error, a retry or the
  release of the row may still give are together at most two plus `MaxHooks`
  (`CreditsPlanned`). An Initialize call and the retry of the same payment share
  one of the two, because `Racers` says that whichever of them moves the payment
  out of INITIALIZING is done with it. `FailedChargeCorrect` needs `GivenInv`: only a
  customer who was given the URL is charged, a call that may still fail an INITIALIZING
  payment has given no URL, and one that the worker has on its list is stale. A
  payment is then FAILED after a failed checkout, or while stale, or with no URL given
  and no call left to give it. `NeverSettlesCorrect` states
  for good what `payments_stuck` shows on one trace: `Orphaned` (claim RELEASED, payment
  open) is kept by every step, because both flows roll back.

`AdmissionQueueProofs`
: `OnePlaceCorrect` is inductive because `joinScript` looks at both sets and the
  pop moves a customer from one to the other. `InSyncCorrect` needs
  `OneActive`, the partial unique index: the UPDATE of an admitted batch goes by
  customer, and marks the popped entry only if that is the customer's active one.
  `FirstComeFirstServedCorrect` combines `InSync` with `HeadIsFirst`: who is popped
  has a lower score than everybody who stays. `ImplementsLedger` as above.
  `LostOnlyByRejoinCorrect` needs `Faultless`: before the first fault a row exists
  exactly when the INSERT of its Join is over, members of the sorted sets and
  popped entries come from Joins that have ended, and who is leaving has an
  abandoned entry. A refusal by `joinScript` then shows a second entry of the
  customer, and by `OneActive` it has ended.

`SaleProofs`
: `LifecycleCorrect` needs `LifecycleInv`: once the event has left DRAFT some
  Activate is done, an Activate that has not updated yet loaded a DRAFT, and
  before the first activation nobody has joined, so that no claim can be about
  to mark the event. `AdmissionsStopCorrect` needs that nobody is late while a tick
  that listed the ACTIVE event has its batch still to pop, and that a batch is no
  larger than `BatchSize`. `SoldOutHonestCorrect` is a lower bound: `CountSound` says
  that the counter, and the count reconciliation is about to write, are each at
  least the inventory less the tickets taken (claims made, in flight and failed),
  which overwriting with an older count preserves because tickets taken never
  decrease; `FlightInv` keeps a call in flight
  apart from its row. The decrement that finds the counter at one is then the last.
  `ImplementsTickets` and `ImplementsQueue` map every step of the sale to the two
  ledgers that the detailed modules implement. `WaitingInVainCorrect` states for
  good what `sale_released_ticket` shows: `LeftOut` (the sale over, no tick and no
  Activate under way, the customer WAITING or ABANDONED) is kept by every step, and
  `AdmittedFirst` says that only who was admitted has a claim or a Claim call.

`ServerProcessProofs`
: `ImplementsHub` maps each step of the process to a step or a stutter of the
  hub; `HubCorrect` rests on `HubInv`, in which what `send` holds is a connection that
  was registered, so that a removal concerns that connection only.
  `RequestsDrainCorrect`: when the drain has ended without a timeout no request is
  open (`DrainInv`), and g.Wait returns only after the drain. `ServesOnceCorrect` rests
  on `BootInv` (goroutines run only past g.Wait's start, and past `Migrate` the schema is
  there) and `Refused` (the schema is there and the boot is not past `Migrate`: no step
  leaves it); `CleanShutdownCorrect` on `StoppedInv`: no scheduler has returned while the
  errgroup has no error, so that g.Wait does not return.

`CustomerLoginProofs`
: `CodesCorrect` needs `StoredInv` (what is stored is the last code saved for that
  spelling) and `DeletedInv` (after a DEL that did not fail the code is gone for
  good; before it the key holds that code, nothing, or one saved meanwhile).
  `OneAccountCorrect` needs that a request past
  GetOrCreate has an account.

`ReleasedNeverSettles`, `WaitingInVain`, `ServesOnce` and `CleanShutdownWaits` are
stated in the component modules and proved; no run lists them. The states their
hypotheses speak of are reached: the first two begin where the traces of
`payments_stuck` and `sale_released_ticket` end, and `server_lifecycle` has a restart
after a run and a drain that ends in time.

Only model-checked: the liveness properties (`ClaimsExpire`, `CounterHeals`,
`SettlesUnlessReleased`, `EntriesSettle`, `QueueMoves`, `SaleMoves`,
`ClosedIsForgotten`, `ErrorEndsProcess`, `SignalQuiesces`), since TLAPS does not
reason about fairness and ENABLED here.

## Not modelled

- The router, the two authentication middlewares, organizer login, password
  hashes and signatures: they check one request and change no state. Metrics,
  logging, the generated API documentation, the load test and the test helpers.
- Prices, dates and names of events: no decision after Create looks at them
  (`sale_start` and `sale_end` are never compared with the time).
- Two requests that draw the same six-digit code.
- Rounding of scores to float64, and microseconds in Postgres: scores are ranks.
- Several events: they share no state but the workers, which isolate them.
- In `Sale`, a Join whose ZADD fails and a batch whose MarkAdmittedBatch fails: both
  are only logged, and are `AdmissionQueue`'s subject (`InSync`). `SaleMoves` is about
  a sale without them.
- A second `Abandon` of a customer while the ZREM of the first is pending, and what
  happens between the Redis and the Postgres read of the position endpoint.
- Retries inside the Redis client: a repeated INCR would count twice.

## Plan

1. Done: claims, payments and the queue, each with its ledger and its proofs.
2. Done: `Sale`, the hub, the process and the login, with their proofs; the bound
   on credits.
3. `Retry`: the bounded retry with backoff as an operator checked against its
   contract, and its composition with the duplicate reference.
4. Scores with ties in `AdmissionQueue`; a bound on how far first come, first
   served can be off.
5. Done: who is to blame for an inflated counter, who can be lost by the queue, which
   failed payments were charged, what is permanent once it went wrong, and that
   `Sale` implements both ledgers.
6. An abstract payment ledger that `TicketPayments` implements. (`TicketClaims` does
   not implement the claim steps of `Sale`, whose fallback is one step, and the
   counter can be too low by more than the number of faults, since an overwrite with
   an older count also lowers it.)
