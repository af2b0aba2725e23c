-------------------------------- MODULE Sale --------------------------------
(***************************************************************************)
(* One event from its creation to its end: EventService (create, activate, *)
(* end), the claim service's markEventSoldOut, and what the status means   *)
(* to the others: the queue, the admission worker, the inventory counter   *)
(* and its reconciliation.  TicketClaims and AdmissionQueue are composed   *)
(* here over one status and one counter, each at the grain at which the    *)
(* other notices it: one step is one use of the shared state.  Claims and  *)
(* queue rows are written through the two ledgers that those modules are   *)
(* shown to implement.                                                     *)
(*                                                                         *)
(* A status update is UPDATE events SET status = ... WHERE id = ...: it    *)
(* does not look at the status that was loaded, and checked, before it.    *)
(***************************************************************************)
EXTENDS Integers, FiniteSets

CONSTANTS
    Customers,   \* each joins at most once and claims at most once
    Calls,       \* Activate and End calls of the organizer who owns the event
    Kind,        \* which of the two a call is
    Total,       \* event.TotalInventory
    BatchSize,   \* cfg.BatchSize of the admission worker
    MaxFaults,   \* bound: decrements whose call makes no claim, and losses of Redis
    NoKey        \* the inventory key does not exist in Redis

ASSUME CustomersAssumption == IsFiniteSet(Customers)
ASSUME KindAssumption      == Kind \in [Calls -> {"activate", "end"}]
ASSUME SizesAssumption     == Total \in Nat \ {0} /\ BatchSize \in Nat \ {0} /\ MaxFaults \in Nat
ASSUME NoKeyAssumption     == NoKey \notin Int

VARIABLES
    status,     \* events.status; "NONE": not created
    call,       \* each organizer call: "idle", the status it has loaded, "done"
    row,        \* queue_entries: status of the customer's row
    claim,      \* claims: status of the customer's row
    counter,    \* Redis inventory:{event}, or NoKey
    step,       \* where the customer's Claim call is: "none", "more" or "last" (it
                \* decremented, and will insert), "mark" (it will mark the event)
    adm,        \* where the admission worker is
    room,       \* its batch size
    rec,        \* the reconciliation worker has counted and will compare
    recCount,   \* its local pgCount
    failed,     \* calls that took a ticket out of the counter and made no claim
    losses,     \* how often Redis has lost its data
    late        \* history: customers popped since the event stopped being ACTIVE

custVars == <<row, claim, step>>
admVars  == <<adm, room>>
recVars  == <<rec, recCount>>
faultVars == <<failed, losses>>
vars == <<status, call, custVars, counter, admVars, recVars, faultVars, late>>

Self    == [c \in Customers |-> c]
Tickets == INSTANCE ClaimLedger WITH Requests <- Customers, Owner <- Self
Queue   == INSTANCE QueueLedger WITH Entries <- Customers, Owner <- Self

EventStatus == {"NONE", "DRAFT", "ACTIVE", "SOLD_OUT", "ENDED"}

\* The transitions of domain/event.go (and the INSERT of a new event).
Transition == {<<"NONE", "DRAFT">>, <<"DRAFT", "ACTIVE">>, <<"ACTIVE", "SOLD_OUT">>,
               <<"ACTIVE", "ENDED">>, <<"SOLD_OUT", "ENDED">>}

Held        == {c \in Customers : claim[c] \in {"CLAIMED", "CONFIRMED"}}
EverClaimed == {c \in Customers : claim[c] # "NONE"}
PgCount     == Total - Cardinality({c \in Customers : claim[c] = "CLAIMED"})
RedisCount  == IF counter = NoKey THEN -1 ELSE counter
Incremented == IF counter = NoKey THEN 1 ELSE counter + 1
InFlight    == {c \in Customers : step[c] \in {"more", "last"}}
Waiting     == {c \in Customers : row[c] = "WAITING"}

Init ==
    /\ status = "NONE"
    /\ call = [k \in Calls |-> "idle"]
    /\ row = [c \in Customers |-> "NONE"]
    /\ claim = [c \in Customers |-> "NONE"]
    /\ counter = NoKey
    /\ step = [c \in Customers |-> "none"]
    /\ adm = "idle" /\ room = 0
    /\ rec = FALSE /\ recCount = 0
    /\ failed = 0 /\ losses = 0
    /\ late = {}

-----------------------------------------------------------------------------
(* The organizer.                                                           *)

\* UPDATE events SET status = s: late starts again when the event is ACTIVE.
UpdateStatus(s) ==
    /\ status' = s
    /\ late' = IF s = "ACTIVE" THEN {} ELSE late

CreateEvent ==
    /\ status = "NONE"
    /\ UpdateStatus("DRAFT")
    /\ UNCHANGED <<call, custVars, counter, admVars, recVars, faultVars>>

\* Mutant of Permitted: Activate does not ask for a DRAFT.
PermittedAlways(k) ==
    \/ Kind[k] = "activate" /\ status # "NONE"
    \/ Kind[k] = "end" /\ status \in {"ACTIVE", "SOLD_OUT"}

\* Event.Activate and Event.End.
Permitted(k) ==
    \/ Kind[k] = "activate" /\ status = "DRAFT"
    \/ Kind[k] = "end" /\ status \in {"ACTIVE", "SOLD_OUT"}

\* loadAndAuthorize and the domain's check; a refused call leaves no trace.
LoadEvent(k) ==
    /\ call[k] = "idle"
    /\ Permitted(k)
    /\ call' = [call EXCEPT ![k] = status]
    /\ UNCHANGED <<status, custVars, counter, admVars, recVars, faultVars, late>>

\* The update goes ahead whatever has happened since the load, or fails.
UpdateEvent(k) ==
    /\ call[k] \in EventStatus
    /\ \/ /\ UpdateStatus(IF Kind[k] = "activate" THEN "ACTIVE" ELSE "ENDED")
          /\ call' = [call EXCEPT ![k] = "done"]
       \/ /\ call' = [call EXCEPT ![k] = "idle"]
          /\ UNCHANGED <<status, late>>
    /\ UNCHANGED <<custVars, counter, admVars, recVars, faultVars>>

-----------------------------------------------------------------------------
(* The queue.                                                               *)

\* Join: the event is ACTIVE, and the customer has no entry yet.  A Join whose
\* ZADD fails, and goes on, is AdmissionQueue's subject.
Join(c) ==
    /\ status = "ACTIVE"
    /\ Queue!Create(c)
    /\ UNCHANGED <<status, call, claim, step, counter, admVars, recVars, faultVars, late>>

\* Mutant of ListActive: the events are listed whatever their status is.
ListAll ==
    /\ adm = "idle"
    /\ adm' = "size"
    /\ UNCHANGED <<status, call, custVars, counter, room, recVars, faultVars, late>>

\* A tick of the admission worker lists the ACTIVE events.
ListActive ==
    /\ adm = "idle"
    /\ status = "ACTIVE"
    /\ adm' = "size"
    /\ UNCHANGED <<status, call, custVars, counter, room, recVars, faultVars, late>>

\* Mutant of CalculateBatchSize: BatchSize is not looked at.
CalculateBatchSizeUncapped ==
    /\ adm = "size"
    /\ \/ RedisCount > 0 /\ room' = counter /\ adm' = "admit"
       \/ RedisCount <= 0 /\ adm' = "idle" /\ UNCHANGED room
    /\ UNCHANGED <<status, call, custVars, counter, recVars, faultVars, late>>

\* A missing counter and an empty one admit nobody.
CalculateBatchSize ==
    /\ adm = "size"
    /\ \/ /\ RedisCount > 0
          /\ room' = IF counter < BatchSize THEN counter ELSE BatchSize
          /\ adm' = "admit"
       \/ RedisCount <= 0 /\ adm' = "idle" /\ UNCHANGED room
    /\ UNCHANGED <<status, call, custVars, counter, recVars, faultVars, late>>

\* Which customers are first is AdmissionQueue's subject: here, any are.  After a
\* loss the sorted set knows only who joined since, or was recovered.  An admitted
\* customer holds a token, pushed or polled.  A pop whose reply is lost, or whose
\* MarkAdmittedBatch fails, is AdmissionQueue's subject too.
AdmitNextBatch ==
    /\ adm = "admit"
    /\ \E E \in SUBSET Waiting :
          /\ Cardinality(E) <= room
          /\ Cardinality(E) < room => E = Waiting \/ losses > 0
          /\ Queue!UpdateStatus(E, "WAITING", "ADMITTED")
          /\ late' = IF status = "ACTIVE" THEN late ELSE late \cup E
    /\ room' = 0 /\ adm' = "idle"
    /\ UNCHANGED <<status, call, claim, step, counter, recVars, faultVars>>

AdmissionStep == ListActive \/ CalculateBatchSize \/ AdmitNextBatch

\* Abandon, or the end of the admission window and of the token with it.  (An
\* entry that expires while it waits stays in the sorted set, and here.)
LeaveQueue(c) ==
    /\ \/ row[c] = "WAITING" /\ Queue!UpdateStatus({c}, "WAITING", "ABANDONED")
       \/ row[c] = "ADMITTED" /\ Queue!UpdateStatus({c}, "ADMITTED", "EXPIRED")
    /\ UNCHANGED <<status, call, claim, step, counter, admVars, recVars, faultVars, late>>

-----------------------------------------------------------------------------
(* Claims.                                                                  *)

\* Mutant of IsLast: one ticket left counts as none.
IsLastOffByOne == counter <= 2

\* newCount <= 0, newCount being counter - 1.
IsLast == counter = 1

\* queue.Complete, the last call of Claim; its failures are in AdmissionQueue.
Complete(c) == Queue!UpdateStatus({c}, "ADMITTED", "COMPLETED")

Goto(c, label) == step' = [step EXCEPT ![c] = label]

\* The counter is missing: it is set to the Postgres count and decremented; if
\* it could not be set, the call goes on with newCount = 0.
Fallback(c) ==
    /\ counter = NoKey /\ PgCount > 0
    /\ \/ counter' = PgCount - 1 /\ Goto(c, IF PgCount = 1 THEN "last" ELSE "more")
       \/ UNCHANGED counter /\ Goto(c, "last")

\* Claim asks for a token, for no claim of this customer and for a ticket, not
\* for the status of the event.
Decrement(c) ==
    /\ row[c] = "ADMITTED" /\ claim[c] = "NONE" /\ step[c] = "none"
    /\ \/ /\ RedisCount > 0
          /\ counter' = counter - 1
          /\ Goto(c, IF IsLast THEN "last" ELSE "more")
       \/ Fallback(c)
    /\ UNCHANGED <<status, call, row, claim, admVars, recVars, faultVars, late>>

\* createClaim, and the end of the call unless it took the last ticket.
CreateClaim(c) ==
    /\ \/ step[c] = "last" /\ Goto(c, "mark") /\ UNCHANGED row
       \/ step[c] = "more" /\ Goto(c, "none") /\ Complete(c)
    /\ Tickets!Create(c)
    /\ UNCHANGED <<status, call, counter, admVars, recVars, faultVars, late>>

\* No row is inserted: a lost reply, a crash, or a failed INSERT.  The ticket is
\* put back, or that fails too.
FailClaim(c) ==
    /\ c \in InFlight
    /\ failed + losses < MaxFaults
    /\ failed' = failed + 1 /\ UNCHANGED losses
    /\ counter' \in {counter, Incremented}
    /\ Goto(c, "none")
    /\ UNCHANGED <<status, call, row, claim, admVars, recVars, late>>

\* Whatever the status was when the event was loaded; a failure is only logged.
MarkEventSoldOut(c) ==
    /\ step[c] = "mark"
    /\ Goto(c, "none")
    /\ UpdateStatus("SOLD_OUT") \/ UNCHANGED <<status, late>>
    /\ Complete(c)
    /\ UNCHANGED <<call, claim, counter, admVars, recVars, faultVars>>

ConfirmClaim(c) ==
    /\ Tickets!UpdateStatus(c, "CONFIRMED")
    /\ UNCHANGED <<status, call, row, step, counter, admVars, recVars, faultVars, late>>

\* Release, the expiry worker and a failed payment: the claim is RELEASED and
\* the counter incremented, or that fails.  None of them touches the event.
ReturnTicket(c) ==
    /\ Tickets!UpdateStatus(c, "RELEASED")
    /\ counter' \in {counter, Incremented}
    /\ UNCHANGED <<status, call, row, step, admVars, recVars, faultVars, late>>

-----------------------------------------------------------------------------
(* The reconciliation of the counter.                                       *)

\* Mutant of ReconcileCount: only SOLD_OUT events are reconciled.
ReconcileCountSoldOut ==
    /\ ~rec /\ status = "SOLD_OUT"
    /\ rec' = TRUE /\ recCount' = PgCount
    /\ UNCHANGED <<status, call, custVars, counter, admVars, faultVars, late>>

ReconcileCount ==
    /\ ~rec /\ status \in {"ACTIVE", "SOLD_OUT"}
    /\ rec' = TRUE /\ recCount' = PgCount
    /\ UNCHANGED <<status, call, custVars, counter, admVars, faultVars, late>>

\* A missing key reads as -1 and so differs from every count.
ReconcileSync ==
    /\ rec
    /\ counter' = recCount
    /\ rec' = FALSE /\ recCount' = 0
    /\ UNCHANGED <<status, call, custVars, admVars, faultVars, late>>

\* Redis restarts empty.
LoseRedis ==
    /\ failed + losses < MaxFaults
    /\ losses' = losses + 1
    /\ counter' = NoKey
    /\ UNCHANGED <<status, call, custVars, admVars, recVars, failed, late>>

Reconcile == ReconcileCount \/ ReconcileSync

Next ==
    \/ CreateEvent
    \/ \E k \in Calls : LoadEvent(k) \/ UpdateEvent(k)
    \/ \E c \in Customers :
          \/ Join(c) \/ LeaveQueue(c)
          \/ Decrement(c) \/ CreateClaim(c) \/ FailClaim(c) \/ MarkEventSoldOut(c)
          \/ ConfirmClaim(c) \/ ReturnTicket(c)
    \/ AdmissionStep \/ Reconcile \/ LoseRedis

Spec == Init /\ [][Next]_vars

(***************************************************************************)
(* The two schedulers tick.  Nothing is assumed of the organizer, of the   *)
(* customers, of calls (a Claim may hang) and of timeouts, so that none of *)
(* them stands in for the workers.                                         *)
(***************************************************************************)
Fairness ==
    /\ WF_vars(AdmissionStep)
    /\ WF_vars(Reconcile)

FairSpec == Spec /\ Fairness

-----------------------------------------------------------------------------
(* Properties.                                                              *)

\* Every variable stays in its set.
TypeOK ==
    /\ status \in EventStatus
    /\ call \in [Calls -> EventStatus \cup {"idle", "done"}]
    /\ row \in [Customers -> Queue!RowStatus]
    /\ claim \in [Customers -> Tickets!ClaimStatus]
    /\ counter \in Int \cup {NoKey}
    /\ step \in [Customers -> {"none", "more", "last", "mark"}]
    /\ adm \in {"idle", "size", "admit"}
    /\ room \in 0..BatchSize
    /\ rec \in BOOLEAN /\ recCount \in Int
    /\ failed \in 0..MaxFaults /\ losses \in 0..MaxFaults
    /\ late \subseteq Customers

\* The life cycle of domain/event.go survives the unconditional updates, with
\* two exceptions that the code has: an event that left DRAFT is made ACTIVE
\* again only by an Activate call that had loaded the DRAFT when another one
\* activated it, and an ENDED event is made SOLD_OUT only by the claim that
\* took the last ticket.
LifecycleRespected ==
    [][status' # status =>
          \/ <<status, status'>> \in Transition
          \/ /\ status' = "ACTIVE"
             /\ \E k, l \in Calls : /\ call[k] = "DRAFT" /\ call'[k] = "done"
                                    /\ Kind[l] = "activate" /\ call[l] = "done"
          \/ <<status, status'>> = <<"ENDED", "SOLD_OUT">> /\ \E c \in Customers : step[c] = "mark"
      ]_vars

\* An event that is no longer ACTIVE admits at most one more batch, that of the
\* tick which had listed it before; so the customers still waiting are not
\* called up for tickets that are gone.
AdmissionsStop == Cardinality(late) <= BatchSize

\* SOLD_OUT is not premature, as long as Redis has its data (an INCR makes a lost
\* counter 1, and a ForceSync that fails makes newCount 0): as many calls took a
\* ticket as there are tickets, and each of them has made its claim, will insert
\* it, or failed.  Overwrites of the counter with older counts and tickets that
\* come back do not change it.
SoldOutHonest ==
    status = "SOLD_OUT" /\ losses = 0 => Cardinality(EverClaimed \cup InFlight) + failed >= Total

\* While the event is ACTIVE and a ticket is free, whoever waits is admitted,
\* unless Redis has lost the queue.  (A Join whose ZADD failed, or a batch whose
\* MarkAdmittedBatch did, are not among the faults here.)  This needs the
\* reconciliation worker: Activate does not create the counter, nobody is admitted
\* without it, and nobody can claim before being admitted.
SaleMoves ==
    \A c \in Customers :
        row[c] = "WAITING" /\ status = "ACTIVE" /\ Cardinality(Held) < Total
            ~> row[c] # "WAITING" \/ status # "ACTIVE" \/ Cardinality(Held) >= Total \/ losses > 0

\* service/claims.go, on Release: "Restores the Redis inventory count so the
\* next person in queue can claim".  Not so when the event was SOLD_OUT: it is
\* never ACTIVE again, the admission worker does not list it, and the ticket
\* is not offered to anybody who waits.
ReleasedTicketIsOffered ==
    \A c \in Customers :
        row[c] = "WAITING" /\ Cardinality(Held) < Total
            ~> row[c] # "WAITING" \/ status = "ENDED" \/ Cardinality(Held) = Total

\* Queue rows and claims are used only as the two ledgers allow.
QueueSpec   == Queue!Spec
TicketsSpec == Tickets!Spec

\* The sale is over, and no Activate call is between its load and its update.
Over ==
    /\ status \in {"SOLD_OUT", "ENDED"}
    /\ \A k \in Calls : Kind[k] = "activate" => call[k] \notin EventStatus

\* Nobody who waits when the sale is over, and when the tick that was under way has
\* ended, is admitted or gets a ticket, however many tickets come back.
WaitingInVain ==
    \A c \in Customers :
        [](Over /\ adm = "idle" /\ row[c] = "WAITING"
              => [](row[c] \in {"WAITING", "ABANDONED"} /\ claim[c] = "NONE"))
=============================================================================
