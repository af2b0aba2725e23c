--------------------------- MODULE AdmissionQueue ---------------------------
(***************************************************************************)
(* The virtual queue of one event: QueueService and QueueCoordinator       *)
(* (internal/service), the queue_entries table, the two Redis sorted sets  *)
(* waiting:{event} and admitted:{event} with their Lua scripts, the        *)
(* admission worker, the queue half of the expiry worker and of the        *)
(* recovery at start-up, and the position endpoint that hands out tokens.  *)
(*                                                                         *)
(* One step is one call to Redis or to Postgres.  The sorted set waiting   *)
(* holds customers, with the joined_at of the entry that put them there as *)
(* score; here it holds those entries.  A Claim call is one step (its      *)
(* detail is TicketClaims' subject) followed by its queue.Complete.        *)
(***************************************************************************)
EXTENDS Integers, FiniteSets

CONSTANTS
    Entries,     \* calls of QueueService.Join; call e inserts the row e
    Customers,
    Owner,       \* the customer who makes a call
    Total,       \* event.TotalInventory
    BatchSize,   \* cfg.BatchSize of the admission worker
    MaxFaults    \* bound: failed calls, lost replies, wipes and crashes

ASSUME EntriesAssumption == IsFiniteSet(Entries)
ASSUME OwnerAssumption   == Owner \in [Entries -> Customers]
ASSUME SizesAssumption   == Total \in Nat /\ BatchSize \in Nat \ {0} /\ MaxFaults \in Nat

VARIABLES
    row,        \* queue_entries: status of row e
    joined,     \* joined_at of e, as its rank among all joins; 0: not joined
    old,        \* rows past QueueEntryTTL (WAITING) or AdmissionWindowTTL (ADMITTED)
    active,     \* events.status is ACTIVE
    waiting,    \* Redis waiting:{event}: the entries its members came from
    admitted,   \* Redis admitted:{event}: customers
    lapsed,     \* admitted customers whose score is older than the window
    warm,       \* the Redis inventory counter exists
    tickets,    \* its value while it does
    holders,    \* customers with a claim
    pc,         \* where each Join call is
    leaving,    \* customers whose Abandon has still to ZREM them from waiting
    claimed,    \* customers whose Claim has still to call Complete
    finishing,  \* customers whose Complete has still to ZREM them from admitted
    tokens,     \* customers who hold an admission token that is still valid
    adm,        \* where the admission worker is
    evicted,    \* its list of evicted customers
    room,       \* its batch size
    popped,     \* its list of admitted customers, as members of waiting
    stale,      \* the expiry worker's list, with the status it read
    faults,     \* faults left
    missing     \* history: WAITING rows that Redis was not told of, or forgot

pgVars     == <<row, joined, old, active>>
redisVars  == <<waiting, admitted, lapsed, warm, tickets>>
callVars   == <<holders, pc, leaving, claimed, finishing, tokens>>
workerVars == <<adm, evicted, room, popped, stale>>
vars == <<pgVars, redisVars, callVars, workerVars, faults, missing>>

Ledger == INSTANCE QueueLedger

Steps    == {"idle", "insert", "zadd", "done", "refused"}
AdmSteps == {"idle", "expire", "count", "admit", "mark", "notify"}

Owners(E)    == {Owner[e] : e \in E}
EntriesOf(C) == {e \in Entries : Owner[e] \in C}
WaitingRows  == {e \in Entries : row[e] = "WAITING"}
InRedis(c)   == c \in Owners(waiting) \cup admitted
Fault        == faults > 0 /\ faults' = faults - 1
Goto(e, label) == pc' = [pc EXCEPT ![e] = label]

Init ==
    /\ row = [e \in Entries |-> "NONE"]
    /\ joined = [e \in Entries |-> 0]
    /\ old = {} /\ active = TRUE
    /\ waiting = {} /\ admitted = {} /\ lapsed = {}
    /\ warm = FALSE /\ tickets = Total
    /\ holders = {} /\ pc = [e \in Entries |-> "idle"]
    /\ leaving = {} /\ claimed = {} /\ finishing = {} /\ tokens = {}
    /\ adm = "idle" /\ evicted = {} /\ room = 0 /\ popped = {}
    /\ stale = [e \in Entries |-> "none"]
    /\ faults = MaxFaults
    /\ missing = {}

-----------------------------------------------------------------------------
(* Join.                                                                    *)

\* The event is looked at, then JoinedAt is taken.
JoinCheck(e) ==
    /\ pc[e] = "idle"
    /\ \/ /\ active /\ Goto(e, "insert")
          /\ joined' = [joined EXCEPT ![e] = 1 + Cardinality({f \in Entries : joined[f] # 0})]
          /\ UNCHANGED faults
       \/ ~active /\ Goto(e, "refused") /\ UNCHANGED <<joined, faults>>
       \/ Fault /\ Goto(e, "refused") /\ UNCHANGED joined
    /\ UNCHANGED <<row, old, active, redisVars, holders, leaving, claimed, finishing,
                   tokens, workerVars, missing>>

\* The INSERT, which may be committed although the call reports an error.
JoinInsert(e) ==
    /\ pc[e] = "insert"
    /\ \/ /\ Ledger!Create(e) /\ Goto(e, "zadd") /\ UNCHANGED <<faults, missing>>
       \/ /\ Ledger!Active(Owner[e]) # {}
          /\ Goto(e, "refused") /\ UNCHANGED <<row, faults, missing>>
       \/ Fault /\ Goto(e, "refused") /\ UNCHANGED <<row, missing>>
       \/ /\ Fault /\ Ledger!Create(e)
          /\ Goto(e, "refused") /\ missing' = missing \cup {e}
    /\ UNCHANGED <<joined, old, active, redisVars, holders, leaving, claimed, finishing,
                   tokens, workerVars>>

\* Mutant of JoinScript: only the waiting set is looked at.
JoinScriptWaitingOnly(e) ==
    \/ /\ Owner[e] \notin Owners(waiting)
       /\ waiting' = waiting \cup {e} /\ UNCHANGED missing
    \/ /\ Owner[e] \in Owners(waiting)
       /\ missing' = missing \cup {e} /\ UNCHANGED waiting

\* joinScript, whose refusal Join only logs: the customer is told of success.
JoinScript(e) ==
    \/ /\ ~InRedis(Owner[e])
       /\ waiting' = waiting \cup {e} /\ UNCHANGED missing
    \/ /\ InRedis(Owner[e])
       /\ missing' = missing \cup {e} /\ UNCHANGED waiting

JoinRedis(e) ==
    /\ pc[e] = "zadd"
    /\ Goto(e, "done")
    /\ \/ JoinScript(e) /\ UNCHANGED faults
       \/ Fault /\ missing' = missing \cup {e} /\ UNCHANGED waiting
    /\ UNCHANGED <<pgVars, admitted, lapsed, warm, tickets, holders, leaving, claimed,
                   finishing, tokens, workerVars>>

JoinStep(e) == JoinInsert(e) \/ JoinRedis(e)

-----------------------------------------------------------------------------
(* Abandon: load, conditional UPDATE, ZREM.                                 *)

\* Mutant of Abandon: the UPDATE is not conditional on WAITING.
AbandonUnconditional(e) ==
    /\ row[e] \in Ledger!ActiveStatus /\ Owner[e] \notin leaving
    /\ row' = [row EXCEPT ![e] = "ABANDONED"]
    /\ leaving' = leaving \cup {Owner[e]}
    /\ UNCHANGED <<joined, old, active, redisVars, holders, pc, claimed, finishing,
                   tokens, workerVars, faults, missing>>

\* Mutant of Abandon: the ZREM follows although no row was updated.
AbandonRedisOnly(e) ==
    /\ row[e] = "WAITING" /\ Owner[e] \notin leaving
    /\ leaving' = leaving \cup {Owner[e]}
    /\ UNCHANGED <<pgVars, redisVars, holders, pc, claimed, finishing,
                   tokens, workerVars, faults, missing>>

\* The UPDATE finds the row WAITING, so it was WAITING when it was loaded.
Abandon(e) ==
    /\ row[e] = "WAITING" /\ Owner[e] \notin leaving
    /\ Ledger!UpdateStatus({e}, "WAITING", "ABANDONED")
    /\ \/ leaving' = leaving \cup {Owner[e]} /\ UNCHANGED faults
       \/ Fault /\ UNCHANGED leaving
    /\ UNCHANGED <<joined, old, active, redisVars, holders, pc, claimed, finishing,
                   tokens, workerVars, missing>>

\* The ZREM names the customer, so it also removes an entry that a later Join
\* has put there.
AbandonRedis(c) ==
    /\ c \in leaving
    /\ leaving' = leaving \ {c}
    /\ \/ /\ waiting' = waiting \ EntriesOf({c})
          /\ missing' = missing \cup (waiting \cap EntriesOf({c}) \cap WaitingRows)
          /\ UNCHANGED faults
       \/ Fault /\ UNCHANGED <<waiting, missing>>
    /\ UNCHANGED <<pgVars, admitted, lapsed, warm, tickets, holders, pc, claimed,
                   finishing, tokens, workerVars>>

-----------------------------------------------------------------------------
(* The admission worker, for an event that its tick found ACTIVE.           *)

\* evictExpiredScript.
EvictExpired ==
    /\ adm = "idle" /\ active
    /\ \/ /\ admitted' = admitted \ lapsed /\ lapsed' = {} /\ evicted' = lapsed
          /\ adm' = (IF lapsed = {} THEN "count" ELSE "expire")
          /\ UNCHANGED faults
       \/ /\ Fault /\ adm' = "count"
          /\ \/ UNCHANGED <<admitted, lapsed>>
             \/ admitted' = admitted \ lapsed /\ lapsed' = {}
          /\ UNCHANGED evicted
    /\ UNCHANGED <<pgVars, waiting, warm, tickets, callVars, room, popped, stale, missing>>

\* Mutant of MarkExpiredBatch: a status the schema does not know.
MarkEvictedBatch ==
    /\ adm = "expire"
    /\ adm' = "count" /\ evicted' = {}
    /\ Ledger!UpdateStatus(EntriesOf(evicted), "ADMITTED", "EVICTED")
    /\ UNCHANGED <<joined, old, active, redisVars, callVars, room, popped, stale, faults, missing>>

MarkExpiredBatch ==
    /\ adm = "expire"
    /\ adm' = "count" /\ evicted' = {}
    /\ \/ Ledger!UpdateStatus(EntriesOf(evicted), "ADMITTED", "EXPIRED") /\ UNCHANGED faults
       \/ Fault /\ UNCHANGED row
    /\ UNCHANGED <<joined, old, active, redisVars, callVars, room, popped, stale, missing>>

\* Mutant of CalculateBatchSize: the last ticket counts as sold out.
CalculateBatchSizeOffByOne ==
    /\ adm = "count"
    /\ \/ /\ warm /\ tickets > 1
          /\ adm' = "admit"
          /\ room' = IF tickets < BatchSize THEN tickets ELSE BatchSize
       \/ ~(warm /\ tickets > 1) /\ adm' = "idle" /\ UNCHANGED room
    /\ UNCHANGED <<pgVars, redisVars, callVars, evicted, popped, stale, faults, missing>>

\* A cache miss and a sold-out event admit nobody.
CalculateBatchSize ==
    /\ adm = "count"
    /\ \/ /\ warm /\ tickets > 0
          /\ adm' = "admit" /\ UNCHANGED faults
          /\ room' = IF tickets < BatchSize THEN tickets ELSE BatchSize
       \/ ~(warm /\ tickets > 0) /\ adm' = "idle" /\ UNCHANGED <<room, faults>>
       \/ Fault /\ adm' = "idle" /\ UNCHANGED room
    /\ UNCHANGED <<pgVars, redisVars, callVars, evicted, popped, stale, missing>>

\* Mutant of Head: ZPOPMAX in place of ZPOPMIN.
HeadLast(n) == {e \in waiting : Cardinality({f \in waiting : joined[f] > joined[e]}) < n}

\* ZPOPMIN: the n members with the lowest scores.
Head(n) == {e \in waiting : Cardinality({f \in waiting : joined[f] < joined[e]}) < n}

\* admitBatchScript.  If its reply is lost the customers stay admitted in Redis
\* and WAITING in Postgres.
AdmitNextBatch ==
    /\ adm = "admit"
    /\ room' = 0
    /\ \/ /\ waiting' = waiting \ Head(room)
          /\ admitted' = admitted \cup Owners(Head(room))
          /\ popped' = Head(room)
          /\ adm' = (IF Head(room) = {} THEN "idle" ELSE "mark")
          /\ UNCHANGED <<faults, missing>>
       \/ /\ Fault /\ adm' = "idle" /\ UNCHANGED popped
          /\ \/ UNCHANGED <<waiting, admitted, missing>>
             \/ /\ waiting' = waiting \ Head(room)
                /\ admitted' = admitted \cup Owners(Head(room))
                /\ missing' = missing \cup (Head(room) \cap WaitingRows)
    /\ UNCHANGED <<pgVars, lapsed, warm, tickets, callVars, evicted, stale>>

\* Mutant of MarkAdmittedBatch: like domain.QueueEntry.Admit, expired entries
\* are refused.
MarkAdmittedBatchFresh ==
    /\ adm = "mark"
    /\ adm' = "notify"
    /\ Ledger!UpdateStatus(EntriesOf(Owners(popped)) \ old, "WAITING", "ADMITTED")
    /\ UNCHANGED <<joined, old, active, redisVars, callVars, evicted, room, popped, stale,
                   faults, missing>>

\* The UPDATE goes by customer; a failure is only logged.
MarkAdmittedBatch ==
    /\ adm = "mark"
    /\ adm' = "notify"
    /\ \/ /\ Ledger!UpdateStatus(EntriesOf(Owners(popped)), "WAITING", "ADMITTED")
          /\ old' = old \ (EntriesOf(Owners(popped)) \cap WaitingRows)
          /\ UNCHANGED <<faults, missing>>
       \/ /\ Fault /\ UNCHANGED <<row, old>>
          /\ missing' = missing \cup (popped \cap WaitingRows)
    /\ UNCHANGED <<joined, active, redisVars, callVars, evicted, room, popped, stale>>

\* A token reaches the customers who have a WebSocket open.
NotifyAdmitted ==
    /\ adm = "notify"
    /\ adm' = "idle" /\ popped' = {}
    /\ \E C \in SUBSET Owners(popped) : tokens' = tokens \cup C
    /\ UNCHANGED <<pgVars, redisVars, holders, pc, leaving, claimed, finishing,
                   evicted, room, stale, faults, missing>>

AdmissionStep ==
    \/ EvictExpired \/ MarkExpiredBatch \/ CalculateBatchSize
    \/ AdmitNextBatch \/ MarkAdmittedBatch \/ NotifyAdmitted

-----------------------------------------------------------------------------
(* The position endpoint, the token, and the claim it is good for.          *)

\* Admitted in Redis, with an entry in Postgres that has not expired.
GetQueuePosition(c) ==
    /\ c \in admitted \ tokens
    /\ \E e \in Ledger!Active(c) : e \notin old
    /\ tokens' = tokens \cup {c}
    /\ UNCHANGED <<pgVars, redisVars, holders, pc, leaving, claimed, finishing,
                   workerVars, faults, missing>>

TokenExpires(c) ==
    /\ c \in tokens
    /\ tokens' = tokens \ {c}
    /\ UNCHANGED <<pgVars, redisVars, holders, pc, leaving, claimed, finishing,
                   workerVars, faults, missing>>

\* ClaimService.Claim up to its call of Complete.  The claim of the last ticket
\* marks the event SOLD_OUT; when that fails it is only logged.
Claim(c) ==
    /\ c \in tokens \ holders
    /\ tickets > 0
    /\ tickets' = tickets - 1 /\ warm' = TRUE
    /\ holders' = holders \cup {c} /\ claimed' = claimed \cup {c}
    /\ \/ active' = (active /\ tickets > 1) /\ UNCHANGED faults
       \/ tickets = 1 /\ Fault /\ UNCHANGED active
    /\ UNCHANGED <<row, joined, old, waiting, admitted, lapsed, pc, leaving, finishing,
                   tokens, workerVars, missing>>

Complete(c) ==
    /\ c \in claimed
    /\ claimed' = claimed \ {c}
    /\ \/ /\ \E e \in Ledger!Active(c) : row[e] = "ADMITTED"
          /\ Ledger!UpdateStatus(EntriesOf({c}), "ADMITTED", "COMPLETED")
          /\ \/ finishing' = finishing \cup {c} /\ UNCHANGED faults
             \/ Fault /\ UNCHANGED finishing
       \/ /\ \A e \in Ledger!Active(c) : row[e] # "ADMITTED"
          /\ UNCHANGED <<row, finishing, faults>>
       \/ Fault /\ UNCHANGED <<row, finishing>>
    /\ UNCHANGED <<joined, old, active, redisVars, holders, pc, leaving, tokens,
                   workerVars, missing>>

CompleteRedis(c) ==
    /\ c \in finishing
    /\ finishing' = finishing \ {c}
    /\ \/ admitted' = admitted \ {c} /\ lapsed' = lapsed \ {c} /\ UNCHANGED faults
       \/ Fault /\ UNCHANGED <<admitted, lapsed>>
    /\ UNCHANGED <<pgVars, waiting, warm, tickets, holders, pc, leaving, claimed,
                   tokens, workerVars, missing>>

-----------------------------------------------------------------------------
(* The expiry worker: Postgres only.                                        *)

\* Mutant of GetStaleEntries: admitted entries are left to the eviction.
GetStaleWaiting ==
    /\ \A e \in Entries : stale[e] = "none"
    /\ stale' = [e \in Entries |-> IF e \in old /\ row[e] = "WAITING"
                                   THEN "WAITING" ELSE "none"]
    /\ UNCHANGED <<pgVars, redisVars, callVars, adm, evicted, room, popped, faults, missing>>

GetStaleEntries ==
    /\ \A e \in Entries : stale[e] = "none"
    /\ stale' = [e \in Entries |-> IF e \in old /\ row[e] \in Ledger!ActiveStatus
                                   THEN row[e] ELSE "none"]
    /\ UNCHANGED <<pgVars, redisVars, callVars, adm, evicted, room, popped, faults, missing>>

ExpireQueueEntry(e) ==
    /\ stale[e] # "none"
    /\ stale' = [stale EXCEPT ![e] = "none"]
    /\ \/ Ledger!UpdateStatus({e}, stale[e], "EXPIRED") /\ UNCHANGED faults
       \/ Fault /\ UNCHANGED row
    /\ UNCHANGED <<joined, old, active, redisVars, callVars, adm, evicted, room, popped,
                   missing>>

-----------------------------------------------------------------------------
(* Time, the organizer, reconciliation, Redis and the process.              *)

EntryAges(e) ==
    /\ row[e] \in Ledger!ActiveStatus /\ e \notin old
    /\ old' = old \cup {e}
    /\ UNCHANGED <<row, joined, active, redisVars, callVars, workerVars, faults, missing>>

WindowLapses(c) ==
    /\ c \in admitted \ lapsed
    /\ lapsed' = lapsed \cup {c}
    /\ UNCHANGED <<pgVars, waiting, admitted, warm, tickets, callVars, workerVars,
                   faults, missing>>

\* The reconciliation worker has given the counter its value back.
ReconcileInventory ==
    /\ ~warm
    /\ warm' = TRUE
    /\ UNCHANGED <<pgVars, waiting, admitted, lapsed, tickets, callVars, workerVars,
                   faults, missing>>

EndEvent ==
    /\ active
    /\ active' = FALSE
    /\ UNCHANGED <<row, joined, old, redisVars, callVars, workerVars, faults, missing>>

RedisWipe ==
    /\ Fault
    /\ waiting' = {} /\ admitted' = {} /\ lapsed' = {} /\ warm' = FALSE
    /\ missing' = missing \cup (waiting \cap WaitingRows)
    /\ UNCHANGED <<pgVars, tickets, callVars, workerVars>>

\* The rows that RecoverRedisState puts back with joinScript.
Recover == {e \in WaitingRows : ~InRedis(Owner[e])}

\* A crash and a restart that gets as far as serving (see ServerProcess for those
\* that do not).  The recovery ends before anything else starts; it looks at
\* ACTIVE events only, and may fail for some of the entries.
CrashRestart ==
    /\ Fault
    /\ pc' = [e \in Entries |-> IF pc[e] \in {"insert", "zadd"} THEN "refused" ELSE pc[e]]
    /\ leaving' = {} /\ claimed' = {} /\ finishing' = {}
    /\ adm' = "idle" /\ evicted' = {} /\ room' = 0 /\ popped' = {}
    /\ stale' = [e \in Entries |-> "none"]
    /\ \E E \in SUBSET Recover :
          /\ E # {} => active
          /\ waiting' = waiting \cup E
          /\ warm' \in {warm, warm \/ active}
          /\ missing' = (missing \cup {e \in WaitingRows : pc[e] = "zadd" \/ e \in popped}) \ E
    /\ UNCHANGED <<pgVars, admitted, lapsed, tickets, holders, tokens>>

Next ==
    \/ \E e \in Entries :
          \/ JoinCheck(e) \/ JoinStep(e) \/ Abandon(e)
          \/ ExpireQueueEntry(e) \/ EntryAges(e)
    \/ \E c \in Customers :
          \/ AbandonRedis(c) \/ GetQueuePosition(c) \/ TokenExpires(c)
          \/ Claim(c) \/ Complete(c) \/ CompleteRedis(c) \/ WindowLapses(c)
    \/ AdmissionStep \/ GetStaleEntries
    \/ ReconcileInventory \/ EndEvent \/ RedisWipe \/ CrashRestart

Spec == Init /\ [][Next]_vars

(***************************************************************************)
(* Calls that have started go on, the three schedulers tick, and a lost    *)
(* counter is reconciled.  TimePasses adds that rows and admission windows *)
(* get old.  Nobody has to join, claim or abandon.                         *)
(***************************************************************************)
Fairness ==
    /\ \A e \in Entries : WF_vars(JoinStep(e)) /\ WF_vars(ExpireQueueEntry(e))
    /\ \A c \in Customers : WF_vars(AbandonRedis(c)) /\ WF_vars(Complete(c))
                                /\ WF_vars(CompleteRedis(c))
    /\ WF_vars(AdmissionStep) /\ WF_vars(GetStaleEntries) /\ WF_vars(ReconcileInventory)
TimePasses ==
    /\ \A e \in Entries : WF_vars(EntryAges(e))
    /\ \A c \in Customers : WF_vars(WindowLapses(c))

FairSpec  == Spec /\ Fairness
TimedSpec == Spec /\ Fairness /\ TimePasses

-----------------------------------------------------------------------------
(* Properties.                                                              *)

\* Every variable stays in its set.
TypeOK ==
    /\ row \in [Entries -> Ledger!RowStatus]
    /\ joined \in [Entries -> Nat]
    /\ old \subseteq Entries /\ active \in BOOLEAN
    /\ waiting \subseteq Entries
    /\ admitted \subseteq Customers /\ lapsed \subseteq admitted
    /\ warm \in BOOLEAN /\ tickets \in 0..Total
    /\ holders \subseteq Customers /\ pc \in [Entries -> Steps]
    /\ leaving \subseteq Customers /\ claimed \subseteq Customers
    /\ finishing \subseteq Customers /\ tokens \subseteq Customers
    /\ adm \in AdmSteps /\ evicted \subseteq Customers
    /\ room \in 0..BatchSize /\ popped \subseteq Entries
    /\ stale \in [Entries -> {"none"} \cup Ledger!ActiveStatus]
    /\ faults \in 0..MaxFaults /\ missing \subseteq Entries

\* The scripts keep a customer in at most one of the two sorted sets, and in
\* waiting at most once, whatever joins, admissions, evictions, wipes and
\* recoveries interleave.
OnePlace ==
    /\ Owners(waiting) \cap admitted = {}
    /\ \A e, f \in waiting : Owner[e] = Owner[f] => e = f

\* Postgres and Redis agree on who waits: an entry that is WAITING and whose
\* Join has ended is in the sorted set with its own score, or in the hands of
\* the admission worker, unless one of the accounted failures dropped it.
InSync ==
    \A e \in WaitingRows \ missing :
        pc[e] # "zadd" => e \in waiting \/ (e \in popped /\ adm = "mark")

\* Rows that are over: they never become active again.
Ended == {"ABANDONED", "COMPLETED", "EXPIRED"}

\* Nobody is lost on the first try: as long as no call has failed and nothing
\* was wiped or crashed, a WAITING entry that Redis does not know belongs to a
\* customer who has had another entry, and it has ended (the ZREM of its
\* Abandon took the new one away, or the customer was still in a sorted set
\* when joinScript ran).
LostOnlyByRejoin ==
    faults = MaxFaults =>
        \A e \in missing \cap WaitingRows :
            \E f \in EntriesOf({Owner[e]}) \ {e} : row[f] \in Ended

\* First come, first served across both stores: an admission never passes over
\* a customer whose WAITING entry is older, unless Redis had lost that entry or
\* its Join is still between the INSERT and the ZADD.
FirstComeFirstServed ==
    [][\A e \in popped' \ popped, f \in WaitingRows \ (missing \cup popped') :
           pc[f] # "zadd" => joined[e] < joined[f]]_vars

\* The queue table is used only as QueueLedger allows.
LedgerSpec == Ledger!Spec

\* No entry stays WAITING or ADMITTED forever: even if Redis has lost it, to a
\* rejoin, a failed call, a wipe or a crash that the process came back from, the
\* expiry worker ends it.
EntriesSettle ==
    \A e \in Entries : row[e] \in Ledger!ActiveStatus ~> row[e] \notin Ledger!ActiveStatus

\* While the event is ACTIVE and tickets are left, a WAITING entry that Redis
\* knows is served by the admission worker without the help of any timeout.
QueueMoves ==
    \A e \in Entries :
        row[e] = "WAITING" ~> row[e] # "WAITING" \/ e \in missing \/ ~active \/ tickets = 0
=============================================================================
