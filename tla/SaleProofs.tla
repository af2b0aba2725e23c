----------------------------- MODULE SaleProofs -----------------------------
(***************************************************************************)
(* Proofs about Sale, for every number of customers, organizer calls,      *)
(* tickets, failed claims and losses of Redis, and every batch size.       *)
(***************************************************************************)
EXTENDS Sale, FiniteSetTheorems, TLAPS

\* Sets of customers are finite.
LEMMA CustomersFinite ==
  ASSUME NEW S, S \subseteq Customers
  PROVE  IsFiniteSet(S) /\ Cardinality(S) \in Nat
BY CustomersAssumption, FS_Subset, FS_CardinalityType

\* An UPDATE of queue_entries to a status of the schema keeps the table typed.
LEMMA UpdateType ==
  ASSUME row \in [Customers -> Queue!RowStatus],
         NEW E, NEW expected, NEW new \in Queue!RowStatus,
         Queue!UpdateStatus(E, expected, new)
  PROVE  row' \in [Customers -> Queue!RowStatus]
BY DEF Queue!UpdateStatus

\* So does every change of the claims table.
LEMMA ClaimType ==
  ASSUME claim \in [Customers -> Tickets!ClaimStatus], NEW c \in Customers,
         \/ Tickets!Create(c)
         \/ Tickets!UpdateStatus(c, "CONFIRMED")
         \/ Tickets!UpdateStatus(c, "RELEASED")
  PROVE  claim' \in [Customers -> Tickets!ClaimStatus]
BY DEF Tickets!Create, Tickets!UpdateStatus, Tickets!ClaimStatus

\* Every step of the sale keeps every variable in its set.
LEMMA TypeStep == TypeOK /\ [Next]_vars => TypeOK'
<1> SUFFICES ASSUME TypeOK, [Next]_vars PROVE TypeOK'
  OBVIOUS
<1> USE DEF TypeOK, EventStatus, custVars, admVars, recVars, faultVars
<1>s. {"ADMITTED", "ABANDONED", "COMPLETED", "EXPIRED", "WAITING"} \subseteq Queue!RowStatus
  BY DEF Queue!RowStatus, Queue!ActiveStatus
<1>i. Incremented \in Int
  BY DEF Incremented
<1>1. CASE CreateEvent
  BY <1>1 DEF CreateEvent, UpdateStatus
<1>2. ASSUME NEW k \in Calls, LoadEvent(k) \/ UpdateEvent(k) PROVE TypeOK'
  BY <1>2 DEF LoadEvent, UpdateEvent, UpdateStatus
<1>3. ASSUME NEW c \in Customers, Join(c) PROVE TypeOK'
  BY <1>3, <1>s DEF Join, Queue!Create
<1>4. ASSUME NEW c \in Customers, LeaveQueue(c) PROVE TypeOK'
  <2>1. row' \in [Customers -> Queue!RowStatus]
    BY <1>4, <1>s, UpdateType DEF LeaveQueue
  <2> QED
    BY <1>4, <2>1 DEF LeaveQueue
<1>p. PgCount \in Int
  BY CustomersFinite, SizesAssumption DEF PgCount
<1>5. ASSUME NEW c \in Customers, Decrement(c) PROVE TypeOK'
  <2>1. counter' \in Int \cup {NoKey}
    BY <1>5, <1>p DEF Decrement, RedisCount, Fallback
  <2> QED
    BY <1>5, <2>1 DEF Decrement, Goto, Fallback
<1>6. ASSUME NEW c \in Customers, CreateClaim(c) PROVE TypeOK'
  <2>1. row' \in [Customers -> Queue!RowStatus]
    BY <1>6, <1>s, UpdateType DEF CreateClaim, Complete
  <2>2. claim' \in [Customers -> Tickets!ClaimStatus]
    BY <1>6, ClaimType DEF CreateClaim
  <2> QED
    BY <1>6, <2>1, <2>2 DEF CreateClaim, Goto
<1>7. ASSUME NEW c \in Customers, FailClaim(c) PROVE TypeOK'
  BY <1>7, <1>i, SizesAssumption DEF FailClaim, Goto
<1>8. ASSUME NEW c \in Customers, MarkEventSoldOut(c) PROVE TypeOK'
  <2>1. row' \in [Customers -> Queue!RowStatus]
    BY <1>8, <1>s, UpdateType DEF MarkEventSoldOut, Complete
  <2> QED
    BY <1>8, <2>1 DEF MarkEventSoldOut, Goto, UpdateStatus
<1>9. ASSUME NEW c \in Customers, ConfirmClaim(c) \/ ReturnTicket(c) PROVE TypeOK'
  <2>1. claim' \in [Customers -> Tickets!ClaimStatus]
    BY <1>9, ClaimType DEF ConfirmClaim, ReturnTicket
  <2> QED
    BY <1>9, <1>i, <2>1 DEF ConfirmClaim, ReturnTicket
<1>10. CASE ListActive
  BY <1>10 DEF ListActive
<1>11. CASE CalculateBatchSize
  <2>1. room' \in 0..BatchSize
    BY <1>11, SizesAssumption DEF CalculateBatchSize, RedisCount
  <2> QED
    BY <1>11, <2>1 DEF CalculateBatchSize
<1>12. CASE AdmitNextBatch
  <2>1. row' \in [Customers -> Queue!RowStatus]
    BY <1>12, <1>s, UpdateType DEF AdmitNextBatch
  <2>2. late' \subseteq Customers
    BY <1>12 DEF AdmitNextBatch, Waiting
  <2> QED
    BY <1>12, <2>1, <2>2, SizesAssumption DEF AdmitNextBatch
<1>13. CASE ReconcileCount
  <2>1. rec' \in BOOLEAN
    BY <1>13, Zenon DEF ReconcileCount
  <2> QED
    BY <1>13, <1>p, <2>1 DEF ReconcileCount
<1>14. CASE ReconcileSync
  <2>1. rec' \in BOOLEAN
    BY <1>14, Zenon DEF ReconcileSync
  <2> QED
    BY <1>14, <2>1 DEF ReconcileSync
<1>15. CASE LoseRedis
  BY <1>15, SizesAssumption DEF LoseRedis
<1>16. CASE UNCHANGED vars
  BY <1>16 DEF vars
<1> QED
  BY <1>1, <1>2, <1>3, <1>4, <1>5, <1>6, <1>7, <1>8, <1>9, <1>10, <1>11, <1>12, <1>13,
     <1>14, <1>15, <1>16 DEF Next, AdmissionStep, Reconcile

\* TypeOK is an invariant of the sale.
THEOREM TypeCorrect == Spec => []TypeOK
<1>1. ASSUME Init PROVE TypeOK
  <2>1. rec \in BOOLEAN
    BY <1>1, Zenon DEF Init
  <2> QED
    BY <1>1, <2>1, SizesAssumption
       DEF Init, TypeOK, EventStatus, Queue!RowStatus, Tickets!ClaimStatus
<1>2. TypeOK /\ [Next]_vars => TypeOK'
  BY TypeStep
<1> QED
  BY <1>1, <1>2, PTL DEF Spec
-----------------------------------------------------------------------------
(* The life cycle.                                                          *)

\* An Activate call that is between its load and its update loaded a DRAFT, an
\* End call did so after the first activation, and before that activation
\* nobody can have joined, so that no claim can be about to mark the event.
LifecycleInv ==
    /\ \A k \in Calls :
          call[k] \in EventStatus =>
              /\ status # "NONE"
              /\ Kind[k] = "activate" => call[k] = "DRAFT"
              /\ Kind[k] = "end" => status # "DRAFT"
    /\ status \notin {"NONE", "DRAFT"} =>
          \E l \in Calls : Kind[l] = "activate" /\ call[l] = "done"
    /\ status \in {"NONE", "DRAFT"} =>
          \A c \in Customers : row[c] = "NONE" /\ step[c] = "none"

\* Every step keeps LifecycleInv.
LEMMA LifecycleStep == TypeOK /\ LifecycleInv /\ [Next]_vars => LifecycleInv'
<1> SUFFICES ASSUME TypeOK, LifecycleInv, [Next]_vars PROVE LifecycleInv'
  OBVIOUS
<1> USE DEF LifecycleInv, TypeOK, custVars, admVars, recVars, faultVars
<1>1. CASE CreateEvent
  BY <1>1 DEF CreateEvent, UpdateStatus, EventStatus
<1>2. ASSUME NEW k \in Calls, LoadEvent(k) PROVE LifecycleInv'
  BY <1>2, KindAssumption DEF LoadEvent, Permitted, EventStatus
<1>3. ASSUME NEW k \in Calls, UpdateEvent(k) PROVE LifecycleInv'
  BY <1>3, KindAssumption DEF UpdateEvent, UpdateStatus, EventStatus
<1>4. ASSUME NEW c \in Customers, Join(c) PROVE LifecycleInv'
  BY <1>4 DEF Join, Queue!Create
<1>5. ASSUME NEW c \in Customers, LeaveQueue(c) PROVE LifecycleInv'
  BY <1>5 DEF LeaveQueue, Queue!UpdateStatus
<1>6. ASSUME NEW c \in Customers, Decrement(c) PROVE LifecycleInv'
  BY <1>6 DEF Decrement, Goto, Fallback
<1>7. ASSUME NEW c \in Customers, CreateClaim(c) PROVE LifecycleInv'
  BY <1>7 DEF CreateClaim, Goto, Complete, Queue!UpdateStatus
<1>8. ASSUME NEW c \in Customers, FailClaim(c) PROVE LifecycleInv'
  BY <1>8 DEF FailClaim, Goto
<1>9. ASSUME NEW c \in Customers, MarkEventSoldOut(c) PROVE LifecycleInv'
  BY <1>9 DEF MarkEventSoldOut, Goto, Complete, Queue!UpdateStatus, UpdateStatus
<1>10. CASE AdmitNextBatch
  BY <1>10 DEF AdmitNextBatch, Queue!UpdateStatus
<1>11. ASSUME NEW c \in Customers, ConfirmClaim(c) \/ ReturnTicket(c) PROVE LifecycleInv'
  BY <1>11 DEF ConfirmClaim, ReturnTicket
<1>12. CASE ListActive \/ CalculateBatchSize \/ Reconcile \/ LoseRedis
  BY <1>12 DEF ListActive, CalculateBatchSize, Reconcile, ReconcileCount, ReconcileSync, LoseRedis
<1>13. CASE UNCHANGED vars
  BY <1>13 DEF vars
<1> QED
  BY <1>1, <1>2, <1>3, <1>4, <1>5, <1>6, <1>7, <1>8, <1>9, <1>10, <1>11, <1>12, <1>13
     DEF Next, AdmissionStep

\* The status of an event follows domain/event.go, but for the overlapping
\* Activate and for the last claim of an event that has ended.
THEOREM LifecycleCorrect == Spec => LifecycleRespected
<1>1. Init => LifecycleInv
  BY DEF Init, LifecycleInv, EventStatus
<1>2. ASSUME TypeOK, LifecycleInv, [Next]_vars, status' # status
      PROVE  \/ <<status, status'>> \in Transition
             \/ /\ status' = "ACTIVE"
                /\ \E k, l \in Calls : /\ call[k] = "DRAFT" /\ call'[k] = "done"
                                       /\ Kind[l] = "activate" /\ call[l] = "done"
             \/ /\ <<status, status'>> = <<"ENDED", "SOLD_OUT">>
                /\ \E c \in Customers : step[c] = "mark"
  <2> USE DEF LifecycleInv, TypeOK, custVars, admVars, recVars, faultVars, Transition, EventStatus
  <2>1. CASE CreateEvent
    BY <2>1 DEF CreateEvent, UpdateStatus
  <2>2. ASSUME NEW k \in Calls, UpdateEvent(k), Kind[k] = "activate"
        PROVE  \/ <<status, status'>> \in Transition
               \/ /\ status' = "ACTIVE"
                  /\ \E j, l \in Calls : /\ call[j] = "DRAFT" /\ call'[j] = "done"
                                         /\ Kind[l] = "activate" /\ call[l] = "done"
    <3>1. status' = "ACTIVE" /\ call[k] = "DRAFT" /\ call'[k] = "done" /\ status # "NONE"
      BY <1>2, <2>2 DEF UpdateEvent, UpdateStatus
    <3>2. CASE status = "DRAFT"
      BY <3>1, <3>2
    <3>3. CASE status # "DRAFT"
      <4>1. \E l \in Calls : Kind[l] = "activate" /\ call[l] = "done"
        BY <1>2, <3>1, <3>3
      <4> QED
        BY <3>1, <4>1
    <3> QED
      BY <3>2, <3>3
  <2>3. ASSUME NEW k \in Calls, UpdateEvent(k), Kind[k] = "end"
        PROVE  <<status, status'>> \in Transition
    BY <1>2, <2>3 DEF UpdateEvent, UpdateStatus
  <2>4. ASSUME NEW c \in Customers, MarkEventSoldOut(c)
        PROVE  \/ <<status, status'>> \in Transition
               \/ <<status, status'>> = <<"ENDED", "SOLD_OUT">> /\ step[c] = "mark"
    BY <1>2, <2>4 DEF MarkEventSoldOut, UpdateStatus
  <2>5. ASSUME NEW k \in Calls, LoadEvent(k) PROVE FALSE
    BY <1>2, <2>5 DEF LoadEvent
  <2>6. ASSUME NEW c \in Customers,
               \/ Join(c) \/ LeaveQueue(c) \/ Decrement(c) \/ CreateClaim(c)
               \/ FailClaim(c) \/ ConfirmClaim(c) \/ ReturnTicket(c)
        PROVE  FALSE
    BY <1>2, <2>6 DEF Join, LeaveQueue, Decrement, CreateClaim, FailClaim, ConfirmClaim,
                      ReturnTicket
  <2>7. ASSUME AdmissionStep \/ Reconcile \/ LoseRedis \/ UNCHANGED vars PROVE FALSE
    BY <1>2, <2>7 DEF AdmissionStep, ListActive, CalculateBatchSize, AdmitNextBatch,
                      Reconcile, ReconcileCount, ReconcileSync, LoseRedis, vars
  <2>8. \A k \in Calls : Kind[k] \in {"activate", "end"}
    BY KindAssumption
  <2> QED
    BY <1>2, <2>1, <2>2, <2>3, <2>4, <2>5, <2>6, <2>7, <2>8 DEF Next
<1>3. TypeOK /\ LifecycleInv /\ [Next]_vars => LifecycleInv'
  BY LifecycleStep
<1> QED
  BY <1>1, <1>2, <1>3, TypeCorrect, PTL DEF Spec, LifecycleRespected
-----------------------------------------------------------------------------
(* Admissions.                                                              *)

\* Nobody was admitted late while the event is ACTIVE, nor since the tick that
\* is under way listed it.
AdmissionsInv ==
    /\ status = "ACTIVE" \/ adm # "idle" => late = {}
    /\ AdmissionsStop

\* An event that stops being ACTIVE admits at most one more batch.
THEOREM AdmissionsStopCorrect == Spec => []AdmissionsStop
<1>1. ASSUME Init PROVE AdmissionsInv
  BY <1>1, FS_EmptySet, SizesAssumption DEF Init, AdmissionsInv, AdmissionsStop
<1>2. ASSUME TypeOK, AdmissionsInv, [Next]_vars PROVE AdmissionsInv'
  <2> USE DEF AdmissionsInv, AdmissionsStop, custVars, admVars, recVars, faultVars
  <2>0. Cardinality({}) <= BatchSize
    BY FS_EmptySet, SizesAssumption
  <2>1. CASE AdmitNextBatch
    <3>1. PICK E \in SUBSET Waiting :
             /\ Cardinality(E) <= room
             /\ late' = IF status = "ACTIVE" THEN late ELSE late \cup E
      BY <2>1 DEF AdmitNextBatch
    <3>2. late = {} /\ adm' = "idle" /\ status' = status /\ room \in 0..BatchSize
      BY <1>2, <2>1 DEF AdmitNextBatch, TypeOK
    <3>3. E \subseteq Customers /\ late' \in {{}, E} /\ (status = "ACTIVE" => late' = {})
      BY <3>1, <3>2 DEF Waiting
    <3>4. Cardinality(E) \in Nat
      BY <3>3, CustomersFinite
    <3>5. Cardinality(late') <= BatchSize
      BY <2>0, <3>1, <3>2, <3>3, <3>4, SizesAssumption
    <3> QED
      BY <3>2, <3>3, <3>5
  <2>2. CASE ListActive \/ CalculateBatchSize
    BY <1>2, <2>2 DEF ListActive, CalculateBatchSize, TypeOK
  <2>3. ASSUME NEW s \in EventStatus, UpdateStatus(s), UNCHANGED admVars
        PROVE  AdmissionsInv'
    BY <1>2, <2>0, <2>3 DEF UpdateStatus
  <2>4. ASSUME UNCHANGED <<status, late, admVars>> PROVE AdmissionsInv'
    BY <1>2, <2>4
  <2>5. CASE CreateEvent
    BY <2>3, <2>5 DEF CreateEvent, EventStatus
  <2>6. ASSUME NEW k \in Calls, LoadEvent(k) \/ UpdateEvent(k) PROVE AdmissionsInv'
    BY <2>3, <2>4, <2>6 DEF LoadEvent, UpdateEvent, EventStatus
  <2>7. ASSUME NEW c \in Customers, MarkEventSoldOut(c) PROVE AdmissionsInv'
    BY <2>3, <2>4, <2>7 DEF MarkEventSoldOut, EventStatus
  <2>8. ASSUME NEW c \in Customers,
               \/ Join(c) \/ LeaveQueue(c) \/ Decrement(c) \/ CreateClaim(c)
               \/ FailClaim(c) \/ ConfirmClaim(c) \/ ReturnTicket(c)
        PROVE  AdmissionsInv'
    BY <2>4, <2>8 DEF Join, LeaveQueue, Decrement, CreateClaim, FailClaim, ConfirmClaim,
                      ReturnTicket
  <2>9. ASSUME Reconcile \/ LoseRedis \/ UNCHANGED vars PROVE AdmissionsInv'
    BY <2>4, <2>9 DEF Reconcile, ReconcileCount, ReconcileSync, LoseRedis, vars
  <2> QED
    BY <1>2, <2>1, <2>2, <2>5, <2>6, <2>7, <2>8, <2>9 DEF Next, AdmissionStep
<1>3. AdmissionsInv => AdmissionsStop
  BY DEF AdmissionsInv
<1> QED
  BY <1>1, <1>2, <1>3, TypeCorrect, PTL DEF Spec

-----------------------------------------------------------------------------
(* SOLD_OUT.                                                                *)

\* The customers whose call has taken a ticket and has not failed.
Taken == EverClaimed \cup InFlight

\* The calls that ever took a ticket out of the counter.
Taking == Cardinality(Taken) + failed

\* A call in flight has no row yet.
FlightInv == \A c \in InFlight : claim[c] = "NONE"

\* As long as Redis has its data, the counter is there before anybody is admitted,
\* and the counter, and a count on its way to overwrite it, are never below what
\* the calls left of the inventory; so a call that finds one ticket left is at
\* least the last of Total calls.
CountSound ==
    /\ adm = "admit" \/ (\E c \in Customers : row[c] = "ADMITTED") \/ Taken # {} => counter # NoKey
    /\ counter # NoKey => counter + Taking >= Total
    /\ rec => recCount + Taking >= Total
    /\ (\E c \in Customers : step[c] \in {"last", "mark"}) => Taking >= Total
    /\ status = "SOLD_OUT" => Taking >= Total

\* Taking is a natural number.
LEMMA TakingType == TypeOK => Taken \subseteq Customers /\ Cardinality(Taken) \in Nat /\ Taking \in Nat
<1> SUFFICES ASSUME TypeOK
             PROVE  Taken \subseteq Customers /\ Cardinality(Taken) \in Nat /\ Taking \in Nat
  OBVIOUS
<1>1. Taken \subseteq Customers
  BY DEF Taken, EverClaimed, InFlight
<1>2. Cardinality(Taken) \in Nat
  BY <1>1, CustomersFinite
<1> QED
  BY <1>1, <1>2, SizesAssumption DEF Taking, TypeOK

\* A count of the CLAIMED rows is not below what the calls left.
LEMMA PgCountBound == TypeOK => PgCount \in Int /\ PgCount + Taking >= Total
<1> SUFFICES ASSUME TypeOK PROVE PgCount \in Int /\ PgCount + Taking >= Total
  OBVIOUS
<1> DEFINE C == {c \in Customers : claim[c] = "CLAIMED"}
<1>1. C \subseteq Taken /\ C \subseteq Customers
  BY DEF Taken, EverClaimed
<1>2. Taken \subseteq Customers /\ Taking \in Nat /\ Cardinality(Taken) \in Nat
  BY TakingType
<1>3. Cardinality(C) \in Nat /\ Cardinality(C) <= Cardinality(Taken)
  BY <1>1, <1>2, CustomersFinite, FS_Subset
<1>4. failed \in Nat /\ Total \in Nat
  BY SizesAssumption DEF TypeOK
<1> HIDE DEF C
<1>5. PgCount = Total - Cardinality(C)
  BY DEF PgCount, C
<1> QED
  BY <1>2, <1>3, <1>4, <1>5 DEF Taking

\* What a step does to Taking: a decrement adds one, and nothing takes any away,
\* because a call that fails moves from the one summand to the other.
LEMMA TakingStep ==
  ASSUME TypeOK, FlightInv, NEW c \in Customers
  PROVE  /\ Decrement(c) => Taking' = Taking + 1
         /\ CreateClaim(c) => Taken' = Taken
         /\ FailClaim(c) => Taking' = Taking
         /\ ConfirmClaim(c) \/ ReturnTicket(c) \/ MarkEventSoldOut(c) => Taken' = Taken
<1> USE DEF TypeOK, Taken, EverClaimed, InFlight, custVars, admVars, recVars, faultVars
<1>0. Taken \subseteq Customers /\ Cardinality(Taken) \in Nat /\ IsFiniteSet(Taken)
  BY TakingType, CustomersFinite
<1>1. ASSUME Decrement(c) PROVE Taking' = Taking + 1
  <2>1. Taken' = Taken \cup {c} /\ c \notin Taken /\ failed' = failed
    BY <1>1 DEF Decrement, Goto, Fallback
  <2> HIDE DEF Taken
  <2>2. Cardinality(Taken') = Cardinality(Taken) + 1
    BY <1>0, <2>1, FS_AddElement
  <2> QED
    BY <1>0, <2>1, <2>2, SizesAssumption DEF Taking
<1>2. ASSUME CreateClaim(c) PROVE Taken' = Taken
  BY <1>2 DEF CreateClaim, Goto, Tickets!Create
<1>3. ASSUME FailClaim(c) PROVE Taking' = Taking
  <2>1. Taken' = Taken \ {c} /\ c \in Taken /\ failed' = failed + 1
    BY <1>3 DEF FailClaim, Goto, FlightInv
  <2> HIDE DEF Taken
  <2>2. Cardinality(Taken') = Cardinality(Taken) - 1
    BY <1>0, <2>1, FS_RemoveElement
  <2> QED
    BY <1>0, <2>1, <2>2, SizesAssumption DEF Taking
<1>4. ASSUME ConfirmClaim(c) \/ ReturnTicket(c) PROVE Taken' = Taken
  BY <1>4 DEF ConfirmClaim, ReturnTicket, Tickets!UpdateStatus
<1>5. ASSUME MarkEventSoldOut(c) PROVE Taken' = Taken
  BY <1>5 DEF MarkEventSoldOut, Goto
<1> QED
  BY <1>1, <1>2, <1>3, <1>4, <1>5

\* Every step keeps FlightInv.
LEMMA FlightStep == TypeOK /\ FlightInv /\ [Next]_vars => FlightInv'
<1> SUFFICES ASSUME TypeOK, FlightInv, [Next]_vars PROVE FlightInv'
  OBVIOUS
<1> USE DEF FlightInv, InFlight, TypeOK, custVars, admVars, recVars, faultVars
<1>1. ASSUME NEW c \in Customers, Decrement(c) PROVE FlightInv'
  BY <1>1 DEF Decrement, Goto, Fallback
<1>2. ASSUME NEW c \in Customers, CreateClaim(c) PROVE FlightInv'
  BY <1>2 DEF CreateClaim, Goto, Tickets!Create
<1>3. ASSUME NEW c \in Customers, FailClaim(c) \/ MarkEventSoldOut(c) PROVE FlightInv'
  BY <1>3 DEF FailClaim, MarkEventSoldOut, Goto
<1>4. ASSUME NEW c \in Customers, ConfirmClaim(c) \/ ReturnTicket(c) PROVE FlightInv'
  BY <1>4 DEF ConfirmClaim, ReturnTicket, Tickets!UpdateStatus
<1>5. ASSUME UNCHANGED <<claim, step>> PROVE FlightInv'
  BY <1>5
<1>6. ASSUME NEW c \in Customers, Join(c) \/ LeaveQueue(c) PROVE FlightInv'
  BY <1>5, <1>6 DEF Join, LeaveQueue
<1>7. ASSUME NEW k \in Calls, LoadEvent(k) \/ UpdateEvent(k) PROVE FlightInv'
  BY <1>5, <1>7 DEF LoadEvent, UpdateEvent
<1>8. ASSUME CreateEvent \/ AdmissionStep \/ Reconcile \/ LoseRedis \/ UNCHANGED vars
      PROVE  FlightInv'
  BY <1>5, <1>8 DEF CreateEvent, AdmissionStep, ListActive, CalculateBatchSize,
                    AdmitNextBatch, Reconcile, ReconcileCount, ReconcileSync, LoseRedis, vars
<1> QED
  BY <1>1, <1>2, <1>3, <1>4, <1>6, <1>7, <1>8 DEF Next

\* Redis does not get back what it has lost.
LEMMA LossesStep == TypeOK /\ [Next]_vars /\ losses' = 0 => losses = 0 /\ ~LoseRedis
<1> SUFFICES ASSUME TypeOK, [Next]_vars, losses' = 0 PROVE losses = 0 /\ ~LoseRedis
  OBVIOUS
<1>1. losses \in Nat
  BY SizesAssumption DEF TypeOK
<1>2. ~LoseRedis
  BY <1>1 DEF LoseRedis
<1> QED
  BY <1>2 DEF Next, CreateEvent, LoadEvent, UpdateEvent, Join, LeaveQueue, Decrement, CreateClaim,
              FailClaim, MarkEventSoldOut, ConfirmClaim, ReturnTicket, AdmissionStep, ListActive,
              CalculateBatchSize, AdmitNextBatch, Reconcile, ReconcileCount, ReconcileSync, vars,
              faultVars

\* Every step that loses nothing keeps CountSound.
LEMMA CountStep == TypeOK /\ FlightInv /\ CountSound /\ [Next]_vars /\ losses' = 0 => CountSound'
<1> SUFFICES ASSUME TypeOK, FlightInv, CountSound, [Next]_vars, losses' = 0 PROVE CountSound'
  OBVIOUS
<1> USE DEF custVars, admVars, recVars, faultVars
<1>0. Taking \in Nat /\ Total \in Nat /\ (counter # NoKey => counter \in Int) /\ recCount \in Int
  BY TakingType, SizesAssumption DEF TypeOK
<1>k. \A n \in Int : n # NoKey
  BY NoKeyAssumption
<1>1. ASSUME NEW c \in Customers, Decrement(c) PROVE CountSound'
  <2>1. Taking' = Taking + 1
    BY <1>1, TakingStep
  <2>2. counter # NoKey
    BY <1>1 DEF Decrement, CountSound
  <2>3. counter \in Int /\ counter > 0 /\ counter' = counter - 1
    BY <1>0, <1>1, <2>2 DEF Decrement, RedisCount, Fallback
  <2>4. (\E d \in Customers : step'[d] \in {"last", "mark"}) =>
            IsLast \/ \E d \in Customers : step[d] \in {"last", "mark"}
    BY <1>1, <2>2 DEF Decrement, Goto, TypeOK, Fallback
  <2>5. status' = status /\ rec' = rec /\ recCount' = recCount
    BY <1>1 DEF Decrement
  <2>6. counter' # NoKey
    BY <1>k, <2>3
  <2> QED
    BY <1>0, <2>1, <2>2, <2>3, <2>4, <2>5, <2>6 DEF CountSound, IsLast
<1>2. ASSUME NEW c \in Customers, CreateClaim(c) PROVE CountSound'
  <2>1. Taken' = Taken /\ Taking' = Taking
    BY <1>2, TakingStep DEF Taking, CreateClaim
  <2>2. counter' # NoKey
    BY <1>2 DEF CreateClaim, CountSound, Taken, InFlight
  <2>3. (\E d \in Customers : step'[d] \in {"last", "mark"}) =>
            \E d \in Customers : step[d] \in {"last", "mark"}
    BY <1>2 DEF CreateClaim, Goto, TypeOK
  <2> QED
    BY <1>2, <2>1, <2>2, <2>3 DEF CreateClaim, CountSound
<1>3. ASSUME NEW c \in Customers, FailClaim(c) PROVE CountSound'
  <2>1. Taking' = Taking
    BY <1>3, TakingStep
  <2>2. counter # NoKey /\ counter' \in {counter, counter + 1} /\ counter' # NoKey
    BY <1>0, <1>k, <1>3 DEF FailClaim, CountSound, Taken, Incremented
  <2>3. (\E d \in Customers : step'[d] \in {"last", "mark"}) =>
            \E d \in Customers : step[d] \in {"last", "mark"}
    BY <1>3 DEF FailClaim, Goto, TypeOK
  <2>4. status' = status /\ rec' = rec /\ recCount' = recCount
    BY <1>3 DEF FailClaim
  <2> QED
    BY <1>0, <2>1, <2>2, <2>3, <2>4 DEF CountSound
<1>4. ASSUME NEW c \in Customers, MarkEventSoldOut(c) PROVE CountSound'
  <2>1. Taken' = Taken /\ Taking' = Taking
    BY <1>4, TakingStep DEF Taking, MarkEventSoldOut
  <2>2. Taking >= Total
    BY <1>4 DEF MarkEventSoldOut, CountSound
  <2>3. (\E d \in Customers : row'[d] = "ADMITTED") => \E d \in Customers : row[d] = "ADMITTED"
    BY <1>4 DEF MarkEventSoldOut, Complete, Queue!UpdateStatus, TypeOK
  <2> QED
    BY <1>4, <2>1, <2>2, <2>3 DEF MarkEventSoldOut, CountSound
<1>5. ASSUME NEW c \in Customers, ConfirmClaim(c) \/ ReturnTicket(c) PROVE CountSound'
  <2>1. Taken' = Taken /\ Taking' = Taking
    BY <1>5, TakingStep DEF Taking, ConfirmClaim, ReturnTicket
  <2>2. c \in Taken
    BY <1>5 DEF ConfirmClaim, ReturnTicket, Tickets!UpdateStatus, Taken, EverClaimed
  <2>3. counter # NoKey /\ counter' \in {counter, counter + 1} /\ counter' # NoKey
    BY <1>0, <1>k, <1>5, <2>2 DEF CountSound, ConfirmClaim, ReturnTicket, Incremented
  <2>4. status' = status /\ rec' = rec /\ recCount' = recCount /\ step' = step
    BY <1>5 DEF ConfirmClaim, ReturnTicket
  <2> QED
    BY <1>0, <2>1, <2>3, <2>4 DEF CountSound
<1>6. CASE ReconcileCount
  BY <1>6, PgCountBound DEF ReconcileCount, CountSound, Taken, Taking, EverClaimed, InFlight
<1>7. CASE ReconcileSync
  <2>1. counter' # NoKey
    BY <1>0, <1>k, <1>7 DEF ReconcileSync
  <2> QED
    BY <1>7, <2>1 DEF ReconcileSync, CountSound, Taken, Taking, EverClaimed, InFlight
<1>8. ASSUME status' \in {status, "DRAFT", "ACTIVE", "ENDED"},
             UNCHANGED <<claim, step, counter, recVars, failed>>,
             adm' # "admit" \/ adm' = adm \/ counter # NoKey,
             (\E d \in Customers : row'[d] = "ADMITTED") =>
                 counter # NoKey \/ \E d \in Customers : row[d] = "ADMITTED"
      PROVE  CountSound'
  BY <1>8 DEF CountSound, Taken, Taking, EverClaimed, InFlight
<1>9. CASE CreateEvent
  BY <1>8, <1>9 DEF CreateEvent, UpdateStatus
<1>10. ASSUME NEW k \in Calls, LoadEvent(k) \/ UpdateEvent(k) PROVE CountSound'
  BY <1>8, <1>10 DEF LoadEvent, UpdateEvent, UpdateStatus
<1>11. ASSUME NEW c \in Customers, Join(c) \/ LeaveQueue(c) PROVE CountSound'
  <2>1. (\E d \in Customers : row'[d] = "ADMITTED") => \E d \in Customers : row[d] = "ADMITTED"
    BY <1>11 DEF Join, LeaveQueue, Queue!Create, Queue!UpdateStatus, TypeOK
  <2> QED
    BY <1>8, <1>11, <2>1 DEF Join, LeaveQueue
<1>12. CASE CalculateBatchSize
  BY <1>8, <1>12 DEF CalculateBatchSize, RedisCount
<1>13. CASE AdmitNextBatch
  <2>1. counter # NoKey
    BY <1>13 DEF AdmitNextBatch, CountSound
  <2> QED
    BY <1>8, <1>13, <2>1 DEF AdmitNextBatch
<1>14. ASSUME ListActive \/ UNCHANGED vars PROVE CountSound'
  BY <1>8, <1>14 DEF ListActive, vars
<1>15. ~LoseRedis
  BY LossesStep
<1> QED
  BY <1>1, <1>2, <1>3, <1>4, <1>5, <1>6, <1>7, <1>9, <1>10, <1>11, <1>12, <1>13, <1>14, <1>15
     DEF Next, Reconcile, AdmissionStep

\* An event is marked SOLD_OUT only when as many calls took a ticket as there
\* are tickets, however often the counter was overwritten with an older count,
\* as long as Redis has not lost it.
THEOREM SoldOutHonestCorrect == Spec => []SoldOutHonest
<1> DEFINE Inv == FlightInv /\ (losses = 0 => CountSound)
<1>1. ASSUME Init PROVE Inv
  BY <1>1 DEF Init, FlightInv, CountSound, Taken, EverClaimed, InFlight
<1>2. TypeOK /\ Inv /\ [Next]_vars => Inv'
  BY FlightStep, CountStep, LossesStep
<1>3. Inv => SoldOutHonest
  BY DEF CountSound, SoldOutHonest, Taking, Taken
<1> QED
  BY <1>1, <1>2, <1>3, TypeCorrect, PTL DEF Spec

-----------------------------------------------------------------------------
(* The two ledgers.                                                         *)

\* The sale uses the claims table as ClaimLedger allows.
THEOREM ImplementsTickets == Spec => TicketsSpec
<1>1. Init => Tickets!Init
  BY DEF Init, Tickets!Init
<1>2. ASSUME [Next]_vars PROVE [Tickets!Next]_claim
  <2> USE DEF custVars
  <2>1. ASSUME NEW c \in Customers, CreateClaim(c) \/ ConfirmClaim(c) \/ ReturnTicket(c)
        PROVE  Tickets!Next
    BY <2>1 DEF CreateClaim, ConfirmClaim, ReturnTicket, Tickets!Next
  <2>2. ASSUME NEW c \in Customers,
               \/ Join(c) \/ LeaveQueue(c) \/ Decrement(c) \/ FailClaim(c) \/ MarkEventSoldOut(c)
        PROVE  UNCHANGED claim
    BY <2>2 DEF Join, LeaveQueue, Decrement, FailClaim, MarkEventSoldOut
  <2>3. ASSUME NEW k \in Calls, LoadEvent(k) \/ UpdateEvent(k) PROVE UNCHANGED claim
    BY <2>3 DEF LoadEvent, UpdateEvent
  <2>4. ASSUME CreateEvent \/ AdmissionStep \/ Reconcile \/ LoseRedis \/ UNCHANGED vars
        PROVE  UNCHANGED claim
    BY <2>4 DEF CreateEvent, AdmissionStep, ListActive, CalculateBatchSize, AdmitNextBatch,
                Reconcile, ReconcileCount, ReconcileSync, LoseRedis, vars
  <2> QED
    BY <1>2, <2>1, <2>2, <2>3, <2>4 DEF Next
<1> QED
  BY <1>1, <1>2, PTL DEF Spec, TicketsSpec, Tickets!Spec

\* The sale uses the queue table as QueueLedger allows.
THEOREM ImplementsQueue == Spec => QueueSpec
<1>1. Init => Queue!Init
  BY DEF Init, Queue!Init
<1>2. ASSUME [Next]_vars PROVE [Queue!Next]_row
  <2> USE DEF custVars
  <2>1. ASSUME NEW c \in Customers, Join(c) PROVE Queue!Next
    BY <2>1 DEF Join, Queue!Next
  <2>2. ASSUME NEW c \in Customers, LeaveQueue(c) PROVE Queue!Next
    <3>1. {c} \in SUBSET Customers /\ "ADMITTED" \in Queue!ActiveStatus
      BY DEF Queue!ActiveStatus
    <3> QED
      BY <2>2, <3>1 DEF LeaveQueue, Queue!Next
  <2>3. CASE AdmitNextBatch
    <3>1. PICK E \in SUBSET Waiting : Queue!UpdateStatus(E, "WAITING", "ADMITTED")
      BY <2>3 DEF AdmitNextBatch
    <3>2. E \in SUBSET Customers
      BY DEF Waiting
    <3> QED
      BY <3>1, <3>2 DEF Queue!Next
  <2>4. ASSUME NEW c \in Customers, CreateClaim(c) \/ MarkEventSoldOut(c) PROVE [Queue!Next]_row
    <3>1. {c} \in SUBSET Customers
      OBVIOUS
    <3> QED
      BY <2>4, <3>1 DEF CreateClaim, MarkEventSoldOut, Complete, Queue!Next
  <2>5. ASSUME NEW c \in Customers,
               Decrement(c) \/ FailClaim(c) \/ ConfirmClaim(c) \/ ReturnTicket(c)
        PROVE  UNCHANGED row
    BY <2>5 DEF Decrement, FailClaim, ConfirmClaim, ReturnTicket
  <2>6. ASSUME NEW k \in Calls, LoadEvent(k) \/ UpdateEvent(k) PROVE UNCHANGED row
    BY <2>6 DEF LoadEvent, UpdateEvent
  <2>7. ASSUME \/ CreateEvent \/ ListActive \/ CalculateBatchSize \/ Reconcile \/ LoseRedis
               \/ UNCHANGED vars
        PROVE  UNCHANGED row
    BY <2>7 DEF CreateEvent, ListActive, CalculateBatchSize, Reconcile, ReconcileCount,
                ReconcileSync, LoseRedis, vars
  <2> QED
    BY <1>2, <2>1, <2>2, <2>3, <2>4, <2>5, <2>6, <2>7 DEF Next, AdmissionStep
<1> QED
  BY <1>1, <1>2, PTL DEF Spec, QueueSpec, Queue!Spec

-----------------------------------------------------------------------------
(* Tickets that come back after the end of the sale.                        *)

\* Who has not been admitted has no ticket, and no call that could get one.
AdmittedFirst ==
    \A c \in Customers :
        row[c] \in {"NONE", "WAITING", "ABANDONED"} => step[c] = "none" /\ claim[c] = "NONE"

\* Every step keeps AdmittedFirst.
LEMMA AdmittedFirstStep == TypeOK /\ AdmittedFirst /\ [Next]_vars => AdmittedFirst'
<1> SUFFICES ASSUME TypeOK, AdmittedFirst, [Next]_vars PROVE AdmittedFirst'
  OBVIOUS
<1> USE DEF AdmittedFirst, TypeOK, custVars
<1>1. ASSUME NEW c \in Customers, Join(c) PROVE AdmittedFirst'
  BY <1>1 DEF Join, Queue!Create
<1>2. ASSUME NEW c \in Customers, LeaveQueue(c) PROVE AdmittedFirst'
  BY <1>2 DEF LeaveQueue, Queue!UpdateStatus
<1>3. ASSUME NEW c \in Customers, Decrement(c) PROVE AdmittedFirst'
  BY <1>3 DEF Decrement, Fallback, Goto
<1>4. ASSUME NEW c \in Customers, CreateClaim(c) PROVE AdmittedFirst'
  BY <1>4 DEF CreateClaim, Goto, Complete, Tickets!Create, Queue!UpdateStatus
<1>5. ASSUME NEW c \in Customers, FailClaim(c) PROVE AdmittedFirst'
  BY <1>5 DEF FailClaim, Goto
<1>6. ASSUME NEW c \in Customers, MarkEventSoldOut(c) PROVE AdmittedFirst'
  BY <1>6 DEF MarkEventSoldOut, Goto, Complete, Queue!UpdateStatus
<1>7. ASSUME NEW c \in Customers, ConfirmClaim(c) \/ ReturnTicket(c) PROVE AdmittedFirst'
  BY <1>7 DEF ConfirmClaim, ReturnTicket, Tickets!UpdateStatus
<1>8. CASE AdmitNextBatch
  BY <1>8 DEF AdmitNextBatch, Queue!UpdateStatus
<1>9. ASSUME UNCHANGED custVars PROVE AdmittedFirst'
  BY <1>9
<1>10. ASSUME NEW k \in Calls, LoadEvent(k) \/ UpdateEvent(k) PROVE AdmittedFirst'
  BY <1>9, <1>10 DEF LoadEvent, UpdateEvent
<1>11. CASE CreateEvent \/ ListActive \/ CalculateBatchSize \/ Reconcile \/ LoseRedis \/ UNCHANGED vars
  BY <1>9, <1>11 DEF CreateEvent, ListActive, CalculateBatchSize, Reconcile, ReconcileCount,
                     ReconcileSync, LoseRedis, vars
<1> QED
  BY <1>1, <1>2, <1>3, <1>4, <1>5, <1>6, <1>7, <1>8, <1>10, <1>11 DEF Next, AdmissionStep

\* The sale is over, no tick is under way, and customer c has not been admitted.
LeftOut(c) == Over /\ adm = "idle" /\ row[c] \in {"WAITING", "ABANDONED"}

\* No step leads out of it: Activate asks for a DRAFT, and a tick for an ACTIVE event.
LEMMA LeftOutStep ==
  ASSUME NEW c \in Customers PROVE TypeOK /\ LeftOut(c) /\ [Next]_vars => LeftOut(c)'
<1> SUFFICES ASSUME TypeOK, LeftOut(c), [Next]_vars PROVE LeftOut(c)'
  OBVIOUS
<1> USE KindAssumption DEF LeftOut, Over, TypeOK, EventStatus, custVars, admVars
<1>1. ASSUME NEW k \in Calls, LoadEvent(k) PROVE LeftOut(c)'
  BY <1>1 DEF LoadEvent, Permitted
<1>2. ASSUME NEW k \in Calls, UpdateEvent(k) PROVE LeftOut(c)'
  BY <1>2 DEF UpdateEvent, UpdateStatus
<1>3. ASSUME NEW d \in Customers, LeaveQueue(d) PROVE LeftOut(c)'
  BY <1>3 DEF LeaveQueue, Queue!UpdateStatus
<1>4. ASSUME NEW d \in Customers, CreateClaim(d) PROVE LeftOut(c)'
  BY <1>4 DEF CreateClaim, Complete, Queue!UpdateStatus
<1>5. ASSUME NEW d \in Customers, MarkEventSoldOut(d) PROVE LeftOut(c)'
  BY <1>5 DEF MarkEventSoldOut, Complete, Queue!UpdateStatus, UpdateStatus
<1>6. ASSUME \/ CreateEvent \/ ListActive \/ CalculateBatchSize \/ AdmitNextBatch
             \/ \E d \in Customers : Join(d)
      PROVE  FALSE
  BY <1>6 DEF CreateEvent, ListActive, CalculateBatchSize, AdmitNextBatch, Join
<1>7. ASSUME UNCHANGED <<status, call, adm, row>> PROVE LeftOut(c)'
  BY <1>7
<1>8. ASSUME NEW d \in Customers, Decrement(d) \/ FailClaim(d) \/ ConfirmClaim(d) \/ ReturnTicket(d)
      PROVE  LeftOut(c)'
  BY <1>7, <1>8 DEF Decrement, FailClaim, ConfirmClaim, ReturnTicket
<1>9. CASE Reconcile \/ LoseRedis \/ UNCHANGED vars
  BY <1>7, <1>9 DEF Reconcile, ReconcileCount, ReconcileSync, LoseRedis, vars
<1> QED
  BY <1>1, <1>2, <1>3, <1>4, <1>5, <1>6, <1>8, <1>9 DEF Next, AdmissionStep

\* What the run sale_released_ticket finds once holds for good, for everybody who
\* waits and for every number of tickets that are released.
THEOREM WaitingInVainCorrect == Spec => WaitingInVain
<1> SUFFICES ASSUME NEW c \in Customers
             PROVE  Spec => [](Over /\ adm = "idle" /\ row[c] = "WAITING"
                                  => [](row[c] \in {"WAITING", "ABANDONED"} /\ claim[c] = "NONE"))
  BY DEF WaitingInVain
<1>1. Init => AdmittedFirst
  BY DEF Init, AdmittedFirst
<1>2. TypeOK /\ AdmittedFirst /\ [Next]_vars => AdmittedFirst'
  BY AdmittedFirstStep
<1>3. Over /\ adm = "idle" /\ row[c] = "WAITING" => LeftOut(c)
  BY DEF LeftOut
<1>4. TypeOK /\ LeftOut(c) /\ [Next]_vars => LeftOut(c)'
  BY LeftOutStep
<1>5. AdmittedFirst /\ LeftOut(c) => row[c] \in {"WAITING", "ABANDONED"} /\ claim[c] = "NONE"
  BY DEF AdmittedFirst, LeftOut
<1> QED
  BY <1>1, <1>2, <1>3, <1>4, <1>5, TypeCorrect, PTL DEF Spec
=============================================================================
