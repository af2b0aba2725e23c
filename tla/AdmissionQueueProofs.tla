------------------------ MODULE AdmissionQueueProofs ------------------------
(***************************************************************************)
(* Proofs about AdmissionQueue, for every number of customers, joins,      *)
(* tickets and faults and every batch size.                                *)
(***************************************************************************)
EXTENDS AdmissionQueue, FiniteSetTheorems, TLAPS

\* joined_at is a natural number: the joins so far can be counted.
LEMMA JoinedType == 1 + Cardinality({f \in Entries : joined[f] # 0}) \in Nat
<1>1. IsFiniteSet({f \in Entries : joined[f] # 0})
  BY EntriesAssumption, FS_Subset
<1> QED
  BY <1>1, FS_CardinalityType

\* An UPDATE of queue_entries to a status of the schema keeps the table typed.
LEMMA UpdateType ==
  ASSUME row \in [Entries -> Ledger!RowStatus],
         NEW E, NEW expected, NEW new \in Ledger!RowStatus,
         Ledger!UpdateStatus(E, expected, new)
  PROVE  row' \in [Entries -> Ledger!RowStatus]
BY DEF Ledger!UpdateStatus

\* Every step of the queue keeps every variable in its set.
LEMMA TypeStep == TypeOK /\ [Next]_vars => TypeOK'
<1> SUFFICES ASSUME TypeOK, [Next]_vars PROVE TypeOK'
  OBVIOUS
<1> USE DEF TypeOK, Steps, AdmSteps, pgVars, redisVars, callVars, workerVars
<1>f. ASSUME Fault PROVE faults' \in 0..MaxFaults
  BY <1>f, SizesAssumption DEF Fault
<1>s. {"ADMITTED", "ABANDONED", "COMPLETED", "EXPIRED", "WAITING"} \subseteq Ledger!RowStatus
  BY DEF Ledger!RowStatus, Ledger!ActiveStatus
<1>1. ASSUME NEW e \in Entries, JoinCheck(e) PROVE TypeOK'
  BY <1>1, <1>f, JoinedType DEF JoinCheck, Goto
<1>2. ASSUME NEW e \in Entries, JoinInsert(e) PROVE TypeOK'
  BY <1>2, <1>f, <1>s DEF JoinInsert, Ledger!Create, Goto
<1>3. ASSUME NEW e \in Entries, JoinRedis(e) PROVE TypeOK'
  BY <1>3, <1>f DEF JoinRedis, JoinScript, Goto
<1>4. ASSUME NEW e \in Entries, Abandon(e) PROVE TypeOK'
  <2>1. row' \in [Entries -> Ledger!RowStatus]
    BY <1>4, <1>s, UpdateType DEF Abandon
  <2> QED
    BY <1>4, <1>f, <2>1, OwnerAssumption DEF Abandon
<1>5. ASSUME NEW e \in Entries, ExpireQueueEntry(e) PROVE TypeOK'
  <2>1. row' \in [Entries -> Ledger!RowStatus]
    BY <1>5, <1>s, UpdateType DEF ExpireQueueEntry
  <2> QED
    BY <1>5, <1>f, <2>1 DEF ExpireQueueEntry
<1>6. ASSUME NEW e \in Entries, EntryAges(e) PROVE TypeOK'
  BY <1>6 DEF EntryAges
<1>7. ASSUME NEW c \in Customers, AbandonRedis(c) PROVE TypeOK'
  BY <1>7, <1>f DEF AbandonRedis
<1>8. ASSUME NEW c \in Customers, GetQueuePosition(c) \/ TokenExpires(c) PROVE TypeOK'
  BY <1>8 DEF GetQueuePosition, TokenExpires
<1>9. ASSUME NEW c \in Customers, Claim(c) PROVE TypeOK'
  <2>1. tickets' \in 0..Total
    BY <1>9, SizesAssumption DEF Claim
  <2>2. active' \in BOOLEAN /\ warm' \in BOOLEAN
    BY <1>9, Zenon DEF Claim
  <2>3. faults' \in 0..MaxFaults
    BY <1>9, <1>f DEF Claim
  <2> QED
    BY <1>9, <2>1, <2>2, <2>3 DEF Claim
<1>10. ASSUME NEW c \in Customers, Complete(c) PROVE TypeOK'
  <2>1. row' \in [Entries -> Ledger!RowStatus]
    BY <1>10, <1>s, UpdateType DEF Complete
  <2> QED
    BY <1>10, <1>f, <2>1 DEF Complete
<1>11. ASSUME NEW c \in Customers, CompleteRedis(c) PROVE TypeOK'
  BY <1>11, <1>f DEF CompleteRedis
<1>12. ASSUME NEW c \in Customers, WindowLapses(c) PROVE TypeOK'
  BY <1>12 DEF WindowLapses
<1>13. CASE EvictExpired
  BY <1>13, <1>f DEF EvictExpired
<1>14. CASE MarkExpiredBatch
  <2>1. row' \in [Entries -> Ledger!RowStatus]
    BY <1>14, <1>s, UpdateType DEF MarkExpiredBatch
  <2> QED
    BY <1>14, <1>f, <2>1 DEF MarkExpiredBatch
<1>15. CASE CalculateBatchSize
  BY <1>15, <1>f, SizesAssumption DEF CalculateBatchSize
<1>16. CASE AdmitNextBatch
  <2>1. Head(room) \subseteq waiting /\ Owners(Head(room)) \subseteq Customers
    BY OwnerAssumption DEF Head, Owners
  <2> QED
    BY <1>16, <1>f, <2>1, SizesAssumption DEF AdmitNextBatch
<1>17. CASE MarkAdmittedBatch
  <2>1. row' \in [Entries -> Ledger!RowStatus]
    BY <1>17, <1>s, UpdateType DEF MarkAdmittedBatch
  <2> QED
    BY <1>17, <1>f, <2>1 DEF MarkAdmittedBatch
<1>18. CASE NotifyAdmitted
  <2>1. Owners(popped) \subseteq Customers
    BY OwnerAssumption DEF Owners
  <2> QED
    BY <1>18, <2>1 DEF NotifyAdmitted
<1>19. CASE GetStaleEntries
  BY <1>19 DEF GetStaleEntries
<1>20. CASE ReconcileInventory \/ EndEvent
  BY <1>20 DEF ReconcileInventory, EndEvent
<1>21. CASE RedisWipe
  BY <1>21, <1>f DEF RedisWipe
<1>22. CASE CrashRestart
  <2>1. Recover \subseteq Entries
    BY DEF Recover, WaitingRows
  <2>2. PICK E \in SUBSET Recover :
           /\ waiting' = waiting \cup E
           /\ warm' \in {warm, warm \/ active}
           /\ missing' = (missing \cup {e \in WaitingRows : pc[e] = "zadd" \/ e \in popped}) \ E
    BY <1>22 DEF CrashRestart
  <2>3. warm' \in BOOLEAN
    BY <2>2, Zenon
  <2>4. missing' \subseteq Entries /\ waiting' \subseteq Entries
    BY <2>1, <2>2 DEF WaitingRows
  <2>5. /\ pc' \in [Entries -> Steps] /\ stale' \in [Entries -> {"none"} \cup Ledger!ActiveStatus]
        /\ adm' \in AdmSteps /\ room' \in 0..BatchSize /\ faults' \in 0..MaxFaults
    BY <1>22, <1>f, SizesAssumption DEF CrashRestart
  <2> QED
    BY <1>22, <2>3, <2>4, <2>5 DEF CrashRestart
<1>23. CASE UNCHANGED vars
  BY <1>23 DEF vars
<1> QED
  BY <1>1, <1>2, <1>3, <1>4, <1>5, <1>6, <1>7, <1>8, <1>9, <1>10, <1>11, <1>12, <1>13,
     <1>14, <1>15, <1>16, <1>17, <1>18, <1>19, <1>20, <1>21, <1>22, <1>23
     DEF Next, JoinStep, AdmissionStep

\* TypeOK is an invariant of the queue, whatever the calls, the scripts, the
\* workers and the crashes do.
THEOREM TypeCorrect == Spec => []TypeOK
<1>1. ASSUME Init PROVE TypeOK
  <2>1. active \in BOOLEAN /\ warm \in BOOLEAN
    BY <1>1, Zenon DEF Init
  <2>2. faults \in 0..MaxFaults /\ tickets \in 0..Total /\ room \in 0..BatchSize
    BY <1>1, SizesAssumption DEF Init
  <2>3. row \in [Entries -> Ledger!RowStatus] /\ joined \in [Entries -> Nat]
    BY <1>1 DEF Init, Ledger!RowStatus
  <2>4. pc \in [Entries -> Steps] /\ stale \in [Entries -> {"none"} \cup Ledger!ActiveStatus]
    BY <1>1 DEF Init, Steps
  <2> QED
    BY <1>1, <2>1, <2>2, <2>3, <2>4 DEF Init, TypeOK, AdmSteps
<1>2. TypeOK /\ [Next]_vars => TypeOK'
  BY TypeStep
<1> QED
  BY <1>1, <1>2, PTL DEF Spec
-----------------------------------------------------------------------------
(* The table.                                                               *)

\* AdmissionQueue implements QueueLedger: every step inserts one row, moves a
\* set of rows along the lifecycle, or leaves the table alone.
THEOREM ImplementsLedger == Spec => LedgerSpec
<1>1. Init => Ledger!Init
  BY DEF Init, Ledger!Init
<1>2. ASSUME TypeOK, [Next]_vars PROVE [Ledger!Next]_row
  <2> USE DEF pgVars, redisVars, callVars, workerVars
  <2>1. ASSUME NEW e \in Entries, JoinInsert(e) PROVE [Ledger!Next]_row
    BY <2>1 DEF JoinInsert, Ledger!Next
  <2>2. ASSUME NEW e \in Entries, Abandon(e) PROVE [Ledger!Next]_row
    <3>1. {e} \in SUBSET Entries /\ Ledger!UpdateStatus({e}, "WAITING", "ABANDONED")
      BY <2>2 DEF Abandon
    <3> QED
      BY <3>1, Zenon DEF Ledger!Next
  <2>3. ASSUME NEW e \in Entries, ExpireQueueEntry(e) PROVE [Ledger!Next]_row
    <3>1. CASE UNCHANGED row
      BY <3>1
    <3>2. CASE Ledger!UpdateStatus({e}, stale[e], "EXPIRED")
      <4>1. {e} \in SUBSET Entries /\ stale[e] \in Ledger!ActiveStatus
        BY <1>2, <2>3 DEF TypeOK, ExpireQueueEntry
      <4> QED
        BY <3>2, <4>1, Zenon DEF Ledger!Next
    <3> QED
      BY <2>3, <3>1, <3>2 DEF ExpireQueueEntry
  <2>4. ASSUME NEW c \in Customers, Complete(c) PROVE [Ledger!Next]_row
    <3>1. EntriesOf({c}) \in SUBSET Entries
      BY DEF EntriesOf
    <3>2. \/ Ledger!UpdateStatus(EntriesOf({c}), "ADMITTED", "COMPLETED")
          \/ UNCHANGED row
      BY <2>4 DEF Complete
    <3> QED
      BY <3>1, <3>2, Zenon DEF Ledger!Next
  <2>5. CASE MarkExpiredBatch
    <3>1. EntriesOf(evicted) \in SUBSET Entries /\ "ADMITTED" \in Ledger!ActiveStatus
      BY DEF EntriesOf, Ledger!ActiveStatus
    <3>2. \/ Ledger!UpdateStatus(EntriesOf(evicted), "ADMITTED", "EXPIRED")
          \/ UNCHANGED row
      BY <2>5 DEF MarkExpiredBatch
    <3> QED
      BY <3>1, <3>2, Zenon DEF Ledger!Next
  <2>6. CASE MarkAdmittedBatch
    <3>1. EntriesOf(Owners(popped)) \in SUBSET Entries
      BY DEF EntriesOf
    <3>2. \/ Ledger!UpdateStatus(EntriesOf(Owners(popped)), "WAITING", "ADMITTED")
          \/ UNCHANGED row
      BY <2>6 DEF MarkAdmittedBatch
    <3> QED
      BY <3>1, <3>2, Zenon DEF Ledger!Next
  <2>7. ASSUME NEW e \in Entries, JoinCheck(e) \/ JoinRedis(e) \/ EntryAges(e)
        PROVE  UNCHANGED row
    BY <2>7 DEF JoinCheck, JoinRedis, EntryAges
  <2>8. ASSUME NEW c \in Customers,
               \/ AbandonRedis(c) \/ GetQueuePosition(c) \/ TokenExpires(c)
               \/ Claim(c) \/ CompleteRedis(c) \/ WindowLapses(c)
        PROVE  UNCHANGED row
    BY <2>8 DEF AbandonRedis, GetQueuePosition, TokenExpires, Claim, CompleteRedis,
                WindowLapses
  <2>9. ASSUME \/ EvictExpired \/ CalculateBatchSize \/ AdmitNextBatch \/ NotifyAdmitted
               \/ GetStaleEntries \/ ReconcileInventory \/ EndEvent \/ RedisWipe
               \/ CrashRestart \/ UNCHANGED vars
        PROVE  UNCHANGED row
    BY <2>9 DEF EvictExpired, CalculateBatchSize, AdmitNextBatch, NotifyAdmitted,
                GetStaleEntries, ReconcileInventory, EndEvent, RedisWipe, CrashRestart, vars
  <2> QED
    BY <1>2, <2>1, <2>2, <2>3, <2>4, <2>5, <2>6, <2>7, <2>8, <2>9
       DEF Next, JoinStep, AdmissionStep
<1> QED
  BY <1>1, <1>2, TypeCorrect, PTL DEF Spec, LedgerSpec, Ledger!Spec

\* What the unique index of queue_entries gives the recovery: no customer has
\* two rows that are WAITING or ADMITTED.
OneActive ==
    \A e, f \in Entries :
        /\ Owner[e] = Owner[f]
        /\ {row[e], row[f]} \subseteq Ledger!ActiveStatus
        => e = f

\* Of the ledger's steps, only the INSERT makes a row active, and it looks
\* for another one first.
LEMMA OneActiveStep == TypeOK /\ OneActive /\ [Ledger!Next]_row => OneActive'
<1> SUFFICES ASSUME TypeOK, OneActive, [Ledger!Next]_row PROVE OneActive'
  OBVIOUS
<1> USE DEF TypeOK, OneActive, Ledger!ActiveStatus
<1>1. ASSUME NEW e \in Entries, Ledger!Create(e) PROVE OneActive'
  BY <1>1 DEF Ledger!Create, Ledger!Active
<1>2. ASSUME NEW E \in SUBSET Entries, NEW expected \in Ledger!ActiveStatus, NEW new,
             Ledger!UpdateStatus(E, expected, new)
      PROVE  OneActive'
  <2>1. \A e \in Entries : row'[e] \in Ledger!ActiveStatus => row[e] \in Ledger!ActiveStatus
    BY <1>2 DEF Ledger!UpdateStatus
  <2> QED
    BY <2>1
<1>3. CASE UNCHANGED row
  BY <1>3
<1> QED
  BY <1>1, <1>2, <1>3 DEF Ledger!Next

\* OneActive is an invariant.
LEMMA OneActiveCorrect == Spec => []OneActive
<1>1. Init => OneActive
  BY DEF Init, OneActive, Ledger!ActiveStatus
<1> QED
  BY <1>1, OneActiveStep, TypeCorrect, ImplementsLedger, PTL DEF Spec, LedgerSpec, Ledger!Spec
-----------------------------------------------------------------------------
(* The two sorted sets.                                                     *)

\* Removing members from the sorted sets cannot put a customer in two places.
LEMMA OnePlaceShrinks ==
  ASSUME OnePlace, waiting' \subseteq waiting, admitted' \subseteq admitted
  PROVE  OnePlace'
BY DEF OnePlace, Owners

\* joinScript and the recovery add customers that are in neither sorted set,
\* and admitBatchScript moves them from one to the other.
LEMMA OnePlaceStep == TypeOK /\ OneActive /\ OnePlace /\ [Next]_vars => OnePlace'
<1> SUFFICES ASSUME TypeOK, OneActive, OnePlace, [Next]_vars PROVE OnePlace'
  OBVIOUS
<1> USE DEF pgVars, redisVars, callVars, workerVars
<1>1. ASSUME NEW e \in Entries, JoinRedis(e) PROVE OnePlace'
  <2>1. CASE waiting' = waiting
    BY <1>1, <2>1, OnePlaceShrinks DEF JoinRedis
  <2>2. CASE ~InRedis(Owner[e]) /\ waiting' = waiting \cup {e}
    BY <1>1, <2>2 DEF JoinRedis, OnePlace, InRedis, Owners
  <2> QED
    BY <1>1, <2>1, <2>2 DEF JoinRedis, JoinScript
<1>2. CASE AdmitNextBatch
  <2>1. Head(room) \subseteq waiting
    BY DEF Head
  <2>2. CASE waiting' = waiting /\ admitted' = admitted
    BY <2>2, OnePlaceShrinks
  <2>3. CASE waiting' = waiting \ Head(room) /\ admitted' = admitted \cup Owners(Head(room))
    BY <2>1, <2>3 DEF OnePlace, Owners
  <2> QED
    BY <1>2, <2>2, <2>3 DEF AdmitNextBatch
<1>3. CASE CrashRestart
  <2>1. PICK E \in SUBSET Recover : waiting' = waiting \cup E
    BY <1>3 DEF CrashRestart
  <2>2. admitted' = admitted
    BY <1>3 DEF CrashRestart
  <2>3. \A e \in E : e \in Entries /\ row[e] = "WAITING" /\ ~InRedis(Owner[e])
    BY DEF Recover, WaitingRows
  <2>4. \A e, f \in E : Owner[e] = Owner[f] => e = f
    BY <2>3 DEF OneActive, Ledger!ActiveStatus
  <2>5. \A e \in E, f \in waiting : Owner[e] # Owner[f]
    BY <2>3 DEF InRedis, Owners
  <2>6. \A e \in E : Owner[e] \notin admitted
    BY <2>3 DEF InRedis
  <2> QED
    BY <2>1, <2>2, <2>4, <2>5, <2>6 DEF OnePlace, Owners
<1>4. ASSUME NEW c \in Customers, AbandonRedis(c) \/ CompleteRedis(c) PROVE OnePlace'
  BY <1>4, OnePlaceShrinks DEF AbandonRedis, CompleteRedis
<1>5. CASE EvictExpired \/ RedisWipe
  BY <1>5, OnePlaceShrinks DEF EvictExpired, RedisWipe
<1>6. ASSUME NEW e \in Entries,
             JoinCheck(e) \/ JoinInsert(e) \/ Abandon(e) \/ ExpireQueueEntry(e) \/ EntryAges(e)
      PROVE  UNCHANGED <<waiting, admitted>>
  BY <1>6 DEF JoinCheck, JoinInsert, Abandon, ExpireQueueEntry, EntryAges
<1>7. ASSUME NEW c \in Customers,
             GetQueuePosition(c) \/ TokenExpires(c) \/ Claim(c) \/ Complete(c) \/ WindowLapses(c)
      PROVE  UNCHANGED <<waiting, admitted>>
  BY <1>7 DEF GetQueuePosition, TokenExpires, Claim, Complete, WindowLapses
<1>8. ASSUME \/ MarkExpiredBatch \/ CalculateBatchSize \/ MarkAdmittedBatch
             \/ NotifyAdmitted \/ GetStaleEntries \/ ReconcileInventory \/ EndEvent
             \/ UNCHANGED vars
      PROVE  UNCHANGED <<waiting, admitted>>
  BY <1>8 DEF MarkExpiredBatch, CalculateBatchSize, MarkAdmittedBatch, NotifyAdmitted,
              GetStaleEntries, ReconcileInventory, EndEvent, vars
<1>9. UNCHANGED <<waiting, admitted>> => OnePlace'
  BY OnePlaceShrinks
<1> QED
  BY <1>1, <1>2, <1>3, <1>4, <1>5, <1>6, <1>7, <1>8, <1>9
     DEF Next, JoinStep, AdmissionStep

\* For any number of customers and entries, the Lua scripts and the recovery
\* keep every customer in at most one of the two sorted sets, and only once.
THEOREM OnePlaceCorrect == Spec => []OnePlace
<1>1. Init => OnePlace
  BY DEF Init, OnePlace, Owners
<1> QED
  BY <1>1, OnePlaceStep, TypeCorrect, OneActiveCorrect, PTL DEF Spec

-----------------------------------------------------------------------------
(* Postgres and Redis agree on who waits.                                   *)

\* Each step that takes a WAITING entry out of Redis, or fails to put one in,
\* either settles its row, hands it to the admission worker, or is counted in
\* missing.
LEMMA InSyncStep == TypeOK /\ InSync /\ [Next]_vars => InSync'
<1> SUFFICES ASSUME TypeOK, InSync, [Next]_vars PROVE InSync'
  OBVIOUS
<1> USE DEF TypeOK, InSync, WaitingRows, pgVars, redisVars, callVars, workerVars
<1>1. ASSUME NEW e \in Entries, JoinCheck(e) PROVE InSync'
  BY <1>1 DEF JoinCheck, Goto
<1>2. ASSUME NEW e \in Entries, JoinInsert(e) PROVE InSync'
  BY <1>2 DEF JoinInsert, Ledger!Create, Goto
<1>3. ASSUME NEW e \in Entries, JoinRedis(e) PROVE InSync'
  BY <1>3 DEF JoinRedis, JoinScript, Goto
<1>4. ASSUME NEW e \in Entries, Abandon(e) \/ ExpireQueueEntry(e) \/ EntryAges(e)
      PROVE  InSync'
  BY <1>4 DEF Abandon, ExpireQueueEntry, EntryAges, Ledger!UpdateStatus
<1>5. ASSUME NEW c \in Customers, AbandonRedis(c) PROVE InSync'
  BY <1>5 DEF AbandonRedis
<1>6. ASSUME NEW c \in Customers,
             \/ GetQueuePosition(c) \/ TokenExpires(c) \/ Claim(c) \/ CompleteRedis(c)
             \/ WindowLapses(c)
      PROVE  InSync'
  BY <1>6 DEF GetQueuePosition, TokenExpires, Claim, CompleteRedis, WindowLapses
<1>7. ASSUME NEW c \in Customers, Complete(c) PROVE InSync'
  BY <1>7 DEF Complete, Ledger!UpdateStatus
<1>8. CASE EvictExpired \/ CalculateBatchSize
  BY <1>8 DEF EvictExpired, CalculateBatchSize
<1>9. CASE MarkExpiredBatch
  BY <1>9 DEF MarkExpiredBatch, Ledger!UpdateStatus
<1>10. CASE AdmitNextBatch
  BY <1>10 DEF AdmitNextBatch
<1>11. CASE MarkAdmittedBatch
  BY <1>11 DEF MarkAdmittedBatch, Ledger!UpdateStatus, EntriesOf, Owners
<1>12. CASE NotifyAdmitted \/ GetStaleEntries \/ ReconcileInventory \/ EndEvent
  BY <1>12 DEF NotifyAdmitted, GetStaleEntries, ReconcileInventory, EndEvent
<1>13. CASE RedisWipe
  BY <1>13 DEF RedisWipe
<1>14. CASE CrashRestart
  <2>1. PICK E \in SUBSET Recover :
           /\ waiting' = waiting \cup E
           /\ missing' = (missing \cup {e \in WaitingRows : pc[e] = "zadd" \/ e \in popped}) \ E
    BY <1>14 DEF CrashRestart
  <2>2. row' = row
    BY <1>14 DEF CrashRestart
  <2> QED
    BY <2>1, <2>2
<1>15. CASE UNCHANGED vars
  BY <1>15 DEF vars
<1> QED
  BY <1>1, <1>2, <1>3, <1>4, <1>5, <1>6, <1>7, <1>8, <1>9, <1>10, <1>11, <1>12, <1>13,
     <1>14, <1>15 DEF Next, JoinStep, AdmissionStep

\* An entry that is WAITING in Postgres after its Join is in the sorted set or
\* with the admission worker, unless one of the counted failures dropped it.
THEOREM InSyncCorrect == Spec => []InSync
<1>1. Init => InSync
  BY DEF Init, InSync, WaitingRows
<1> QED
  BY <1>1, InSyncStep, TypeCorrect, PTL DEF Spec

-----------------------------------------------------------------------------
(* Fairness of the queue.                                                   *)

\* ZPOPMIN never leaves a member behind that has a lower score than one it
\* takes.
LEMMA HeadIsFirst ==
  ASSUME TypeOK, NEW e \in Head(room), NEW f \in waiting \ Head(room)
  PROVE  joined[e] < joined[f]
<1> DEFINE Before(g) == {h \in waiting : joined[h] < joined[g]}
<1>1. e \in Entries /\ f \in Entries /\ joined[e] \in Nat /\ joined[f] \in Nat
  BY DEF Head, TypeOK
<1>2. SUFFICES ASSUME joined[f] <= joined[e] PROVE FALSE
  BY <1>1
<1>3. Before(f) \subseteq Before(e)
  <2>1. \A h \in waiting : joined[h] \in Nat
    BY DEF TypeOK
  <2> QED
    BY <1>1, <1>2, <2>1
<1>4. IsFiniteSet(Before(e)) /\ IsFiniteSet(Before(f))
  <2>1. Before(e) \subseteq Entries /\ Before(f) \subseteq Entries
    BY DEF TypeOK
  <2> QED
    BY <2>1, EntriesAssumption, FS_Subset
<1>5. Cardinality(Before(f)) <= Cardinality(Before(e))
  BY <1>3, <1>4, FS_Subset
<1>6. Cardinality(Before(e)) < room /\ ~(Cardinality(Before(f)) < room)
  BY DEF Head
<1>7. Cardinality(Before(e)) \in Nat /\ Cardinality(Before(f)) \in Nat /\ room \in Nat
  BY <1>4, FS_CardinalityType, SizesAssumption DEF TypeOK
<1> QED
  BY <1>5, <1>6, <1>7

\* Across both stores, an admission never passes over an older WAITING entry
\* that Redis has not lost.
THEOREM FirstComeFirstServedCorrect == Spec => FirstComeFirstServed
<1>1. ASSUME TypeOK, InSync, [Next]_vars,
             NEW e \in popped' \ popped, NEW f \in WaitingRows \ (missing \cup popped'),
             pc[f] # "zadd"
      PROVE  joined[e] < joined[f]
  <2> USE DEF pgVars, redisVars, callVars, workerVars
  <2>1. ASSUME NEW g \in Entries,
               \/ JoinCheck(g) \/ JoinInsert(g) \/ JoinRedis(g) \/ Abandon(g)
               \/ ExpireQueueEntry(g) \/ EntryAges(g)
        PROVE  UNCHANGED popped
    BY <2>1 DEF JoinCheck, JoinInsert, JoinRedis, Abandon, ExpireQueueEntry, EntryAges
  <2>2. ASSUME NEW c \in Customers,
               \/ AbandonRedis(c) \/ GetQueuePosition(c) \/ TokenExpires(c) \/ Claim(c)
               \/ Complete(c) \/ CompleteRedis(c) \/ WindowLapses(c)
        PROVE  UNCHANGED popped
    BY <2>2 DEF AbandonRedis, GetQueuePosition, TokenExpires, Claim, Complete,
                CompleteRedis, WindowLapses
  <2>3. ASSUME \/ EvictExpired \/ MarkExpiredBatch \/ CalculateBatchSize
               \/ MarkAdmittedBatch \/ NotifyAdmitted \/ GetStaleEntries
               \/ ReconcileInventory \/ EndEvent \/ RedisWipe \/ CrashRestart
               \/ UNCHANGED vars
        PROVE  popped' \subseteq popped
    BY <2>3 DEF EvictExpired, MarkExpiredBatch, CalculateBatchSize, MarkAdmittedBatch,
                NotifyAdmitted, GetStaleEntries, ReconcileInventory, EndEvent, RedisWipe,
                CrashRestart, vars
  <2>4. AdmitNextBatch
    BY <1>1, <2>1, <2>2, <2>3 DEF Next, JoinStep, AdmissionStep
  <2>5. popped' = Head(room) /\ adm = "admit"
    BY <1>1, <2>4 DEF AdmitNextBatch
  <2>6. f \in waiting
    BY <1>1, <2>5 DEF InSync
  <2> QED
    BY <1>1, <2>5, <2>6, HeadIsFirst
<1>2. ASSUME TypeOK, InSync, [Next]_vars
      PROVE  [\A e \in popped' \ popped, f \in WaitingRows \ (missing \cup popped') :
                 pc[f] # "zadd" => joined[e] < joined[f]]_vars
  BY <1>1, <1>2
<1> QED
  BY <1>2, TypeCorrect, InSyncCorrect, PTL DEF Spec, FirstComeFirstServed
-----------------------------------------------------------------------------
(* Who is lost when nothing fails.                                          *)

\* An UPDATE or INSERT never empties a row and never revives one that is over.
LEMMA RowsLast ==
  ASSUME TypeOK, [Ledger!Next]_row, NEW e \in Entries
  PROVE  /\ row[e] # "NONE" => row'[e] # "NONE"
         /\ row[e] \in Ended => row'[e] \in Ended
<1> USE DEF TypeOK, Ended, Ledger!ActiveStatus
<1>1. ASSUME NEW f \in Entries, Ledger!Create(f)
      PROVE  (row[e] # "NONE" => row'[e] # "NONE") /\ (row[e] \in Ended => row'[e] \in Ended)
  BY <1>1 DEF Ledger!Create
<1>2. ASSUME NEW E \in SUBSET Entries, NEW old1 \in Ledger!ActiveStatus,
             NEW new \in {"ADMITTED", "ABANDONED", "COMPLETED", "EXPIRED"},
             Ledger!UpdateStatus(E, old1, new)
      PROVE  (row[e] # "NONE" => row'[e] # "NONE") /\ (row[e] \in Ended => row'[e] \in Ended)
  BY <1>2 DEF Ledger!UpdateStatus
<1> QED
  BY <1>1, <1>2 DEF Ledger!Next

\* Entries whose Join has ended with a row of their own.
Joined == {e \in Entries : pc[e] = "done" /\ row[e] # "NONE"}

\* What holds until the first fault: a row exists exactly when the INSERT of its
\* Join is over; the members of the sorted sets, the admission worker's list
\* and the lost entries come from Joins that have ended; a customer who is
\* leaving has an abandoned entry.
Faultless ==
    faults = MaxFaults =>
        /\ \A e \in Entries : row[e] # "NONE" <=> pc[e] \in {"zadd", "done"}
        /\ waiting \cup popped \cup missing \subseteq Joined
        /\ admitted \subseteq Owners(Joined)
        /\ \A c \in leaving : \E e \in EntriesOf({c}) : row[e] = "ABANDONED"

\* A step that moves no Join, inserts no row and puts into the two sorted sets,
\* the worker's list and missing only entries whose Join has ended keeps it.
LEMMA QuietStep ==
  ASSUME TypeOK, [Ledger!Next]_row, Faultless, faults = MaxFaults, UNCHANGED pc,
         \A e \in Entries : row'[e] # "NONE" => row[e] # "NONE",
         waiting' \cup popped' \cup missing' \subseteq Joined,
         admitted' \subseteq Owners(Joined), leaving' \subseteq leaving
  PROVE  Faultless'
<1>1. \A e \in Entries : row'[e] # "NONE" <=> row[e] # "NONE"
  BY RowsLast
<1>2. Joined' = Joined
  BY <1>1 DEF Joined
<1>3. Owners(Joined)' = Owners(Joined)
  BY <1>2 DEF Owners
<1>4. \A e \in Entries : row'[e] # "NONE" <=> pc'[e] \in {"zadd", "done"}
  BY <1>1 DEF Faultless
<1>5. \A e \in Entries : row[e] = "ABANDONED" => row'[e] = "ABANDONED"
  BY DEF TypeOK, Ledger!Next, Ledger!Create, Ledger!UpdateStatus, Ledger!ActiveStatus
<1>6. \A c \in leaving' : \E e \in EntriesOf({c}) : row'[e] = "ABANDONED"
  BY <1>5 DEF Faultless, EntriesOf
<1> QED
  BY <1>2, <1>3, <1>4, <1>6 DEF Faultless, EntriesOf

\* A step that adds no WAITING entry to missing keeps LostOnlyByRejoin.
LEMMA NoneLost ==
  ASSUME TypeOK, [Ledger!Next]_row, LostOnlyByRejoin, faults = MaxFaults,
         missing' \cap WaitingRows' \subseteq missing \cap WaitingRows
  PROVE  LostOnlyByRejoin'
<1>1. \A f \in Entries : row[f] \in Ended => row'[f] \in Ended
  BY RowsLast
<1> QED
  BY <1>1 DEF LostOnlyByRejoin, EntriesOf

\* Until the first fault, only a refusal by joinScript and the ZREM of an
\* Abandon lose a WAITING entry, and both need another entry of the customer.
LEMMA RejoinStep ==
  ASSUME TypeOK, OneActive, [Ledger!Next]_row, Faultless, LostOnlyByRejoin, [Next]_vars,
         faults' = MaxFaults
  PROVE  Faultless' /\ LostOnlyByRejoin'
<1>f. ~Fault
  BY SizesAssumption DEF Fault, TypeOK
<1> USE DEF pgVars, redisVars, callVars, workerVars
<1>q. ASSUME UNCHANGED <<faults, pc>>,
             \A e \in Entries : row'[e] # "NONE" => row[e] # "NONE",
             waiting' \cup popped' \subseteq waiting \cup popped, missing' = missing,
             admitted' \subseteq admitted \cup Owners(waiting), leaving' \subseteq leaving,
             \A e \in Entries : row'[e] = "WAITING" => row[e] = "WAITING"
      PROVE  Faultless' /\ LostOnlyByRejoin'
  <2>1. waiting \cup popped \cup missing \subseteq Joined /\ admitted \subseteq Owners(Joined)
    BY <1>q DEF Faultless
  <2>2. Owners(waiting) \subseteq Owners(Joined)
    BY <2>1 DEF Owners
  <2>3. missing' \cap WaitingRows' \subseteq missing \cap WaitingRows
    BY <1>q DEF WaitingRows
  <2> QED
    BY <1>q, <2>1, <2>2, <2>3, QuietStep, NoneLost
<1>w. ASSUME NEW E, NEW expected \in Ledger!ActiveStatus, NEW new \in Ended \cup {"ADMITTED"},
             Ledger!UpdateStatus(E, expected, new)
      PROVE  /\ \A e \in Entries : row'[e] # "NONE" => row[e] # "NONE"
             /\ \A e \in Entries : row'[e] = "WAITING" => row[e] = "WAITING"
  BY <1>w DEF Ledger!UpdateStatus, Ledger!ActiveStatus, Ended
<1>1. ASSUME NEW e \in Entries, JoinCheck(e) PROVE Faultless' /\ LostOnlyByRejoin'
  <2>1. /\ UNCHANGED <<row, waiting, admitted, popped, missing, leaving, faults>>
        /\ pc[e] = "idle" /\ (Goto(e, "insert") \/ Goto(e, "refused"))
    BY <1>1, <1>f DEF JoinCheck
  <2>2. pc[e] # "done" /\ pc'[e] \in {"insert", "refused"}
        /\ \A f \in Entries \ {e} : pc'[f] = pc[f]
    BY <2>1 DEF Goto, TypeOK
  <2>3. Joined' = Joined
    BY <2>1, <2>2 DEF Joined
  <2>4. Faultless'
    BY <2>1, <2>2, <2>3 DEF Faultless, Owners, EntriesOf
  <2>5. LostOnlyByRejoin'
    BY <2>1 DEF LostOnlyByRejoin, WaitingRows, EntriesOf
  <2> QED
    BY <2>4, <2>5
<1>2. ASSUME NEW e \in Entries, JoinInsert(e) PROVE Faultless' /\ LostOnlyByRejoin'
  <2>1. /\ UNCHANGED <<waiting, admitted, popped, missing, leaving, faults>>
        /\ pc[e] = "insert"
        /\ \/ Ledger!Create(e) /\ Goto(e, "zadd")
           \/ Goto(e, "refused") /\ UNCHANGED row
    BY <1>2, <1>f DEF JoinInsert
  <2>2. /\ pc[e] # "done" /\ pc'[e] \in {"zadd", "refused"}
        /\ row'[e] # "NONE" <=> pc'[e] = "zadd"
        /\ \A f \in Entries \ {e} : pc'[f] = pc[f] /\ row'[f] = row[f]
    BY <2>1 DEF Goto, TypeOK, Ledger!Create, Faultless
  <2>3. Joined' = Joined
    BY <2>1, <2>2 DEF Joined
  <2>4. \A f \in Entries : row[f] = "ABANDONED" => row'[f] = "ABANDONED"
    BY <2>1, <2>2 DEF Faultless
  <2>5. Faultless'
    BY <2>1, <2>2, <2>3, <2>4 DEF Faultless, Owners, EntriesOf
  <2>6. e \notin missing
    BY <2>1 DEF Faultless, Joined
  <2>7. missing' \cap WaitingRows' \subseteq missing \cap WaitingRows
    BY <2>1, <2>2, <2>6 DEF WaitingRows
  <2> QED
    BY <2>1, <2>5, <2>7, NoneLost
<1>3. ASSUME NEW e \in Entries, JoinRedis(e) PROVE Faultless' /\ LostOnlyByRejoin'
  <2>1. /\ UNCHANGED <<row, admitted, popped, leaving, faults>>
        /\ pc[e] = "zadd" /\ Goto(e, "done") /\ JoinScript(e)
    BY <1>3, <1>f DEF JoinRedis
  <2>2. pc'[e] = "done" /\ row[e] # "NONE" /\ \A f \in Entries \ {e} : pc'[f] = pc[f]
    BY <2>1 DEF Goto, TypeOK, Faultless
  <2>3. Joined' = Joined \cup {e} /\ e \notin Joined
    BY <2>1, <2>2 DEF Joined
  <2>4. waiting' \cup missing' \subseteq waiting \cup missing \cup {e}
    BY <2>1 DEF JoinScript
  <2>5. Faultless'
    BY <2>1, <2>2, <2>3, <2>4 DEF Faultless, Owners, EntriesOf
  <2>6. CASE missing' = missing
    BY <2>1, <2>5, <2>6, NoneLost DEF WaitingRows
  <2>7. CASE InRedis(Owner[e]) /\ missing' = missing \cup {e}
    <3>1. PICK f \in Joined : Owner[f] = Owner[e]
      BY <2>1, <2>7 DEF InRedis, Faultless, Owners
    <3>2. f # e /\ f \in Entries /\ row[f] # "NONE"
      BY <2>3, <3>1 DEF Joined
    <3>3. row[e] = "WAITING" => row[f] \in Ended
      BY <3>1, <3>2 DEF OneActive, TypeOK, Ended, Ledger!RowStatus, Ledger!ActiveStatus
    <3> QED
      BY <2>1, <2>5, <2>7, <3>1, <3>2, <3>3 DEF LostOnlyByRejoin, WaitingRows, EntriesOf
  <2> QED
    BY <2>1, <2>5, <2>6, <2>7 DEF JoinScript
<1>4. ASSUME NEW e \in Entries, Abandon(e) PROVE Faultless' /\ LostOnlyByRejoin'
  <2>1. /\ UNCHANGED <<waiting, admitted, popped, missing, pc, faults>>
        /\ row[e] = "WAITING" /\ Ledger!UpdateStatus({e}, "WAITING", "ABANDONED")
        /\ leaving' = leaving \cup {Owner[e]}
    BY <1>4, <1>f DEF Abandon
  <2>2. row'[e] = "ABANDONED" /\ \A f \in Entries \ {e} : row'[f] = row[f]
    BY <2>1 DEF Ledger!UpdateStatus
  <2>3. Joined' = Joined
    BY <2>1, <2>2 DEF Joined
  <2>4. Faultless'
    BY <2>1, <2>2, <2>3 DEF Faultless, Owners, EntriesOf
  <2>5. missing' \cap WaitingRows' \subseteq missing \cap WaitingRows
    BY <2>1, <2>2 DEF WaitingRows
  <2> QED
    BY <2>1, <2>4, <2>5, NoneLost
<1>5. ASSUME NEW c \in Customers, AbandonRedis(c) PROVE Faultless' /\ LostOnlyByRejoin'
  <2>1. /\ UNCHANGED <<row, admitted, popped, pc, faults>>
        /\ c \in leaving /\ leaving' = leaving \ {c}
        /\ waiting' = waiting \ EntriesOf({c})
        /\ missing' = missing \cup (waiting \cap EntriesOf({c}) \cap WaitingRows)
    BY <1>5, <1>f DEF AbandonRedis
  <2>2. waiting \cup popped \cup missing \subseteq Joined /\ admitted \subseteq Owners(Joined)
    BY <2>1 DEF Faultless
  <2>3. Faultless'
    BY <2>1, <2>2, QuietStep
  <2>4. PICK f \in EntriesOf({c}) : row[f] = "ABANDONED"
    BY <2>1 DEF Faultless
  <2>5. ASSUME NEW e \in missing' \cap WaitingRows', e \notin missing
        PROVE  \E g \in EntriesOf({Owner[e]}) \ {e} : row'[g] \in Ended
    BY <2>1, <2>4, <2>5 DEF WaitingRows, EntriesOf, Ended
  <2>6. ASSUME NEW e \in missing' \cap WaitingRows', e \in missing
        PROVE  \E g \in EntriesOf({Owner[e]}) \ {e} : row'[g] \in Ended
    BY <2>1, <2>6 DEF WaitingRows, LostOnlyByRejoin
  <2>7. LostOnlyByRejoin'
    BY <2>5, <2>6 DEF LostOnlyByRejoin, EntriesOf
  <2> QED
    BY <2>3, <2>7
<1>6. CASE AdmitNextBatch
  <2>1. Head(room) \subseteq waiting
    BY DEF Head
  <2>2. /\ UNCHANGED <<row, pc, faults, missing, leaving>>
        /\ waiting' = waiting \ Head(room) /\ popped' = Head(room)
        /\ admitted' = admitted \cup Owners(Head(room))
    BY <1>6, <1>f DEF AdmitNextBatch
  <2> QED
    BY <1>q, <2>1, <2>2 DEF Owners
<1>7. ASSUME NEW e \in Entries, ExpireQueueEntry(e) PROVE Faultless' /\ LostOnlyByRejoin'
  <2>1. /\ UNCHANGED <<pc, faults, missing, leaving, waiting, popped, admitted>>
        /\ Ledger!UpdateStatus({e}, stale[e], "EXPIRED") /\ stale[e] \in Ledger!ActiveStatus
    BY <1>7, <1>f DEF ExpireQueueEntry, TypeOK
  <2> QED
    BY <1>q, <1>w, <2>1 DEF Ended
<1>8. ASSUME NEW c \in Customers, Complete(c) PROVE Faultless' /\ LostOnlyByRejoin'
  <2>1. /\ UNCHANGED <<pc, faults, missing, leaving, waiting, popped, admitted>>
        /\ UNCHANGED row \/ Ledger!UpdateStatus(EntriesOf({c}), "ADMITTED", "COMPLETED")
    BY <1>8, <1>f DEF Complete
  <2> QED
    BY <1>q, <1>w, <2>1 DEF Ended, Ledger!ActiveStatus
<1>9. CASE MarkExpiredBatch
  <2>1. /\ UNCHANGED <<pc, faults, missing, leaving, waiting, popped, admitted>>
        /\ Ledger!UpdateStatus(EntriesOf(evicted), "ADMITTED", "EXPIRED")
    BY <1>9, <1>f DEF MarkExpiredBatch
  <2> QED
    BY <1>q, <1>w, <2>1 DEF Ended, Ledger!ActiveStatus
<1>10. CASE MarkAdmittedBatch
  <2>1. /\ UNCHANGED <<pc, faults, missing, leaving, waiting, popped, admitted>>
        /\ Ledger!UpdateStatus(EntriesOf(Owners(popped)), "WAITING", "ADMITTED")
    BY <1>10, <1>f DEF MarkAdmittedBatch
  <2> QED
    BY <1>q, <1>w, <2>1 DEF Ledger!ActiveStatus
<1>11. ASSUME NEW e \in Entries, EntryAges(e) PROVE Faultless' /\ LostOnlyByRejoin'
  BY <1>11, <1>q DEF EntryAges
<1>12. ASSUME NEW c \in Customers,
              \/ GetQueuePosition(c) \/ TokenExpires(c) \/ Claim(c) \/ CompleteRedis(c)
              \/ WindowLapses(c)
       PROVE  Faultless' /\ LostOnlyByRejoin'
  BY <1>12, <1>f, <1>q DEF GetQueuePosition, TokenExpires, Claim, CompleteRedis, WindowLapses
<1>13. CASE EvictExpired \/ CalculateBatchSize \/ NotifyAdmitted \/ GetStaleEntries
  BY <1>13, <1>f, <1>q DEF EvictExpired, CalculateBatchSize, NotifyAdmitted, GetStaleEntries
<1>14. CASE ReconcileInventory \/ EndEvent \/ UNCHANGED vars
  BY <1>14, <1>q DEF ReconcileInventory, EndEvent, vars
<1>15. CASE RedisWipe \/ CrashRestart
  BY <1>15, <1>f DEF RedisWipe, CrashRestart
<1> QED
  BY <1>1, <1>2, <1>3, <1>4, <1>5, <1>6, <1>7, <1>8, <1>9, <1>10, <1>11, <1>12, <1>13,
     <1>14, <1>15 DEF Next, JoinStep, AdmissionStep

\* For any number of customers and joins: before the first failed call, wipe or
\* crash, every customer whose first entry is WAITING is known to Redis; only a
\* customer who joins again after an entry has ended can be lost.
THEOREM LostOnlyByRejoinCorrect == Spec => []LostOnlyByRejoin
<1>1. Init => Faultless /\ LostOnlyByRejoin
  BY DEF Init, Faultless, LostOnlyByRejoin, Joined, Owners
<1>2. /\ TypeOK /\ OneActive /\ [Ledger!Next]_row /\ Faultless /\ LostOnlyByRejoin
      /\ [Next]_vars
      => Faultless' /\ LostOnlyByRejoin'
  <2> SUFFICES ASSUME TypeOK, OneActive, [Ledger!Next]_row, Faultless, LostOnlyByRejoin,
                      [Next]_vars
               PROVE  Faultless' /\ LostOnlyByRejoin'
    OBVIOUS
  <2>1. CASE faults' = MaxFaults
    BY <2>1, RejoinStep
  <2>2. CASE faults' # MaxFaults
    BY <2>2 DEF Faultless, LostOnlyByRejoin
  <2> QED
    BY <2>1, <2>2
<1> QED
  BY <1>1, <1>2, TypeCorrect, OneActiveCorrect, ImplementsLedger, PTL
     DEF Spec, LedgerSpec, Ledger!Spec
=============================================================================
