------------------------- MODULE TicketClaimsProofs -------------------------
(***************************************************************************)
(* Proofs about TicketClaims, for every number of requests, customers,     *)
(* tickets and faults.                                                     *)
(***************************************************************************)
EXTENDS TicketClaims, FiniteSetTheorems, TLAPS

\* The count that every recount writes is an integer.
LEMMA PgCountType == ASSUME TypeOK PROVE PgCount \in Int
<1>1. {r \in Requests : claim[r] = "CLAIMED"} \subseteq Requests
  OBVIOUS
<1>2. IsFiniteSet({r \in Requests : claim[r] = "CLAIMED"})
  BY <1>1, RequestsAssumption, FS_Subset
<1>3. CountActive \in Nat
  BY <1>2, FS_CardinalityType DEF CountActive
<1> QED
  BY <1>3, TotalAssumption DEF PgCount

\* Every variable stays in its set (TypeOK), whatever Redis, Postgres, the
\* workers and the crashes do.
LEMMA TypeStep == TypeOK /\ [Next]_vars => TypeOK'
<1> SUFFICES ASSUME TypeOK, [Next]_vars PROVE TypeOK'
  OBVIOUS
<1> USE DEF TypeOK, Labels, Actors, Causes, EventStatus, Ledger!ClaimStatus,
            pgVars, redisVars, reqVars, creditVars, recVars, envVars, histVars
<1>a. PgCount \in Int
  BY PgCountType
<1>f. ASSUME Fault PROVE faults' \in 0..MaxFaults
  BY <1>f, FaultsAssumption DEF Fault
<1>i. \A c \in Int \cup {NoKey} : Incr(c) \in Int
  BY NoKeyAssumption DEF Incr
<1>1. ASSUME NEW r \in Requests, EnsureNotClaimed(r) PROVE TypeOK'
  BY <1>1, <1>f DEF EnsureNotClaimed, At, Goto
<1>2. ASSUME NEW r \in Requests, Acquire(r) PROVE TypeOK'
  BY <1>2, <1>f, OwnerAssumption DEF Acquire, At, Goto
<1>3. ASSUME NEW r \in Requests, AttemptDecrement(r) PROVE TypeOK'
  BY <1>3, <1>f DEF AttemptDecrement, TakeTicket, SoldOut, DecrementFails, At, Goto
<1>4. ASSUME NEW r \in Requests, CountFromPostgres(r) PROVE TypeOK'
  BY <1>4, <1>f, <1>a DEF CountFromPostgres, At, Goto
<1>5. ASSUME NEW r \in Requests, FallbackSync(r) PROVE TypeOK'
  BY <1>5, <1>f DEF FallbackSync, Record, At, Goto
<1>6. ASSUME NEW r \in Requests, RetryDecrement(r) PROVE TypeOK'
  BY <1>6, <1>f DEF RetryDecrement, TakeTicket, SoldOut, DecrementFails, Record, At, Goto
<1>7. ASSUME NEW r \in Requests, Unlock(r) PROVE TypeOK'
  BY <1>7, <1>f DEF Unlock, At, Goto
<1>8. ASSUME NEW r \in Requests, CreateClaim(r) PROVE TypeOK'
  BY <1>8, <1>f DEF CreateClaim, Ledger!Create, Record, At, Goto
<1>9. ASSUME NEW r \in Requests, Rollback(r) PROVE TypeOK'
  BY <1>9, <1>f, <1>i DEF Rollback, At, Goto
<1>10. ASSUME NEW r \in Requests, MarkEventSoldOut(r) PROVE TypeOK'
  BY <1>10, <1>f DEF MarkEventSoldOut, At, Goto
<1>11. ASSUME NEW r \in Requests, ReleaseCheck(r) PROVE TypeOK'
  BY <1>11 DEF ReleaseCheck
<1>12. ASSUME NEW r \in Requests, ReleaseUpdate(r) PROVE TypeOK'
  BY <1>12, <1>f DEF ReleaseUpdate, ReleaseRow, Ledger!UpdateStatus
<1>13. ASSUME NEW r \in Requests, RestoreInventory(r) PROVE TypeOK'
  BY <1>13, <1>f, <1>i DEF RestoreInventory
<1>14. ASSUME NEW r \in Requests, ConfirmFlow(r) PROVE TypeOK'
  BY <1>14 DEF ConfirmFlow, Ledger!UpdateStatus
<1>15. ASSUME NEW r \in Requests, FailureFlow(r) PROVE TypeOK'
  BY <1>15 DEF FailureFlow, Ledger!UpdateStatus
<1>16. ASSUME NEW r \in Requests, RepeatedCredit(r) PROVE TypeOK'
  BY <1>16, <1>f, <1>i DEF RepeatedCredit, Record
<1>17. ASSUME NEW r \in Requests, ExpiryRelease(r) PROVE TypeOK'
  BY <1>17, <1>f DEF ExpiryRelease, ReleaseRow, Ledger!UpdateStatus
<1>18. ASSUME NEW r \in Requests, ClaimAges(r) PROVE TypeOK'
  BY <1>18 DEF ClaimAges
<1>v. ASSUME NEW S, LocksVanish(S) PROVE lock' \subseteq Customers /\ lapses' \in [Customers -> Nat]
  BY <1>v DEF LocksVanish
<1>19. ASSUME NEW c \in Customers, LockExpires(c) PROVE TypeOK'
  BY <1>19, <1>v DEF LockExpires
<1>20. CASE ExpiryFetch
  BY <1>20 DEF ExpiryFetch
<1>21. CASE ReconcileFetch
  BY <1>21 DEF ReconcileFetch
<1>22. CASE ReconcileCount
  BY <1>22, <1>f, <1>a DEF ReconcileCount
<1>23. CASE ReconcileRead
  BY <1>23, <1>f DEF ReconcileRead
<1>24. CASE ReconcileSync
  BY <1>24, <1>f DEF ReconcileSync, Record
<1>25. CASE EndEvent
  BY <1>25 DEF EndEvent
<1>26. CASE RedisWipe
  BY <1>26, <1>f, <1>v DEF RedisWipe
<1>27. CASE Crash
  <2>1. pc' \in [Requests -> Labels]
    BY <1>27 DEF Crash
  <2>2. count' \in [Requests -> Int]
    BY <1>27 DEF Crash
  <2>3. credit' \in [Requests -> Actors]
    BY <1>27 DEF Crash
  <2>4. up' \in BOOLEAN
    BY <1>27, Zenon DEF Crash
  <2>5. /\ owns' = {} /\ last' = {} /\ releasing' = {} /\ batch' = {}
        /\ rec' = "idle" /\ recCount' = 0
        /\ Fault
        /\ UNCHANGED <<pgVars, redisVars, histVars>>
    BY <1>27 DEF Crash
  <2> QED
    BY <2>1, <2>2, <2>3, <2>4, <2>5, <1>f
<1>28. CASE Restart
  BY <1>28, <1>f, <1>a DEF Restart, Record
<1>29. CASE UNCHANGED vars
  BY <1>29 DEF vars
<1> QED
  BY <1>1, <1>2, <1>3, <1>4, <1>5, <1>6, <1>7, <1>8, <1>9, <1>10, <1>11, <1>12,
     <1>13, <1>14, <1>15, <1>16, <1>17, <1>18, <1>19, <1>20, <1>21, <1>22, <1>23,
     <1>24, <1>25, <1>26, <1>27, <1>28, <1>29 DEF Next, ClaimStep

\* TypeOK is an invariant of the claim service, for every number of calls,
\* customers, tickets and faults.
THEOREM TypeCorrect == Spec => []TypeOK
<1>1. Init => TypeOK
  BY FaultsAssumption, TotalAssumption DEF Init, TypeOK, Labels, Actors, Causes, EventStatus, Ledger!ClaimStatus
<1>2. TypeOK /\ [Next]_vars => TypeOK'
  BY TypeStep
<1> QED
  BY <1>1, <1>2, PTL DEF Spec

-----------------------------------------------------------------------------
(* How the goroutines and the table fit together.                           *)

\* A step of a call, of a worker or a crash keeps ControlOK: the UPDATE that
\* releases a row is what makes its INCR owed, and a crash forgets both.
LEMMA ControlStep == TypeOK /\ ControlOK /\ [Next]_vars => ControlOK'
<1> SUFFICES ASSUME TypeOK, ControlOK, [Next]_vars PROVE ControlOK'
  OBVIOUS
<1> USE DEF TypeOK, ControlOK, Labels, Section, Final, Actors, Ledger!ClaimStatus,
            pgVars, redisVars, reqVars, creditVars, recVars, envVars, histVars
<1>1. ASSUME NEW r \in Requests, EnsureNotClaimed(r) PROVE ControlOK'
  BY <1>1 DEF EnsureNotClaimed, At, Goto
<1>2. ASSUME NEW r \in Requests, Acquire(r) PROVE ControlOK'
  BY <1>2 DEF Acquire, At, Goto
<1>3. ASSUME NEW r \in Requests, AttemptDecrement(r) PROVE ControlOK'
  BY <1>3 DEF AttemptDecrement, TakeTicket, SoldOut, DecrementFails, At, Goto
<1>4. ASSUME NEW r \in Requests, CountFromPostgres(r) PROVE ControlOK'
  BY <1>4 DEF CountFromPostgres, At, Goto
<1>5. ASSUME NEW r \in Requests, FallbackSync(r) PROVE ControlOK'
  BY <1>5 DEF FallbackSync, At, Goto
<1>6. ASSUME NEW r \in Requests, RetryDecrement(r) PROVE ControlOK'
  BY <1>6 DEF RetryDecrement, TakeTicket, SoldOut, DecrementFails, At, Goto
<1>7. ASSUME NEW r \in Requests, Unlock(r) PROVE ControlOK'
  BY <1>7 DEF Unlock, At, Goto
<1>8. ASSUME NEW r \in Requests, CreateClaim(r) PROVE ControlOK'
  BY <1>8 DEF CreateClaim, Ledger!Create, At, Goto
<1>9. ASSUME NEW r \in Requests, Rollback(r) PROVE ControlOK'
  BY <1>9 DEF Rollback, At, Goto
<1>10. ASSUME NEW r \in Requests, MarkEventSoldOut(r) PROVE ControlOK'
  BY <1>10 DEF MarkEventSoldOut, At, Goto
<1>11. ASSUME NEW r \in Requests, ReleaseCheck(r) PROVE ControlOK'
  BY <1>11 DEF ReleaseCheck, At
<1>12. ASSUME NEW r \in Requests, ReleaseUpdate(r) PROVE ControlOK'
  BY <1>12 DEF ReleaseUpdate, ReleaseRow, Ledger!UpdateStatus
<1>13. ASSUME NEW r \in Requests, RestoreInventory(r) PROVE ControlOK'
  BY <1>13 DEF RestoreInventory
<1>14. ASSUME NEW r \in Requests, ConfirmFlow(r) PROVE ControlOK'
  BY <1>14 DEF ConfirmFlow, At, Ledger!UpdateStatus
<1>15. ASSUME NEW r \in Requests, FailureFlow(r) PROVE ControlOK'
  BY <1>15 DEF FailureFlow, At, Ledger!UpdateStatus
<1>16. ASSUME NEW r \in Requests, RepeatedCredit(r) PROVE ControlOK'
  BY <1>16 DEF RepeatedCredit
<1>17. ASSUME NEW r \in Requests, ExpiryRelease(r) PROVE ControlOK'
  BY <1>17 DEF ExpiryRelease, ReleaseRow, Ledger!UpdateStatus
<1>18. ASSUME NEW r \in Requests, ClaimAges(r) PROVE ControlOK'
  BY <1>18 DEF ClaimAges
<1>19. ASSUME NEW c \in Customers, LockExpires(c) PROVE ControlOK'
  BY <1>19 DEF LockExpires
<1>20. CASE ExpiryFetch
  BY <1>20 DEF ExpiryFetch
<1>21. CASE ReconcileFetch
  BY <1>21 DEF ReconcileFetch
<1>22. CASE ReconcileCount
  BY <1>22 DEF ReconcileCount
<1>23. CASE ReconcileRead
  BY <1>23 DEF ReconcileRead
<1>24. CASE ReconcileSync
  BY <1>24 DEF ReconcileSync
<1>25. CASE EndEvent
  BY <1>25 DEF EndEvent
<1>26. CASE RedisWipe
  BY <1>26 DEF RedisWipe
<1>27. CASE Crash
  BY <1>27 DEF Crash
<1>28. CASE Restart
  BY <1>28 DEF Restart
<1>29. CASE UNCHANGED vars
  BY <1>29 DEF vars
<1> QED
  BY <1>1, <1>2, <1>3, <1>4, <1>5, <1>6, <1>7, <1>8, <1>9, <1>10, <1>11, <1>12,
     <1>13, <1>14, <1>15, <1>16, <1>17, <1>18, <1>19, <1>20, <1>21, <1>22, <1>23,
     <1>24, <1>25, <1>26, <1>27, <1>28, <1>29 DEF Next, ClaimStep

\* ControlOK is an invariant: credits are owed for released rows only, rows
\* exist only behind their INSERT, and a crash leaves nothing in memory.
THEOREM ControlCorrect == Spec => []ControlOK
<1>1. Init => ControlOK
  BY DEF Init, ControlOK
<1>2. TypeOK /\ ControlOK /\ [Next]_vars => ControlOK'
  BY ControlStep
<1> QED
  BY <1>1, <1>2, TypeCorrect, PTL DEF Spec

-----------------------------------------------------------------------------
(* Sets of calls and their sizes.                                           *)

\* Any set of calls is finite, so the tickets it stands for can be counted.
LEMMA SetsFinite ==
  ASSUME NEW S, S \subseteq Requests
  PROVE  IsFiniteSet(S) /\ Cardinality(S) \in Nat
BY RequestsAssumption, FS_Subset, FS_CardinalityType

\* A call that joins a set of calls adds one to its size.
LEMMA AddOne ==
  ASSUME NEW S, S \subseteq Requests, NEW T, NEW r, r \notin S, T = S \cup {r}
  PROVE  Cardinality(T) = Cardinality(S) + 1
<1>1. IsFiniteSet(S)
  BY SetsFinite
<1> QED
  BY <1>1, FS_AddElement

\* A call that leaves a set of calls takes one from its size.
LEMMA RemoveOne ==
  ASSUME NEW S, S \subseteq Requests, NEW T, NEW r, r \in S, T = S \ {r}
  PROVE  Cardinality(T) = Cardinality(S) - 1
<1>1. IsFiniteSet(S)
  BY SetsFinite
<1> QED
  BY <1>1, FS_RemoveElement

-----------------------------------------------------------------------------
(* The lock of decrementInventory.                                          *)

\* The calls of a customer that hold the lock can be counted.
LEMMA HeldByType ==
  ASSUME TypeOK, NEW c \in Customers
  PROVE  HeldBy(c) \subseteq Requests /\ Cardinality(HeldBy(c)) \in Nat
<1>1. HeldBy(c) \subseteq Requests
  BY DEF HeldBy, TypeOK
<1> QED
  BY <1>1, SetsFinite

\* SET NX adds a holder where no key is; a DEL takes the key away together with
\* a holder, its own or the next one's; the TTL and a wipe take the key from
\* under a holder and are counted: LockBalance is kept.
LEMMA LockStep == TypeOK /\ LockBalance /\ [Next]_vars => LockBalance'
<1> SUFFICES ASSUME TypeOK, LockBalance, [Next]_vars PROVE LockBalance'
  OBVIOUS
<1> DEFINE Key(c) == IF c \in lock THEN 1 ELSE 0
<1>b. \A c \in Customers : /\ Cardinality(HeldBy(c)) \in Nat /\ lapses[c] \in Nat
                           /\ HeldBy(c) \subseteq Requests
                           /\ Cardinality(HeldBy(c)) <= lapses[c] + Key(c)
  BY HeldByType DEF LockBalance, TypeOK
<1>c. SUFFICES ASSUME NEW c \in Customers
               PROVE  Cardinality(HeldBy(c)') <= lapses'[c] + Key(c)'
  BY DEF LockBalance
<1> DEFINE Goal == Cardinality(HeldBy(c)') <= lapses'[c] + Key(c)'
<1>d. /\ Cardinality(HeldBy(c)) \in Nat /\ lapses[c] \in Nat
      /\ HeldBy(c) \subseteq Requests
      /\ Cardinality(HeldBy(c)) <= lapses[c] + Key(c)
  BY <1>b
<1>k. ASSUME HeldBy(c)' = HeldBy(c), lapses' = lapses, c \in lock => c \in lock' PROVE Goal
  BY <1>k, <1>d
<1>1. ASSUME NEW r \in Requests, Acquire(r) PROVE Goal
  <2>1. lapses' = lapses
    BY <1>1 DEF Acquire, histVars
  <2>2. CASE owns' = owns
    <3>1. lock \subseteq lock'
      BY <1>1, <2>2 DEF Acquire
    <3> QED
      BY <2>1, <2>2, <3>1, <1>k DEF HeldBy
  <2>3. CASE owns' = owns \cup {r} /\ lock' = lock \cup {Owner[r]} /\ Owner[r] \notin lock
    <3>1. CASE Owner[r] = c
      <4>1. HeldBy(c)' = HeldBy(c) \cup {r}
        BY <2>3, <3>1 DEF HeldBy
      <4>2. Cardinality(HeldBy(c)') <= Cardinality(HeldBy(c)) + 1
        BY <4>1, <1>d, SetsFinite, FS_AddElement
      <4>3. Key(c) = 0 /\ Key(c)' = 1
        BY <2>3, <3>1
      <4>4. HeldBy(c)' \subseteq Requests
        BY <4>1, <1>d
      <4>5. Cardinality(HeldBy(c)') \in Nat
        BY <4>4, SetsFinite
      <4> HIDE DEF Key
      <4> QED
        BY <4>2, <4>3, <4>5, <2>1, <1>d
    <3>2. CASE Owner[r] # c
      <4>1. HeldBy(c)' = HeldBy(c)
        BY <2>3, <3>2 DEF HeldBy
      <4> QED
        BY <4>1, <2>1, <2>3, <1>k
    <3> QED
      BY <3>1, <3>2
  <2> QED
    BY <1>1, <2>2, <2>3 DEF Acquire
<1>2. ASSUME NEW r \in Requests, Unlock(r) PROVE Goal
  <2>1. lapses' = lapses /\ owns' = owns \ {r}
    BY <1>2 DEF Unlock, histVars
  <2>2. CASE r \in owns /\ Owner[r] = c
    <3>1. HeldBy(c)' = HeldBy(c) \ {r} /\ r \in HeldBy(c)
      BY <2>1, <2>2 DEF HeldBy
    <3>2. Cardinality(HeldBy(c)') = Cardinality(HeldBy(c)) - 1
      BY <3>1, <1>d, RemoveOne
    <3> QED
      BY <3>2, <2>1, <1>d
  <2>3. CASE ~(r \in owns /\ Owner[r] = c)
    <3>1. HeldBy(c)' = HeldBy(c)
      BY <2>1, <2>3 DEF HeldBy
    <3>2. c \in lock => c \in lock'
      BY <1>2, <2>3 DEF Unlock
    <3> QED
      BY <3>1, <3>2, <2>1, <1>k
  <2> QED
    BY <2>2, <2>3
<1>3. ASSUME NEW S, LocksVanish(S), UNCHANGED owns, S \subseteq lock PROVE Goal
  <2>1. HeldBy(c)' = HeldBy(c)
    BY <1>3 DEF HeldBy
  <2>2. lapses'[c] = lapses[c] + (IF c \in S /\ HeldBy(c) # {} THEN 1 ELSE 0)
    BY <1>3 DEF LocksVanish
  <2>3. CASE HeldBy(c) = {}
    <3>1. Cardinality(HeldBy(c)) = 0
      BY <2>3, FS_EmptySet
    <3> QED
      BY <3>1, <2>1, <2>2, <1>d
  <2>4. CASE HeldBy(c) # {} /\ c \in S
    BY <2>1, <2>2, <2>4, <1>d
  <2>5. CASE c \notin S
    <3>1. c \in lock => c \in lock'
      BY <1>3, <2>5 DEF LocksVanish
    <3> QED
      BY <3>1, <2>1, <2>2, <2>5, <1>d
  <2> QED
    BY <2>3, <2>4, <2>5
<1>4. ASSUME NEW d \in Customers, LockExpires(d) PROVE Goal
  BY <1>4, <1>3 DEF LockExpires, reqVars
<1>5. CASE RedisWipe
  BY <1>5, <1>3 DEF RedisWipe, reqVars
<1>6. CASE Crash
  <2>1. HeldBy(c)' = {} /\ lapses' = lapses
    BY <1>6 DEF Crash, HeldBy, histVars
  <2> QED
    BY <2>1, FS_EmptySet, <1>d
<1>7. ASSUME UNCHANGED <<lock, owns, lapses>> PROVE Goal
  BY <1>7, <1>k DEF HeldBy
<1> USE DEF pgVars, redisVars, reqVars, creditVars, recVars, envVars, histVars
<1>8. ASSUME NEW r \in Requests,
             \/ EnsureNotClaimed(r) \/ AttemptDecrement(r) \/ CountFromPostgres(r)
             \/ FallbackSync(r) \/ RetryDecrement(r) \/ CreateClaim(r)
             \/ Rollback(r) \/ MarkEventSoldOut(r)
      PROVE  UNCHANGED <<lock, owns, lapses>>
  BY <1>8 DEF EnsureNotClaimed, AttemptDecrement, CountFromPostgres, FallbackSync,
              RetryDecrement, CreateClaim, Rollback, MarkEventSoldOut
<1>9. ASSUME NEW r \in Requests,
             \/ ReleaseCheck(r) \/ ReleaseUpdate(r) \/ RestoreInventory(r)
             \/ ConfirmFlow(r) \/ FailureFlow(r) \/ RepeatedCredit(r)
             \/ ExpiryRelease(r) \/ ClaimAges(r)
      PROVE  UNCHANGED <<lock, owns, lapses>>
  BY <1>9 DEF ReleaseCheck, ReleaseUpdate, RestoreInventory, ConfirmFlow, FailureFlow,
              RepeatedCredit, ExpiryRelease, ClaimAges
<1>10. CASE \/ ExpiryFetch \/ ReconcileFetch \/ ReconcileCount \/ ReconcileRead
            \/ ReconcileSync \/ EndEvent \/ Restart \/ UNCHANGED vars
  <2>1. UNCHANGED <<lock, owns, lapses>>
    BY <1>10 DEF ExpiryFetch, ReconcileFetch, ReconcileCount, ReconcileRead,
                 ReconcileSync, EndEvent, Restart, vars
  <2> QED
    BY <2>1, <1>7
<1> QED
  BY <1>1, <1>2, <1>4, <1>5, <1>6, <1>7, <1>8, <1>9, <1>10 DEF Next, ClaimStep

\* For any number of concurrent calls, a customer has at most one lock holder
\* more than the lock has lapsed under one: the DEL that does not look at the
\* owner moves the excess on to another call and never adds to it.
THEOREM LockCorrect == Spec => []LockHolders
<1>1. Init => LockBalance
  <2> SUFFICES ASSUME Init, NEW c \in Customers
               PROVE  Cardinality(HeldBy(c)) <= lapses[c] + (IF c \in lock THEN 1 ELSE 0)
    BY DEF LockBalance
  <2>1. HeldBy(c) = {}
    BY DEF Init, HeldBy
  <2> QED
    BY <2>1, FS_EmptySet DEF Init
<1>2. TypeOK /\ LockBalance /\ [Next]_vars => LockBalance'
  BY LockStep
<1>3. TypeOK /\ LockBalance => LockHolders
  <2> SUFFICES ASSUME TypeOK, LockBalance, NEW c \in Customers
               PROVE  Cardinality(HeldBy(c)) <= 1 + lapses[c]
    BY DEF LockHolders
  <2>1. Cardinality(HeldBy(c)) \in Nat /\ lapses[c] \in Nat
    BY HeldByType DEF TypeOK
  <2> QED
    BY <2>1 DEF LockBalance
<1> QED
  BY <1>1, <1>2, <1>3, TypeCorrect, PTL DEF Spec

-----------------------------------------------------------------------------
(* The claims table is used as ClaimLedger allows.                          *)

\* TicketClaims implements ClaimLedger: initial states are initial states of
\* the ledger, and every step inserts a row, moves one out of CLAIMED, or
\* leaves the table alone.
THEOREM ImplementsLedger == Spec => LedgerSpec
<1>1. Init => Ledger!Init
  BY DEF Init, Ledger!Init
<1>2. ASSUME [Next]_vars PROVE [Ledger!Next]_claim
  <2> USE DEF pgVars, redisVars, reqVars, creditVars, recVars, envVars, histVars
  <2>1. ASSUME NEW r \in Requests, CreateClaim(r) PROVE [Ledger!Next]_claim
    BY <2>1 DEF CreateClaim, Ledger!Next
  <2>2. ASSUME NEW r \in Requests, ReleaseUpdate(r) \/ ExpiryRelease(r)
        PROVE  [Ledger!Next]_claim
    BY <2>2 DEF ReleaseUpdate, ExpiryRelease, ReleaseRow, Ledger!Next
  <2>3. ASSUME NEW r \in Requests, ConfirmFlow(r) \/ FailureFlow(r)
        PROVE  [Ledger!Next]_claim
    BY <2>3 DEF ConfirmFlow, FailureFlow, Ledger!Next
  <2>4. ASSUME NEW r \in Requests,
               \/ EnsureNotClaimed(r) \/ Acquire(r) \/ AttemptDecrement(r)
               \/ CountFromPostgres(r) \/ FallbackSync(r) \/ RetryDecrement(r)
               \/ Unlock(r) \/ Rollback(r) \/ MarkEventSoldOut(r)
        PROVE  UNCHANGED claim
    BY <2>4 DEF EnsureNotClaimed, Acquire, AttemptDecrement, CountFromPostgres,
                FallbackSync, RetryDecrement, Unlock, Rollback, MarkEventSoldOut
  <2>5. ASSUME NEW r \in Requests,
               \/ ReleaseCheck(r) \/ RestoreInventory(r) \/ RepeatedCredit(r)
               \/ ClaimAges(r)
        PROVE  UNCHANGED claim
    BY <2>5 DEF ReleaseCheck, RestoreInventory, RepeatedCredit, ClaimAges
  <2>6. ASSUME \/ \E c \in Customers : LockExpires(c)
               \/ ExpiryFetch \/ ReconcileFetch \/ ReconcileCount \/ ReconcileRead
               \/ ReconcileSync \/ EndEvent \/ RedisWipe \/ Crash \/ Restart
               \/ UNCHANGED vars
        PROVE  UNCHANGED claim
    BY <2>6 DEF LockExpires, ExpiryFetch, ReconcileFetch, ReconcileCount, ReconcileRead,
                ReconcileSync, EndEvent, RedisWipe, Crash, Restart, vars
  <2> QED
    BY <1>2, <2>1, <2>2, <2>3, <2>4, <2>5, <2>6 DEF Next, ClaimStep
<1> QED
  BY <1>1, <1>2, PTL DEF Spec, LedgerSpec, Ledger!Spec

-----------------------------------------------------------------------------
(* The balance of the counter.  First, what one change of pc, of a row or   *)
(* of a credit does to the three sets that Free counts.                     *)

ReservedLabels == {"unlock", "insert", "rollback"}

\* A call takes a ticket out of the counter, keeps it, or gives it up.
LEMMA ReservedStep ==
  ASSUME TypeOK, NEW r \in Requests, NEW label \in Labels, Goto(r, label)
  PROVE  /\ pc[r] \notin ReservedLabels /\ label \notin ReservedLabels => Reserved' = Reserved
         /\ pc[r] \in ReservedLabels /\ label \in ReservedLabels => Reserved' = Reserved
         /\ pc[r] \notin ReservedLabels /\ label \in ReservedLabels
              => Cardinality(Reserved') = Cardinality(Reserved) + 1
         /\ pc[r] \in ReservedLabels /\ label \notin ReservedLabels
              => Cardinality(Reserved') = Cardinality(Reserved) - 1
<1> USE DEF TypeOK, Goto, Reserved, ReservedLabels
<1>1. CASE pc[r] \notin ReservedLabels /\ label \notin ReservedLabels
  BY <1>1
<1>2. CASE pc[r] \in ReservedLabels /\ label \in ReservedLabels
  BY <1>2
<1>3. CASE pc[r] \notin ReservedLabels /\ label \in ReservedLabels
  <2>1. Reserved' = Reserved \cup {r} /\ r \notin Reserved /\ Reserved \subseteq Requests
    BY <1>3
  <2>2. Cardinality(Reserved') = Cardinality(Reserved) + 1
    BY <2>1, AddOne
  <2> QED
    BY <1>3, <2>2
<1>4. CASE pc[r] \in ReservedLabels /\ label \notin ReservedLabels
  <2>1. Reserved' = Reserved \ {r} /\ r \in Reserved /\ Reserved \subseteq Requests
    BY <1>4
  <2>2. Cardinality(Reserved') = Cardinality(Reserved) - 1
    BY <2>1, RemoveOne
  <2> QED
    BY <1>4, <2>2
<1> QED
  BY <1>1, <1>2, <1>3, <1>4

\* The INSERT makes a row held, the release ends that, the confirmation does not.
LEMMA HeldStep ==
  ASSUME TypeOK, NEW r \in Requests
  PROVE  /\ Ledger!Create(r) => Cardinality(Held') = Cardinality(Held) + 1
         /\ Ledger!UpdateStatus(r, "RELEASED") => Cardinality(Held') = Cardinality(Held) - 1
         /\ Ledger!UpdateStatus(r, "CONFIRMED") => Held' = Held
<1> USE DEF TypeOK, Held
<1>1. ASSUME Ledger!Create(r) PROVE Cardinality(Held') = Cardinality(Held) + 1
  <2>1. Held' = Held \cup {r} /\ r \notin Held /\ Held \subseteq Requests
    BY <1>1 DEF Ledger!Create
  <2> QED
    BY <2>1, AddOne
<1>2. ASSUME Ledger!UpdateStatus(r, "RELEASED")
      PROVE  Cardinality(Held') = Cardinality(Held) - 1
  <2>1. Held' = Held \ {r} /\ r \in Held /\ Held \subseteq Requests
    BY <1>2 DEF Ledger!UpdateStatus
  <2> QED
    BY <2>1, RemoveOne
<1>3. ASSUME Ledger!UpdateStatus(r, "CONFIRMED") PROVE Held' = Held
  BY <1>3 DEF Ledger!UpdateStatus
<1> QED
  BY <1>1, <1>2, <1>3

\* A release owes one INCR, and paying it ends the debt.
LEMMA OwedStep ==
  ASSUME TypeOK, NEW r \in Requests, NEW who \in Actors,
         credit' = [credit EXCEPT ![r] = who]
  PROVE  /\ credit[r] = "none" /\ who # "none" => Cardinality(Owed') = Cardinality(Owed) + 1
         /\ credit[r] # "none" /\ who = "none" => Cardinality(Owed') = Cardinality(Owed) - 1
<1> USE DEF TypeOK, Owed
<1>1. ASSUME credit[r] = "none", who # "none"
      PROVE  Cardinality(Owed') = Cardinality(Owed) + 1
  <2>1. Owed' = Owed \cup {r} /\ r \notin Owed /\ Owed \subseteq Requests
    BY <1>1
  <2> QED
    BY <2>1, AddOne
<1>2. ASSUME credit[r] # "none", who = "none"
      PROVE  Cardinality(Owed') = Cardinality(Owed) - 1
  <2>1. Owed' = Owed \ {r} /\ r \in Owed /\ Owed \subseteq Requests
    BY <1>2
  <2> QED
    BY <2>1, RemoveOne
<1> QED
  BY <1>1, <1>2

\* The number of free tickets is an integer, and the three counts it is made
\* of are natural numbers.
LEMMA FreeType ==
  /\ Free \in Int
  /\ Cardinality(Held) \in Nat /\ Cardinality(Reserved) \in Nat /\ Cardinality(Owed) \in Nat
<1>1. Held \subseteq Requests /\ Reserved \subseteq Requests /\ Owed \subseteq Requests
  BY DEF Held, Reserved, Owed
<1>2. Cardinality(Held) \in Nat /\ Cardinality(Reserved) \in Nat /\ Cardinality(Owed) \in Nat
  BY <1>1, SetsFinite
<1> QED
  BY <1>2, TotalAssumption DEF Free

\* The balance survives every step that Record does not watch; a step that it
\* watches either keeps the balance or sets inflation.
LEMMA SoundStep ==
  TypeOK /\ ControlOK /\ SoundUnlessInflated /\ [Next]_vars => SoundUnlessInflated'
<1> SUFFICES ASSUME TypeOK, ControlOK, SoundUnlessInflated, [Next]_vars, inflation' = "none"
             PROVE  CounterSound'
  BY DEF SoundUnlessInflated
<1> USE FreeType, TotalAssumption, NoKeyAssumption
<1>r. ASSUME NEW cause, cause # "none", Record(cause) PROVE CounterSound'
  BY <1>r DEF Record
<1>u. ASSUME UNCHANGED inflation PROVE CounterSound
  BY <1>u DEF SoundUnlessInflated
<1>s. ASSUME CounterSound, Held' = Held, Reserved' = Reserved, Owed' = Owed,
             UNCHANGED counter
      PROVE  CounterSound'
  BY <1>s DEF CounterSound, Free
<1>h. ASSUME UNCHANGED claim PROVE Held' = Held
  BY <1>h DEF Held
<1>v. ASSUME UNCHANGED pc PROVE Reserved' = Reserved
  BY <1>v DEF Reserved
<1>o. ASSUME UNCHANGED credit PROVE Owed' = Owed
  BY <1>o DEF Owed
<1> USE DEF pgVars, redisVars, reqVars, creditVars, recVars, envVars, histVars
<1>take. ASSUME NEW r \in Requests, TakeTicket(r), pc[r] \in {"decrement", "retry"},
                UNCHANGED <<claim, credit, inflation>>
         PROVE  CounterSound'
  <2>1. Cardinality(Reserved') = Cardinality(Reserved) + 1
    BY <1>take, ReservedStep DEF TakeTicket, Labels, ReservedLabels
  <2>2. Held' = Held /\ Owed' = Owed
    BY <1>take, <1>h, <1>o
  <2>3. counter # NoKey /\ counter \in Int /\ counter > 0 /\ counter' = counter - 1
    BY <1>take DEF TakeTicket, TypeOK
  <2> QED
    BY <2>1, <2>2, <2>3, <1>take, <1>u DEF CounterSound, Free
<1>fail. ASSUME NEW r \in Requests, SoldOut(r) \/ DecrementFails(r),
                pc[r] \in {"decrement", "retry"}, UNCHANGED <<claim, credit, inflation>>
         PROVE  CounterSound'
  <2>1. Reserved' = Reserved
    BY <1>fail, ReservedStep DEF SoldOut, DecrementFails, Labels, ReservedLabels
  <2>2. Held' = Held /\ Owed' = Owed
    BY <1>fail, <1>h, <1>o
  <2>3. counter' = counter \/ (counter # NoKey /\ counter \in Int /\ counter' = counter - 1)
    BY <1>fail DEF SoldOut, DecrementFails, TypeOK
  <2> QED
    BY <2>1, <2>2, <2>3, <1>fail, <1>u DEF CounterSound, Free
<1>1. ASSUME NEW r \in Requests, EnsureNotClaimed(r) PROVE CounterSound'
  <2>1. Reserved' = Reserved
    BY <1>1, ReservedStep DEF EnsureNotClaimed, At, Labels, ReservedLabels
  <2> QED
    BY <2>1, <1>1, <1>u, <1>s, <1>h, <1>o DEF EnsureNotClaimed
<1>2. ASSUME NEW r \in Requests, Acquire(r) PROVE CounterSound'
  <2>1. Reserved' = Reserved
    BY <1>2, ReservedStep DEF Acquire, At, Labels, ReservedLabels
  <2> QED
    BY <2>1, <1>2, <1>u, <1>s, <1>h, <1>o DEF Acquire
<1>3. ASSUME NEW r \in Requests, AttemptDecrement(r) PROVE CounterSound'
  <2>1. CASE counter = NoKey /\ Goto(r, "count") /\ UNCHANGED <<counter, last, faults>>
    <3>1. Reserved' = Reserved
      BY <2>1, <1>3, ReservedStep DEF AttemptDecrement, At, Labels, ReservedLabels
    <3> QED
      BY <3>1, <2>1, <1>3, <1>u, <1>s, <1>h, <1>o DEF AttemptDecrement
  <2> QED
    BY <2>1, <1>3, <1>take, <1>fail DEF AttemptDecrement, At
<1>4. ASSUME NEW r \in Requests, CountFromPostgres(r) PROVE CounterSound'
  <2>1. Reserved' = Reserved
    BY <1>4, ReservedStep DEF CountFromPostgres, At, Labels, ReservedLabels
  <2> QED
    BY <2>1, <1>4, <1>u, <1>s, <1>h, <1>o DEF CountFromPostgres
<1>5. ASSUME NEW r \in Requests, FallbackSync(r) PROVE CounterSound'
  <2>1. Reserved' = Reserved
    BY <1>5, ReservedStep DEF FallbackSync, At, Labels, ReservedLabels
  <2> QED
    BY <2>1, <1>5, <1>r, <1>u, <1>s, <1>h, <1>o DEF FallbackSync
<1>6. ASSUME NEW r \in Requests, RetryDecrement(r) PROVE CounterSound'
  BY <1>6, <1>r, <1>take, <1>fail DEF RetryDecrement, At
<1>7. ASSUME NEW r \in Requests, Unlock(r) PROVE CounterSound'
  <2>1. Reserved' = Reserved
    BY <1>7, ReservedStep DEF Unlock, At, Labels, ReservedLabels
  <2> QED
    BY <2>1, <1>7, <1>u, <1>s, <1>h, <1>o DEF Unlock
<1>8. ASSUME NEW r \in Requests, CreateClaim(r) PROVE CounterSound'
  <2>0. pc[r] = "insert" /\ UNCHANGED <<counter, credit>>
    BY <1>8 DEF CreateClaim, At
  <2>1. CASE /\ Ledger!Create(r)
             /\ Goto(r, IF r \in last THEN "soldout" ELSE "done")
             /\ UNCHANGED <<last, faults, inflation>>
    <3>1. Cardinality(Reserved') = Cardinality(Reserved) - 1
      BY <2>0, <2>1, ReservedStep DEF Labels, ReservedLabels
    <3>2. Cardinality(Held') = Cardinality(Held) + 1
      BY <2>1, HeldStep
    <3> QED
      BY <3>1, <3>2, <2>0, <2>1, <1>u, <1>o DEF CounterSound, Free
  <2>2. ASSUME Goto(r, "rollback"), UNCHANGED <<claim, inflation>> PROVE CounterSound'
    <3>1. Reserved' = Reserved
      BY <2>0, <2>2, ReservedStep DEF Labels, ReservedLabels
    <3> QED
      BY <3>1, <2>0, <2>2, <1>u, <1>s, <1>h, <1>o
  <2> QED
    BY <1>8, <2>1, <2>2, <1>r DEF CreateClaim
<1>9. ASSUME NEW r \in Requests, Rollback(r) PROVE CounterSound'
  <2>1. Cardinality(Reserved') = Cardinality(Reserved) - 1
    BY <1>9, ReservedStep DEF Rollback, At, Labels, ReservedLabels
  <2>2. CounterSound /\ Held' = Held /\ Owed' = Owed
    BY <1>9, <1>u, <1>h, <1>o DEF Rollback
  <2>3. counter' = counter \/ counter' = Incr(counter)
    BY <1>9 DEF Rollback
  <2> QED
    BY <2>1, <2>2, <2>3 DEF CounterSound, Free, Incr, TypeOK
<1>10. ASSUME NEW r \in Requests, MarkEventSoldOut(r) PROVE CounterSound'
  <2>1. Reserved' = Reserved
    BY <1>10, ReservedStep DEF MarkEventSoldOut, At, Labels, ReservedLabels
  <2> QED
    BY <2>1, <1>10, <1>u, <1>s, <1>h, <1>o DEF MarkEventSoldOut
<1>row. ASSUME NEW r \in Requests, NEW who \in {"user", "worker"}, ReleaseRow(r, who),
               UNCHANGED <<counter, pc, inflation>>
        PROVE  CounterSound'
  <2>1. CASE Ledger!UpdateStatus(r, "RELEASED")
    <3>1. Cardinality(Held') = Cardinality(Held) - 1
      BY <2>1, HeldStep
    <3>2. credit[r] = "none"
      BY <2>1 DEF ControlOK, Ledger!UpdateStatus
    <3>3. Owed' = Owed \/ Cardinality(Owed') = Cardinality(Owed) + 1
      BY <1>row, <2>1, <3>2, <1>o, OwedStep DEF ReleaseRow, Actors
    <3> QED
      BY <3>1, <3>3, <1>row, <1>u, <1>v DEF CounterSound, Free, TypeOK
  <2>2. CASE UNCHANGED <<claim, credit>>
    BY <2>2, <1>row, <1>u, <1>s, <1>h, <1>v, <1>o
  <2> QED
    BY <2>1, <2>2, <1>row DEF ReleaseRow
<1>11. ASSUME NEW r \in Requests, ReleaseCheck(r) PROVE CounterSound'
  BY <1>11, <1>u, <1>s, <1>h, <1>v, <1>o DEF ReleaseCheck
<1>12. ASSUME NEW r \in Requests, ReleaseUpdate(r) PROVE CounterSound'
  BY <1>12, <1>row DEF ReleaseUpdate
<1>13. ASSUME NEW r \in Requests, RestoreInventory(r) PROVE CounterSound'
  <2>1. Cardinality(Owed') = Cardinality(Owed) - 1
    BY <1>13, OwedStep DEF RestoreInventory, Actors
  <2>2. CounterSound /\ Held' = Held /\ Reserved' = Reserved
    BY <1>13, <1>u, <1>h, <1>v DEF RestoreInventory
  <2>3. counter' = counter \/ counter' = Incr(counter)
    BY <1>13 DEF RestoreInventory
  <2> QED
    BY <2>1, <2>2, <2>3 DEF CounterSound, Free, Incr, TypeOK
<1>14. ASSUME NEW r \in Requests, ConfirmFlow(r) PROVE CounterSound'
  <2>1. Held' = Held
    BY <1>14, HeldStep DEF ConfirmFlow
  <2> QED
    BY <2>1, <1>14, <1>u, <1>s, <1>v, <1>o DEF ConfirmFlow
<1>15. ASSUME NEW r \in Requests, FailureFlow(r) PROVE CounterSound'
  <2>1. Cardinality(Held') = Cardinality(Held) - 1
    BY <1>15, HeldStep DEF FailureFlow
  <2>2. credit[r] = "none"
    BY <1>15 DEF ControlOK, FailureFlow, Ledger!UpdateStatus
  <2>3. Cardinality(Owed') = Cardinality(Owed) + 1
    BY <1>15, <2>2, OwedStep DEF FailureFlow, Actors
  <2>4. CounterSound /\ Reserved' = Reserved /\ UNCHANGED counter
    BY <1>15, <1>u, <1>v DEF FailureFlow
  <2> QED
    BY <2>1, <2>3, <2>4 DEF CounterSound, Free
<1>16. ASSUME NEW r \in Requests, RepeatedCredit(r) PROVE CounterSound'
  BY <1>16, <1>r DEF RepeatedCredit
<1>17. ASSUME NEW r \in Requests, ExpiryRelease(r) PROVE CounterSound'
  BY <1>17, <1>row DEF ExpiryRelease
<1>18. ASSUME NEW r \in Requests, ClaimAges(r) PROVE CounterSound'
  BY <1>18, <1>u, <1>s, <1>h, <1>v, <1>o DEF ClaimAges
<1>19. ASSUME NEW c \in Customers, LockExpires(c) PROVE CounterSound'
  BY <1>19, <1>u, <1>s, <1>h, <1>v, <1>o DEF LockExpires
<1>20. CASE ExpiryFetch
  BY <1>20, <1>u, <1>s, <1>h, <1>v, <1>o DEF ExpiryFetch
<1>21. CASE ReconcileFetch \/ ReconcileCount \/ ReconcileRead
  BY <1>21, <1>u, <1>s, <1>h, <1>v, <1>o
     DEF ReconcileFetch, ReconcileCount, ReconcileRead
<1>22. CASE ReconcileSync
  BY <1>22, <1>r, <1>u, <1>s, <1>h, <1>v, <1>o DEF ReconcileSync
<1>23. CASE EndEvent
  BY <1>23, <1>u, <1>s, <1>h, <1>v, <1>o DEF EndEvent
<1>24. CASE RedisWipe
  <2>1. CounterSound /\ Held' = Held /\ Reserved' = Reserved /\ Owed' = Owed
    BY <1>24, <1>u, <1>h, <1>v, <1>o DEF RedisWipe
  <2>2. counter' = NoKey
    BY <1>24 DEF RedisWipe
  <2> QED
    BY <2>1, <2>2 DEF CounterSound, Free
<1>25. CASE Crash
  <2>1. Reserved' = {} /\ Owed' = {}
    BY <1>25 DEF Crash, Reserved, Owed, Final
  <2>2. Cardinality(Reserved') = 0 /\ Cardinality(Owed') = 0
    BY <2>1, FS_EmptySet
  <2>3. CounterSound /\ Held' = Held /\ UNCHANGED counter
    BY <1>25, <1>u, <1>h DEF Crash
  <2> QED
    BY <2>2, <2>3 DEF CounterSound, Free, TypeOK
<1>26. CASE Restart
  BY <1>26, <1>r, <1>u, <1>s, <1>h, <1>v, <1>o DEF Restart
<1>27. CASE UNCHANGED vars
  BY <1>27, <1>u, <1>s, <1>h, <1>v, <1>o DEF vars
<1> QED
  BY <1>1, <1>2, <1>3, <1>4, <1>5, <1>6, <1>7, <1>8, <1>9, <1>10, <1>11, <1>12,
     <1>13, <1>14, <1>15, <1>16, <1>17, <1>18, <1>19, <1>20, <1>21, <1>22, <1>23,
     <1>24, <1>25, <1>26, <1>27 DEF Next, ClaimStep

\* For any number of requests, tickets and faults: unless an overwrite with a
\* stale count, a discarded cache miss, a lost INSERT reply or a repeated credit
\* has inflated it, the counter never exceeds the tickets that are really free,
\* and what is held, taken out and owed never exceeds the inventory.
THEOREM CounterCorrect == Spec => []SoundUnlessInflated
<1>1. Init => SoundUnlessInflated
  <2> SUFFICES ASSUME Init PROVE CounterSound
    BY DEF SoundUnlessInflated
  <2>1. Held = {} /\ Reserved = {} /\ Owed = {}
    BY DEF Init, Held, Reserved, Owed
  <2>2. Free = Total
    BY <2>1, FS_EmptySet, TotalAssumption DEF Free
  <2> QED
    BY <2>2, TotalAssumption DEF CounterSound, Init
<1>2. TypeOK /\ ControlOK /\ SoundUnlessInflated /\ [Next]_vars => SoundUnlessInflated'
  BY SoundStep
<1> QED
  BY <1>1, <1>2, TypeCorrect, ControlCorrect, PTL DEF Spec

\* Without such a step no more tickets are held, CLAIMED or CONFIRMED, than
\* the event has, whatever the interleaving of claims, releases and expiries.
THEOREM SoldWithinTotalCorrect == Spec => []SoldWithinTotal
<1>1. SoundUnlessInflated => SoldWithinTotal
  BY FreeType, TotalAssumption DEF SoundUnlessInflated, SoldWithinTotal, CounterSound, Free
<1> QED
  BY <1>1, CounterCorrect, PTL
-----------------------------------------------------------------------------
(* Who can be blamed for an inflated counter.                               *)

\* With no CONFIRMED row and nothing in flight, the count of Postgres is the
\* number of free tickets: leaving out the CONFIRMED rows and the tickets in
\* flight is the only mistake of PgCount.
LEMMA PgCountExact ==
  ASSUME TypeOK, ~Paid, InFlight = {}
  PROVE  PgCount = Free
<1>1. {r \in Requests : claim[r] = "CLAIMED"} = Held
  BY DEF Paid, Held
<1>2. Reserved = {} /\ Owed = {}
  BY DEF InFlight
<1>3. Cardinality(Reserved) = 0 /\ Cardinality(Owed) = 0
  BY <1>2, FS_EmptySet
<1>4. CountActive = Cardinality(Held)
  BY <1>1 DEF CountActive
<1> QED
  BY <1>3, <1>4, FreeType, TotalAssumption DEF PgCount, Free

\* Writing a count to the key keeps the balance if no sale is paid, nothing is
\* in flight and the count is not above the one of Postgres.
LEMMA OverwriteSound ==
  ASSUME TypeOK, CounterSound, ~Paid, InFlight = {}, NEW n \in Int, n <= PgCount,
         counter' = n, Held' = Held, Reserved' = Reserved, Owed' = Owed
  PROVE  CounterSound'
<1>1. n <= Free
  BY PgCountExact, PgCountType, FreeType
<1> QED
  BY <1>1, FreeType, TotalAssumption DEF CounterSound, Free

\* Each step that names its cause in inflation' has that cause.
LEMMA BlameStep ==
  ASSUME TypeOK, ControlOK, SoundUnlessInflated, [Next]_vars, inflation = "none",
         inflation' # "none"
  PROVE  /\ inflation' = "recovery" => Paid
         /\ inflation' = "reconcileSync" => Paid \/ InFlight # {} \/ recCount > PgCount
         /\ inflation' = "fallbackSync" =>
               \/ Paid \/ InFlight # {}
               \/ \E r \in Requests : pc[r] = "sync" /\ pc'[r] # "sync" /\ count[r] > PgCount
         /\ inflation' = "ignoredMiss" => Free = 0
<1> DEFINE Blame == /\ inflation' = "recovery" => Paid
                    /\ inflation' = "reconcileSync" => Paid \/ InFlight # {} \/ recCount > PgCount
                    /\ inflation' = "fallbackSync" =>
                          \/ Paid \/ InFlight # {}
                          \/ \E r \in Requests :
                                pc[r] = "sync" /\ pc'[r] # "sync" /\ count[r] > PgCount
                    /\ inflation' = "ignoredMiss" => Free = 0
<1> SUFFICES Blame
  OBVIOUS
<1>s. CounterSound
  BY DEF SoundUnlessInflated
<1>r. ASSUME NEW cause, Record(cause) PROVE inflation' = cause /\ ~CounterSound'
  BY <1>r DEF Record
<1> USE DEF pgVars, redisVars, reqVars, creditVars, recVars, envVars, histVars
<1>1. ASSUME NEW r \in Requests, FallbackSync(r) PROVE Blame
  <2>1. /\ pc[r] = "sync" /\ Goto(r, "retry") /\ UNCHANGED <<claim, credit>>
        /\ counter' = count[r] /\ Record("fallbackSync")
    BY <1>1 DEF FallbackSync, At
  <2>2. inflation' = "fallbackSync" /\ ~CounterSound'
    BY <2>1, <1>r
  <2>3. Held' = Held /\ Owed' = Owed
    BY <2>1 DEF Held, Owed
  <2>4. Reserved' = Reserved
    BY <2>1, ReservedStep DEF Labels, ReservedLabels
  <2>5. count[r] \in Int /\ PgCount \in Int /\ pc'[r] = "retry"
    BY <2>1, PgCountType DEF TypeOK, Goto
  <2>6. ~Paid /\ InFlight = {} => count[r] > PgCount
    BY <2>1, <2>2, <2>3, <2>4, <2>5, <1>s, OverwriteSound
  <2>7. \/ Paid \/ InFlight # {}
        \/ \E q \in Requests : pc[q] = "sync" /\ pc'[q] # "sync" /\ count[q] > PgCount
    BY <2>1, <2>5, <2>6
  <2> QED
    BY <2>2, <2>7
<1>2. ASSUME NEW r \in Requests, RetryDecrement(r) PROVE Blame
  <2>1. /\ pc[r] = "retry" /\ Goto(r, "unlock") /\ UNCHANGED <<claim, credit, counter>>
        /\ counter = NoKey /\ Record("ignoredMiss")
    BY <1>2 DEF RetryDecrement, At
  <2>2. inflation' = "ignoredMiss" /\ ~CounterSound'
    BY <2>1, <1>r
  <2>3. Held' = Held /\ Owed' = Owed
    BY <2>1 DEF Held, Owed
  <2>4. Cardinality(Reserved') = Cardinality(Reserved) + 1
    BY <2>1, ReservedStep DEF Labels, ReservedLabels
  <2>5. Free' = Free - 1 /\ Free \in Int
    BY <2>3, <2>4, FreeType, TotalAssumption DEF Free
  <2>6. Free = 0
    BY <2>1, <2>2, <2>5, <1>s DEF CounterSound
  <2> QED
    BY <2>2, <2>6
<1>3. ASSUME NEW r \in Requests, CreateClaim(r) PROVE Blame
  BY <1>3, <1>r DEF CreateClaim
<1>4. ASSUME NEW r \in Requests, RepeatedCredit(r) PROVE Blame
  BY <1>4, <1>r DEF RepeatedCredit
<1>5. CASE ReconcileSync
  <2>1. /\ UNCHANGED <<claim, pc, credit>>
        /\ counter' = recCount /\ Record("reconcileSync")
    BY <1>5 DEF ReconcileSync
  <2>2. inflation' = "reconcileSync" /\ ~CounterSound'
    BY <2>1, <1>r
  <2>3. Held' = Held /\ Reserved' = Reserved /\ Owed' = Owed
    BY <2>1 DEF Held, Reserved, Owed
  <2>4. recCount \in Int /\ PgCount \in Int
    BY PgCountType DEF TypeOK
  <2>5. ~Paid /\ InFlight = {} => recCount > PgCount
    BY <2>1, <2>2, <2>3, <2>4, <1>s, OverwriteSound
  <2> QED
    BY <2>2, <2>5
<1>6. CASE Restart
  <2>1. /\ ~up /\ UNCHANGED <<claim, pc, credit>>
        /\ counter' = PgCount /\ Record("recovery")
    BY <1>6 DEF Restart
  <2>2. inflation' = "recovery" /\ ~CounterSound'
    BY <2>1, <1>r
  <2>3. Held' = Held /\ Reserved' = Reserved /\ Owed' = Owed
    BY <2>1 DEF Held, Reserved, Owed
  <2>4. InFlight = {}
    BY <2>1 DEF ControlOK, InFlight, Reserved, Owed, Final
  <2>5. PgCount \in Int /\ PgCount <= PgCount
    BY PgCountType
  <2>6. Paid
    BY <2>1, <2>2, <2>3, <2>4, <2>5, <1>s, OverwriteSound
  <2> QED
    BY <2>2, <2>6
<1>7. ASSUME NEW r \in Requests,
             \/ EnsureNotClaimed(r) \/ Acquire(r) \/ AttemptDecrement(r)
             \/ CountFromPostgres(r) \/ Unlock(r) \/ Rollback(r) \/ MarkEventSoldOut(r)
      PROVE  UNCHANGED inflation
  BY <1>7 DEF EnsureNotClaimed, Acquire, AttemptDecrement, CountFromPostgres, Unlock,
              Rollback, MarkEventSoldOut
<1>8. ASSUME NEW r \in Requests,
             \/ ReleaseCheck(r) \/ ReleaseUpdate(r) \/ RestoreInventory(r)
             \/ ConfirmFlow(r) \/ FailureFlow(r) \/ ExpiryRelease(r) \/ ClaimAges(r)
      PROVE  UNCHANGED inflation
  BY <1>8 DEF ReleaseCheck, ReleaseUpdate, RestoreInventory, ConfirmFlow, FailureFlow,
              ExpiryRelease, ClaimAges
<1>9. ASSUME \/ \E c \in Customers : LockExpires(c)
             \/ ExpiryFetch \/ ReconcileFetch \/ ReconcileCount \/ ReconcileRead
             \/ EndEvent \/ RedisWipe \/ Crash \/ UNCHANGED vars
      PROVE  UNCHANGED inflation
  BY <1>9 DEF LockExpires, ExpiryFetch, ReconcileFetch, ReconcileCount, ReconcileRead,
              EndEvent, RedisWipe, Crash, vars
<1> QED
  BY <1>1, <1>2, <1>3, <1>4, <1>5, <1>6, <1>7, <1>8, <1>9 DEF Next, ClaimStep

\* For any number of requests, tickets and faults, the recovery inflates the
\* counter only over CONFIRMED rows, and the reconciliation and the fallback
\* only over CONFIRMED rows, tickets in flight or a count that has gone stale.
THEOREM OverwriteBlameCorrect == Spec => OverwriteBlame
<1> DEFINE A == inflation = "none" =>
          /\ inflation' = "recovery" => Paid
          /\ inflation' = "reconcileSync" =>
                Paid \/ InFlight # {} \/ recCount > PgCount
          /\ inflation' = "fallbackSync" =>
                \/ Paid \/ InFlight # {}
                \/ \E r \in Requests : pc[r] = "sync" /\ pc'[r] # "sync" /\ count[r] > PgCount
          /\ inflation' = "ignoredMiss" => Free = 0
<1>1. TypeOK /\ ControlOK /\ SoundUnlessInflated /\ [Next]_vars => [A]_vars
  BY BlameStep
<1>2. OverwriteBlame <=> [][A]_vars
  BY DEF OverwriteBlame
<1> QED
  BY <1>1, <1>2, TypeCorrect, ControlCorrect, CounterCorrect, PTL DEF Spec
=============================================================================
