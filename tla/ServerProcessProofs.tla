------------------------- MODULE ServerProcessProofs -------------------------
(***************************************************************************)
(* Proofs about ServerProcess and the hub in it, for every number of       *)
(* workers, requests, customers, connections and faults.                   *)
(***************************************************************************)
EXTENDS ServerProcess, TLAPS

-----------------------------------------------------------------------------
(* The hub.                                                                 *)

\* Every step of the hub keeps its variables in their sets.
LEMMA HubTypeStep == Hub!TypeOK /\ [Hub!Next]_hubVars => Hub!TypeOK'
<1> SUFFICES ASSUME Hub!TypeOK, [Hub!Next]_hubVars PROVE Hub!TypeOK'
  OBVIOUS
<1> USE OwnerAssumption DEF Hub!TypeOK, Hub!Steps, Hub!sendVars, Hub!histVars, Hub!Goto,
        Hub!SendDone, Hub!remove, Hub!register
<1>1. ASSUME NEW x \in Conns, Hub!Accept(x) PROVE Hub!TypeOK'
  BY <1>1 DEF Hub!Accept
<1>2. ASSUME NEW x \in Conns, Hub!Register(x) PROVE Hub!TypeOK'
  BY <1>2 DEF Hub!Register
<1>3. ASSUME NEW x \in Conns, Hub!Read(x) \/ Hub!CloseNow(x) \/ Hub!ClientLeaves(x)
      PROVE  Hub!TypeOK'
  BY <1>3 DEF Hub!Read, Hub!CloseNow, Hub!ClientLeaves
<1>4. ASSUME NEW x \in Conns, Hub!Leave(x) PROVE Hub!TypeOK'
  BY <1>4 DEF Hub!Leave
<1>5. ASSUME NEW c \in Customers, Hub!LookUp(c) PROVE Hub!TypeOK'
  BY <1>5 DEF Hub!LookUp
<1>6. CASE Hub!Write
  BY <1>6 DEF Hub!Write
<1>7. CASE Hub!RemoveFailed
  BY <1>7 DEF Hub!RemoveFailed
<1>8. CASE Hub!Stop
  BY <1>8 DEF Hub!Stop
<1>9. CASE UNCHANGED hubVars
  BY <1>9 DEF hubVars
<1> QED
  BY <1>1, <1>2, <1>3, <1>4, <1>5, <1>6, <1>7, <1>8, <1>9
     DEF Hub!Next, Hub!ServeStep, Hub!SendStep

\* A connection that send holds, or to which a write failed, was registered; a
\* failed write is remembered until send has removed the connection.
HubInv ==
    /\ Hub!NoDangling
    /\ Hub!NewestStays
    /\ Hub!FailedIsForgotten
    /\ target # NoConn => handler[target] \notin {"none", "accepted"}
    /\ \A x \in refused : handler[x] \notin {"none", "accepted"}
    /\ wrote = "failed" => target \in refused

\* Every step of the hub keeps HubInv.
LEMMA HubStepInv == Hub!TypeOK /\ HubInv /\ [Hub!Next]_hubVars => HubInv'
<1> SUFFICES ASSUME Hub!TypeOK, HubInv, [Hub!Next]_hubVars PROVE HubInv'
  OBVIOUS
<1> USE OwnerAssumption, NoConnAssumption
    DEF Hub!TypeOK, Hub!Steps, Hub!sendVars, Hub!histVars, Hub!Goto, Hub!SendDone,
        Hub!remove, Hub!register, HubInv, Hub!NoDangling, Hub!NewestStays,
        Hub!FailedIsForgotten
<1>1. ASSUME NEW x \in Conns, Hub!Accept(x) PROVE HubInv'
  BY <1>1 DEF Hub!Accept
<1>2. ASSUME NEW x \in Conns, Hub!Register(x) PROVE HubInv'
  BY <1>2 DEF Hub!Register
<1>3. ASSUME NEW x \in Conns, Hub!Read(x) \/ Hub!CloseNow(x) \/ Hub!ClientLeaves(x)
      PROVE  HubInv'
  BY <1>3 DEF Hub!Read, Hub!CloseNow, Hub!ClientLeaves
<1>4. ASSUME NEW x \in Conns, Hub!Leave(x) PROVE HubInv'
  BY <1>4 DEF Hub!Leave
<1>5. ASSUME NEW c \in Customers, Hub!LookUp(c) PROVE HubInv'
  BY <1>5 DEF Hub!LookUp
<1>6. CASE Hub!Write
  BY <1>6 DEF Hub!Write
<1>7. CASE Hub!RemoveFailed
  BY <1>7 DEF Hub!RemoveFailed
<1>8. CASE Hub!Stop
  BY <1>8 DEF Hub!Stop
<1>9. CASE UNCHANGED hubVars
  BY <1>9 DEF hubVars
<1> QED
  BY <1>1, <1>2, <1>3, <1>4, <1>5, <1>6, <1>7, <1>8, <1>9
     DEF Hub!Next, Hub!ServeStep, Hub!SendStep

\* Every step of the process is a step of the hub or leaves it alone.
LEMMA ProcessHubStep == [Next]_vars => [Hub!Next]_hubVars
<1> SUFFICES ASSUME [Next]_vars PROVE [Hub!Next]_hubVars
  OBVIOUS
<1>1. CASE Start \/ LoadConfig \/ OpenPool \/ Migrate \/ NewClient \/ Recover \/ Signal
  BY <1>1 DEF Start, LoadConfig, OpenPool, Migrate, NewClient, Recover, Signal
<1>2. CASE Goroutine
  BY <1>2 DEF Goroutine, Tick, JobEnds, StopWorker, ListenAndServe, Notify, ShutdownBegins,
              ShutdownEnds
<1>3. CASE Wait \/ Kill
  BY <1>3 DEF Wait, Kill, Gone, Hub!Next
<1>4. ASSUME NEW r \in Requests, Serve(r) PROVE UNCHANGED hubVars
  BY <1>4 DEF Serve
<1>5. ASSUME NEW x \in Conns, QueueWebSocket(x) \/ HubStep(x) \/ ClientLeaves(x)
      PROVE  Hub!Next
  BY <1>5 DEF QueueWebSocket, HubStep, ClientLeaves, Hub!Next
<1>6. ASSUME NEW c \in Customers, NotifyAdmitted(c) PROVE Hub!Next
  BY <1>6 DEF NotifyAdmitted, Hub!Next
<1>7. CASE SendStep
  BY <1>7 DEF SendStep, Hub!Next
<1>8. CASE UNCHANGED vars
  BY <1>8 DEF vars
<1> QED
  BY <1>1, <1>2, <1>3, <1>4, <1>5, <1>6, <1>7, <1>8 DEF Next

\* The process implements the hub: its steps, its ends and its restarts included.
THEOREM ImplementsHub == Spec => Hub!Spec
<1>1. Init => Hub!Init
  BY DEF Init
<1>2. [Next]_vars => [Hub!Next]_hubVars
  BY ProcessHubStep
<1>3. [Hub!Next]_hubVars => [Hub!Next]_(Hub!vars)
  BY DEF hubVars, Hub!vars, Hub!sendVars, Hub!histVars
<1> QED
  BY <1>1, <1>2, <1>3, PTL DEF Spec, Hub!Spec

-----------------------------------------------------------------------------
(* The process.                                                             *)

\* Every step of the process keeps every variable in its set; a scheduler that
\* returns does so because another goroutine's error is already there.
LEMMA TypeStep == TypeOK /\ [Next]_vars => TypeOK'
<1> SUFFICES ASSUME TypeOK, [Next]_vars PROVE TypeOK'
  OBVIOUS
<1>h. Hub!TypeOK'
  BY ProcessHubStep, HubTypeStep DEF TypeOK
<1>f. ASSUME Fault PROVE faults' \in 0..MaxFaults
  BY <1>f, FaultsAssumption DEF Fault, TypeOK
<1> USE DEF TypeOK, Phases, goVars, procVars
<1>1. CASE Start
  BY <1>1, <1>h DEF Start
<1>2. CASE LoadConfig \/ OpenPool \/ NewClient
  BY <1>2, <1>h, <1>f DEF LoadConfig, OpenPool, NewClient, Step
<1>3. CASE Migrate
  <2>1. schema' \in BOOLEAN
    BY <1>3, Zenon DEF Migrate
  <2> QED
    BY <1>3, <1>h, <1>f, <2>1 DEF Migrate
<1>4. CASE Recover
  BY <1>4, <1>h DEF Recover
<1>5. ASSUME NEW w \in Workers, Tick(w) \/ JobEnds(w) \/ StopWorker(w) PROVE TypeOK'
  BY <1>5, <1>h DEF Tick, JobEnds, StopWorker, Return, Cancelled
<1>6. CASE ListenAndServe
  BY <1>6, <1>h, <1>f DEF ListenAndServe, Return
<1>7. CASE Notify \/ ShutdownBegins
  BY <1>7, <1>h DEF Notify, ShutdownBegins
<1>8. CASE ShutdownEnds
  BY <1>8, <1>h DEF ShutdownEnds, Return
<1>9. ASSUME Gone, faults' \in 0..MaxFaults PROVE TypeOK'
  <2>1. signal' \in BOOLEAN
    BY <1>9, Zenon DEF Gone
  <2> QED
    BY <1>9, <1>h, <2>1 DEF Gone
<1>10. CASE Wait \/ Kill
  BY <1>10, <1>f, <1>9 DEF Wait, Kill
<1>11. CASE Signal
  <2>1. signal' \in BOOLEAN
    BY <1>11, Zenon DEF Signal
  <2> QED
    BY <1>11, <1>h, <2>1 DEF Signal
<1>12. ASSUME NEW r \in Requests, Serve(r) PROVE TypeOK'
  BY <1>12, <1>h DEF Serve
<1>13. ASSUME NEW c \in Customers, NotifyAdmitted(c) PROVE TypeOK'
  BY <1>13, <1>h DEF NotifyAdmitted
<1>14. ASSUME UNCHANGED procVars PROVE TypeOK'
  BY <1>14, <1>h
<1>15. ASSUME NEW x \in Conns, QueueWebSocket(x) \/ HubStep(x) \/ ClientLeaves(x) PROVE TypeOK'
  BY <1>15, <1>14 DEF QueueWebSocket, HubStep, ClientLeaves
<1>16. CASE SendStep \/ UNCHANGED vars
  BY <1>16, <1>14 DEF SendStep, vars
<1> QED
  BY <1>1, <1>2, <1>3, <1>4, <1>5, <1>6, <1>7, <1>8, <1>10, <1>11, <1>12, <1>13, <1>15,
     <1>16 DEF Next, Goroutine

\* TypeOK is an invariant of the process.
THEOREM TypeCorrect == Spec => []TypeOK
<1>1. ASSUME Init PROVE TypeOK
  <2>1. schema \in BOOLEAN /\ signal \in BOOLEAN
    BY <1>1, Zenon DEF Init
  <2>2. Hub!TypeOK
    BY <1>1 DEF Init, Hub!Init, Hub!TypeOK, Hub!Steps
  <2> QED
    BY <1>1, <2>1, <2>2, FaultsAssumption DEF Init, TypeOK, Phases
<1>2. TypeOK /\ [Next]_vars => TypeOK'
  BY TypeStep
<1> QED
  BY <1>1, <1>2, PTL DEF Spec

\* The hub's map is right in every state of the process: no connection of a
\* handler that has let go, the newest connection of a customer kept, one to
\* which a write failed given up.
THEOREM HubCorrect == Spec => [](NoDangling /\ NewestStays /\ FailedIsForgotten)
<1>1. Init => HubInv
  BY OwnerAssumption, NoConnAssumption
     DEF Init, Hub!Init, HubInv, Hub!NoDangling, Hub!NewestStays, Hub!FailedIsForgotten
<1>2. TypeOK /\ HubInv /\ [Next]_vars => HubInv'
  BY ProcessHubStep, HubStepInv DEF TypeOK
<1>3. HubInv => NoDangling /\ NewestStays /\ FailedIsForgotten
  BY DEF HubInv, NoDangling, NewestStays, FailedIsForgotten
<1> QED
  BY <1>1, <1>2, <1>3, TypeCorrect, PTL DEF Spec

-----------------------------------------------------------------------------
(* The end of the process.                                                  *)

\* Shutdown has returned without an error only if no request is open, and
\* from then on none is opened.
DrainInv == shut = "returned" => Open = {}

\* Every step keeps DrainInv.
LEMMA DrainStep == TypeOK /\ DrainInv /\ [Next]_vars => DrainInv'
<1> SUFFICES ASSUME TypeOK, DrainInv, [Next]_vars PROVE DrainInv'
  OBVIOUS
<1> USE DEF DrainInv, Open, goVars, procVars
<1>1. ASSUME NEW r \in Requests, Serve(r) PROVE DrainInv'
  BY <1>1 DEF Serve, InShutdown, TypeOK
<1>2. CASE ShutdownEnds
  BY <1>2 DEF ShutdownEnds
<1>3. CASE Wait \/ Kill
  BY <1>3 DEF Wait, Kill, Gone
<1>4. CASE Recover \/ Notify \/ ShutdownBegins
  BY <1>4 DEF Recover, Notify, ShutdownBegins
<1>5. ASSUME UNCHANGED <<shut, request>> PROVE DrainInv'
  BY <1>5
<1>6. CASE Start \/ LoadConfig \/ OpenPool \/ Migrate \/ NewClient \/ Signal
  BY <1>6, <1>5 DEF Start, LoadConfig, OpenPool, Migrate, NewClient, Signal
<1>7. ASSUME NEW w \in Workers, Tick(w) \/ JobEnds(w) \/ StopWorker(w) PROVE DrainInv'
  BY <1>7, <1>5 DEF Tick, JobEnds, StopWorker
<1>8. CASE ListenAndServe
  BY <1>8, <1>5 DEF ListenAndServe
<1>9. ASSUME NEW x \in Conns, QueueWebSocket(x) \/ HubStep(x) \/ ClientLeaves(x) PROVE DrainInv'
  BY <1>9, <1>5 DEF QueueWebSocket, HubStep, ClientLeaves
<1>10. ASSUME NEW c \in Customers, NotifyAdmitted(c) PROVE DrainInv'
  BY <1>10, <1>5 DEF NotifyAdmitted
<1>11. CASE SendStep \/ UNCHANGED vars
  BY <1>11, <1>5 DEF SendStep, vars
<1> QED
  BY <1>1, <1>2, <1>3, <1>4, <1>6, <1>7, <1>8, <1>9, <1>10, <1>11 DEF Next, Goroutine

\* A request is cut only by the end of a Shutdown that timed out, or by a kill:
\* g.Wait waits for the goroutine that drains, not only for the server.
THEOREM RequestsDrainCorrect == Spec => RequestsDrain
<1>1. Init => DrainInv
  BY DEF Init, DrainInv
<1>2. ASSUME TypeOK, DrainInv, [Next]_vars, NEW r \in Requests,
             request[r] = "open", request'[r] = "cut"
      PROVE  shut = "timedout" \/ faults' # faults
  <2> USE DEF goVars, procVars
  <2>1. CASE Wait
    BY <1>2, <2>1 DEF Wait, DrainInv, Open
  <2>2. CASE Kill
    BY <1>2, <2>2 DEF Kill, Fault, TypeOK
  <2>3. ASSUME NEW q \in Requests, Serve(q) PROVE FALSE
    BY <1>2, <2>3 DEF Serve, TypeOK
  <2>4. ASSUME UNCHANGED request PROVE FALSE
    BY <1>2, <2>4
  <2>5. ASSUME \/ Start \/ LoadConfig \/ OpenPool \/ Migrate \/ NewClient \/ Recover
               \/ Signal \/ SendStep \/ UNCHANGED vars
        PROVE  FALSE
    BY <2>4, <2>5 DEF Start, LoadConfig, OpenPool, Migrate, NewClient, Recover, Signal,
                      SendStep, vars
  <2>6. ASSUME Goroutine PROVE FALSE
    BY <2>4, <2>6 DEF Goroutine, Tick, JobEnds, StopWorker, ListenAndServe, Notify,
                      ShutdownBegins, ShutdownEnds
  <2>7. ASSUME NEW x \in Conns, QueueWebSocket(x) \/ HubStep(x) \/ ClientLeaves(x) PROVE FALSE
    BY <2>4, <2>7 DEF QueueWebSocket, HubStep, ClientLeaves
  <2>8. ASSUME NEW c \in Customers, NotifyAdmitted(c) PROVE FALSE
    BY <2>4, <2>8 DEF NotifyAdmitted
  <2> QED
    BY <1>2, <2>1, <2>2, <2>3, <2>5, <2>6, <2>7, <2>8 DEF Next
<1>3. TypeOK /\ DrainInv /\ [Next]_vars => DrainInv'
  BY DrainStep
<1>4. TypeOK /\ DrainInv /\ [Next]_vars =>
         [\A r \in Requests : request[r] = "open" /\ request'[r] = "cut"
             => shut = "timedout" \/ faults' # faults]_vars
  BY <1>2
<1> QED
  BY <1>1, <1>3, <1>4, TypeCorrect, PTL DEF Spec, RequestsDrain

-----------------------------------------------------------------------------
(* Restarts, and the end that a signal does not bring.                      *)

Goroutines == <<worker, http, shut, group>>

\* The group exists only while run() waits for it, and what comes after Migrate
\* finds a migrated database.
BootInv ==
    /\ phase # "run" =>
          (\A w \in Workers : worker[w] = "off") /\ http = "off" /\ shut = "off" /\ group = "none"
    /\ phase \in {"redis", "recover", "run"} => schema

\* A goroutine runs only in a process that has reached g.Wait.
LEMMA RunningOnly ==
  ASSUME BootInv, NEW w \in Workers, \/ worker[w] # "off" \/ http # "off" \/ shut # "off"
  PROVE  phase = "run"
BY DEF BootInv

\* Every step keeps BootInv.
LEMMA BootStep == TypeOK /\ BootInv /\ [Next]_vars => BootInv'
<1> SUFFICES ASSUME TypeOK, BootInv, [Next]_vars PROVE BootInv'
  OBVIOUS
<1> USE DEF goVars, procVars
<1>1. CASE Start \/ LoadConfig \/ OpenPool \/ NewClient
  BY <1>1 DEF Start, LoadConfig, OpenPool, NewClient, Step, BootInv
<1>2. CASE Migrate
  BY <1>2 DEF Migrate, BootInv
<1>3. CASE Recover
  BY <1>3 DEF Recover, BootInv
<1>4. CASE Wait \/ Kill
  BY <1>4 DEF Wait, Kill, Gone, BootInv
<1>5. ASSUME phase = "run", UNCHANGED <<phase, schema>> PROVE BootInv'
  BY <1>5 DEF BootInv
<1>6. CASE Goroutine
  <2>1. phase = "run"
    BY <1>6, RunningOnly, WorkersAssumption
       DEF Goroutine, Tick, JobEnds, StopWorker, ListenAndServe, Notify, ShutdownBegins,
           ShutdownEnds
  <2>2. UNCHANGED <<phase, schema>>
    BY <1>6 DEF Goroutine, Tick, JobEnds, StopWorker, ListenAndServe, Notify, ShutdownBegins,
                ShutdownEnds
  <2> QED
    BY <2>1, <2>2, <1>5
<1>7. ASSUME NEW c \in Customers, NotifyAdmitted(c) PROVE BootInv'
  BY <1>7, <1>5, RunningOnly, WorkersAssumption DEF NotifyAdmitted
<1>8. ASSUME UNCHANGED <<phase, schema, Goroutines>> PROVE BootInv'
  BY <1>8 DEF BootInv, Goroutines
<1>9. CASE Signal \/ SendStep \/ UNCHANGED vars
  BY <1>9, <1>8 DEF Signal, SendStep, vars, Goroutines
<1>10. ASSUME NEW r \in Requests, Serve(r) PROVE BootInv'
  BY <1>10, <1>8 DEF Serve, Goroutines
<1>11. ASSUME NEW x \in Conns, QueueWebSocket(x) \/ HubStep(x) \/ ClientLeaves(x) PROVE BootInv'
  BY <1>11, <1>8 DEF QueueWebSocket, HubStep, ClientLeaves, Goroutines
<1> QED
  BY <1>1, <1>2, <1>3, <1>4, <1>6, <1>7, <1>9, <1>10, <1>11 DEF Next

\* BootInv is an invariant of the process.
LEMMA BootCorrect == Spec => []BootInv
<1>1. Init => BootInv
  BY DEF Init, BootInv
<1>2. TypeOK /\ BootInv /\ [Next]_vars => BootInv'
  BY BootStep
<1> QED
  BY <1>1, <1>2, TypeCorrect, PTL DEF Spec

\* The process has not got past Migrate, and will not: the schema is there.
Refused == schema /\ phase \in {"down", "config", "pool", "migrate"}

\* No step leads out of Refused.
LEMMA RefusedStep == TypeOK /\ BootInv /\ Refused /\ [Next]_vars => Refused'
<1> SUFFICES ASSUME TypeOK, BootInv, Refused, [Next]_vars PROVE Refused'
  OBVIOUS
<1> USE DEF Refused, goVars, procVars
<1>0. phase # "run" /\ phase # "redis" /\ phase # "recover"
  OBVIOUS
<1>1. CASE Start \/ LoadConfig \/ OpenPool \/ NewClient
  BY <1>1 DEF Start, LoadConfig, OpenPool, NewClient, Step
<1>2. CASE Migrate
  BY <1>2 DEF Migrate
<1>3. CASE Recover \/ Wait
  BY <1>0, <1>3 DEF Recover, Wait
<1>4. CASE Kill
  BY <1>4 DEF Kill, Gone
<1>5. ASSUME UNCHANGED <<phase, schema>> PROVE Refused'
  BY <1>5
<1>6. CASE Goroutine
  BY <1>6, <1>5 DEF Goroutine, Tick, JobEnds, StopWorker, ListenAndServe, Notify,
                    ShutdownBegins, ShutdownEnds
<1>7. ASSUME NEW c \in Customers, NotifyAdmitted(c) PROVE Refused'
  BY <1>7, <1>5 DEF NotifyAdmitted
<1>8. CASE Signal \/ SendStep \/ UNCHANGED vars
  BY <1>8, <1>5 DEF Signal, SendStep, vars
<1>9. ASSUME NEW r \in Requests, Serve(r) PROVE Refused'
  BY <1>9, <1>5 DEF Serve
<1>10. ASSUME NEW x \in Conns, QueueWebSocket(x) \/ HubStep(x) \/ ClientLeaves(x) PROVE Refused'
  BY <1>10, <1>5 DEF QueueWebSocket, HubStep, ClientLeaves
<1> QED
  BY <1>1, <1>2, <1>3, <1>4, <1>6, <1>7, <1>8, <1>9, <1>10 DEF Next

\* The committed schema is never undone.
LEMMA SchemaStays == schema /\ [Next]_vars => schema'
<1> SUFFICES ASSUME schema, [Next]_vars PROVE schema'
  OBVIOUS
<1> USE DEF procVars
<1>1. CASE Migrate
  BY <1>1 DEF Migrate
<1>2. CASE Start \/ LoadConfig \/ OpenPool \/ NewClient \/ Recover \/ Signal \/ Wait \/ Kill
  BY <1>2 DEF Start, LoadConfig, OpenPool, NewClient, Recover, Signal, Wait, Kill, Gone
<1>3. CASE Goroutine
  BY <1>3 DEF Goroutine, Tick, JobEnds, StopWorker, ListenAndServe, Notify, ShutdownBegins,
              ShutdownEnds
<1>4. ASSUME NEW c \in Customers, NotifyAdmitted(c) PROVE schema'
  BY <1>4 DEF NotifyAdmitted
<1>5. ASSUME NEW r \in Requests, Serve(r) PROVE schema'
  BY <1>5 DEF Serve
<1>6. ASSUME NEW x \in Conns, QueueWebSocket(x) \/ HubStep(x) \/ ClientLeaves(x) PROVE schema'
  BY <1>6 DEF QueueWebSocket, HubStep, ClientLeaves
<1>7. CASE SendStep \/ UNCHANGED vars
  BY <1>7 DEF SendStep, vars
<1> QED
  BY <1>1, <1>2, <1>3, <1>4, <1>5, <1>6, <1>7 DEF Next

\* A process that reached g.Wait has migrated the database; whatever is started
\* after its end fails at Migrate, so that no request is accepted ever again.
THEOREM ServesOnceCorrect == Spec => ServesOnce
<1>1. BootInv /\ phase = "run" => schema
  BY DEF BootInv
<1>2. schema /\ [Next]_vars => schema'
  BY SchemaStays
<1>3. schema /\ phase = "down" => Refused
  BY DEF Refused
<1>4. TypeOK /\ BootInv /\ Refused /\ [Next]_vars => Refused'
  BY RefusedStep
<1>5. BootInv /\ Refused => http = "off"
  BY DEF BootInv, Refused
<1> QED
  BY <1>1, <1>2, <1>3, <1>4, <1>5, TypeCorrect, BootCorrect, PTL DEF Spec, ServesOnce

\* A scheduler returns only when the context is cancelled, which leaves an error
\* in the group.
StoppedInv == group = "none" => \A w \in Workers : worker[w] # "stopped"

\* Every step keeps StoppedInv.
LEMMA StoppedStep == TypeOK /\ StoppedInv /\ [Next]_vars => StoppedInv'
<1> SUFFICES ASSUME TypeOK, StoppedInv, [Next]_vars PROVE StoppedInv'
  OBVIOUS
<1> USE DEF StoppedInv, goVars, procVars
<1>1. ASSUME NEW w \in Workers, Tick(w) \/ JobEnds(w) \/ StopWorker(w) PROVE StoppedInv'
  BY <1>1 DEF Tick, JobEnds, StopWorker, Cancelled, Return, TypeOK
<1>2. CASE ListenAndServe \/ ShutdownEnds
  BY <1>2 DEF ListenAndServe, ShutdownEnds, Return
<1>3. CASE Recover \/ Wait \/ Kill
  BY <1>3 DEF Recover, Wait, Kill, Gone
<1>4. ASSUME NEW c \in Customers, NotifyAdmitted(c) PROVE StoppedInv'
  BY <1>4, WorkersAssumption DEF NotifyAdmitted, TypeOK
<1>5. ASSUME UNCHANGED <<worker, group>> PROVE StoppedInv'
  BY <1>5
<1>6. CASE \/ Start \/ LoadConfig \/ OpenPool \/ Migrate \/ NewClient \/ Signal
           \/ Notify \/ ShutdownBegins \/ SendStep \/ UNCHANGED vars
  BY <1>6, <1>5 DEF Start, LoadConfig, OpenPool, Migrate, NewClient, Signal, Notify,
                    ShutdownBegins, SendStep, vars
<1>7. ASSUME NEW r \in Requests, Serve(r) PROVE StoppedInv'
  BY <1>7, <1>5 DEF Serve
<1>8. ASSUME NEW x \in Conns, QueueWebSocket(x) \/ HubStep(x) \/ ClientLeaves(x) PROVE StoppedInv'
  BY <1>8, <1>5 DEF QueueWebSocket, HubStep, ClientLeaves
<1> QED
  BY <1>1, <1>2, <1>3, <1>4, <1>6, <1>7, <1>8 DEF Next, Goroutine

\* When the drain has ended in time and nothing has failed, g.Wait cannot return:
\* no scheduler has stopped, and the admission worker's is one of them.
THEOREM CleanShutdownCorrect == Spec => CleanShutdownWaits
<1>1. Init => StoppedInv
  BY DEF Init, StoppedInv
<1>2. TypeOK /\ StoppedInv /\ [Next]_vars => StoppedInv'
  BY StoppedStep
<1>3. ASSUME TypeOK, BootInv, StoppedInv, [Next]_vars,
             shut = "returned", group = "none", phase' # phase
      PROVE  faults' # faults
  <2>0. phase = "run"
    BY <1>3 DEF BootInv
  <2> USE DEF procVars
  <2>1. CASE Kill
    BY <2>1 DEF Kill, Fault, TypeOK
  <2>2. ASSUME Wait PROVE FALSE
    BY <1>3, <2>2, WorkersAssumption DEF Wait, StoppedInv
  <2>3. ASSUME Start \/ LoadConfig \/ OpenPool \/ Migrate \/ NewClient \/ Recover PROVE FALSE
    BY <2>0, <2>3 DEF Start, LoadConfig, OpenPool, Migrate, NewClient, Recover, Step
  <2>4. ASSUME Goroutine PROVE FALSE
    BY <1>3, <2>4 DEF Goroutine, Tick, JobEnds, StopWorker, ListenAndServe, Notify,
                      ShutdownBegins, ShutdownEnds
  <2>5. ASSUME Signal \/ SendStep \/ UNCHANGED vars PROVE FALSE
    BY <1>3, <2>5 DEF Signal, SendStep, vars
  <2>6. ASSUME NEW r \in Requests, Serve(r) PROVE FALSE
    BY <1>3, <2>6 DEF Serve
  <2>7. ASSUME NEW x \in Conns, QueueWebSocket(x) \/ HubStep(x) \/ ClientLeaves(x) PROVE FALSE
    BY <1>3, <2>7 DEF QueueWebSocket, HubStep, ClientLeaves
  <2>8. ASSUME NEW c \in Customers, NotifyAdmitted(c) PROVE FALSE
    BY <1>3, <2>8 DEF NotifyAdmitted
  <2> QED
    BY <1>3, <2>1, <2>2, <2>3, <2>4, <2>5, <2>6, <2>7, <2>8 DEF Next
<1>4. TypeOK /\ BootInv /\ StoppedInv /\ [Next]_vars =>
         [shut = "returned" /\ group = "none" /\ phase' # phase => faults' # faults]_vars
  BY <1>3
<1> QED
  BY <1>1, <1>2, <1>4, TypeCorrect, BootCorrect, PTL DEF Spec, CleanShutdownWaits
==============================================================================
