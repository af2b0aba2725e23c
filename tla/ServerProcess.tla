---------------------------- MODULE ServerProcess ----------------------------
(***************************************************************************)
(* cmd/api: one server process under a supervisor that restarts it         *)
(* (docker-compose, "restart: unless-stopped"), from its boot sequence to  *)
(* its end, with the goroutines of its errgroup: the workers' schedulers,  *)
(* the HTTP server and the shutdown trigger.  The group's context is       *)
(* cancelled by the first goroutine that returns an error, and only by     *)
(* that.  The hub lives in the process: its handlers are requests whose    *)
(* connection was hijacked, which Shutdown does not wait for, and it sends *)
(* when a tick of the admission worker does.                               *)
(*                                                                         *)
(* What ticks and requests do to the stores is in the other modules.       *)
(***************************************************************************)
EXTENDS Integers

CONSTANTS
    Workers,     \* the schedulers; "admission" is one of them
    Requests,    \* ordinary HTTP requests
    Customers, Conns, Owner, NoConn,    \* of the hub
    MaxFaults    \* bound: failed calls and kills

ASSUME WorkersAssumption == "admission" \in Workers
ASSUME FaultsAssumption  == MaxFaults \in Nat
ASSUME OwnerAssumption   == Owner \in [Conns -> Customers]
ASSUME NoConnAssumption  == NoConn \notin Conns

VARIABLES
    phase,      \* the step of run() that is next, "run" (g.Wait), or "down"
    schema,     \* the migrations are committed to the database
    worker,     \* each scheduler: "off", "select", "job", "sent", "stopped"
    http,       \* ListenAndServe: "off", "starting", "listening", "returned"
    shut,       \* the shutdown goroutine: "off", "starting", "select", "draining",
                \* "returned", "timedout"
    group,      \* the first error of the errgroup, or "none"
    signal,     \* a signal is in the channel quit
    request,    \* each request: "none", "open", "served", "cut"
    faults,
    handler, client, conns, target, wrote, newest, refused      \* of the hub

goVars   == <<worker, http, shut, group, signal>>
hubVars  == <<handler, client, conns, target, wrote, newest, refused>>
procVars == <<phase, schema, goVars, request, faults>>
vars == <<procVars, hubVars>>

Hub == INSTANCE ConnectionHub

Phases == {"config", "pool", "migrate", "redis", "recover", "run", "down"}

Init ==
    /\ phase = "down" /\ schema = FALSE
    /\ worker = [w \in Workers |-> "off"]
    /\ http = "off" /\ shut = "off" /\ group = "none" /\ signal = FALSE
    /\ request = [r \in Requests |-> "none"]
    /\ faults = 0
    /\ Hub!Init

Fault == faults < MaxFaults /\ faults' = faults + 1

-----------------------------------------------------------------------------
(* Boot.                                                                    *)

\* The supervisor starts the process, and starts it again when it has ended.
Start ==
    /\ phase = "down"
    /\ phase' = "config"
    /\ UNCHANGED <<schema, goVars, request, faults, hubVars>>

\* A step of run(): it succeeds, or run() returns its error and the process ends.
Step(from, next) ==
    /\ phase = from
    /\ \/ phase' = next /\ UNCHANGED faults
       \/ phase' = "down" /\ Fault

LoadConfig == Step("config", "pool") /\ UNCHANGED <<schema, goVars, request, hubVars>>
OpenPool   == Step("pool", "migrate") /\ UNCHANGED <<schema, goVars, request, hubVars>>
NewClient  == Step("redis", "recover") /\ UNCHANGED <<schema, goVars, request, hubVars>>

\* The file is one Exec, which Postgres runs in one transaction: committed, rolled
\* back, or committed with the reply lost.  CREATE EXTENSION pg_stat_statements has
\* no IF NOT EXISTS: on a database that has it, the file fails.
Migrate ==
    /\ phase = "migrate"
    /\ \/ ~schema /\ schema' = TRUE /\ phase' = "redis" /\ UNCHANGED faults
       \/ schema' \in {schema, TRUE} /\ phase' = "down" /\ Fault
       \/ schema /\ phase' = "down" /\ UNCHANGED <<schema, faults>>
    /\ UNCHANGED <<goVars, request, hubVars>>

\* RecoverRedisState, whose errors are only logged; the group is started.
Recover ==
    /\ phase = "recover"
    /\ phase' = "run"
    /\ worker' = [w \in Workers |-> "select"]
    /\ http' = "starting" /\ shut' = "starting"
    /\ UNCHANGED <<schema, group, signal, request, faults, hubVars>>

-----------------------------------------------------------------------------
(* The goroutines.                                                          *)

Cancelled == group # "none"

\* errgroup keeps the first error.
Return(err) == group' = IF group = "none" THEN err ELSE group

Tick(w) ==
    /\ worker[w] = "select"
    /\ worker' = [worker EXCEPT ![w] = "job"]
    /\ UNCHANGED <<phase, schema, http, shut, group, signal, request, faults, hubVars>>

\* The job's error is logged; the admission worker's ends after its last send.
JobEnds(w) ==
    /\ worker[w] = "job" \/ (worker[w] = "sent" /\ target = NoConn)
    /\ worker' = [worker EXCEPT ![w] = "select"]
    /\ UNCHANGED <<phase, schema, http, shut, group, signal, request, faults, hubVars>>

\* Mutant of StopWorker: it may return whether or not the context is cancelled.
StopWorkerAnyTime(w) ==
    /\ worker[w] = "select"
    /\ worker' = [worker EXCEPT ![w] = "stopped"] /\ Return("canceled")
    /\ UNCHANGED <<phase, schema, http, shut, signal, request, faults, hubVars>>

\* The select prefers neither of its channels; the loop looks at both after a job.
StopWorker(w) ==
    /\ worker[w] = "select" /\ Cancelled
    /\ worker' = [worker EXCEPT ![w] = "stopped"] /\ Return("canceled")
    /\ UNCHANGED <<phase, schema, http, shut, signal, request, faults, hubVars>>

InShutdown == shut \in {"draining", "returned", "timedout"}

\* Once Shutdown was called, ListenAndServe returns ErrServerClosed, also when it
\* starts only then.
ListenAndServe ==
    /\ \/ /\ http = "starting" /\ ~InShutdown /\ http' = "listening"
          /\ UNCHANGED <<group, faults>>
       \/ /\ http \in {"starting", "listening"} /\ InShutdown /\ http' = "returned"
          /\ UNCHANGED <<group, faults>>
       \/ /\ http \in {"starting", "listening"} /\ ~InShutdown /\ http' = "returned"
          /\ Return("http") /\ Fault
    /\ UNCHANGED <<phase, schema, worker, shut, signal, request, hubVars>>

\* signal.Notify.
Notify ==
    /\ shut = "starting" /\ shut' = "select"
    /\ UNCHANGED <<phase, schema, worker, http, group, signal, request, faults, hubVars>>

\* Mutant of ShutdownBegins: only a signal is waited for.
ShutdownOnSignal ==
    /\ shut = "select" /\ signal
    /\ shut' = "draining"
    /\ UNCHANGED <<phase, schema, worker, http, group, signal, request, faults, hubVars>>

ShutdownBegins ==
    /\ shut = "select" /\ (signal \/ Cancelled)
    /\ shut' = "draining"
    /\ UNCHANGED <<phase, schema, worker, http, group, signal, request, faults, hubVars>>

Open == {r \in Requests : request[r] = "open"}

\* Mutant of ShutdownEnds: Shutdown is called without a deadline.
ShutdownWithoutDeadline ==
    /\ shut = "draining"
    /\ Open = {} /\ shut' = "returned"
    /\ UNCHANGED <<phase, schema, worker, http, group, signal, request, faults, hubVars>>

\* srv.Shutdown returns when no connection is active, or after 30 s.
ShutdownEnds ==
    /\ shut = "draining"
    /\ \/ Open = {} /\ shut' = "returned" /\ UNCHANGED group
       \/ Open # {} /\ shut' = "timedout" /\ Return("shutdown")
    /\ UNCHANGED <<phase, schema, worker, http, signal, request, faults, hubVars>>

-----------------------------------------------------------------------------
(* Requests.                                                                *)

\* Connections that were accepted before the listener closed are served.
Serve(r) ==
    /\ \/ /\ request[r] = "none" /\ http = "listening" /\ ~InShutdown
          /\ request' = [request EXCEPT ![r] = "open"]
       \/ request[r] = "open" /\ request' = [request EXCEPT ![r] = "served"]
    /\ UNCHANGED <<phase, schema, goVars, faults, hubVars>>

QueueWebSocket(x) ==
    /\ http = "listening" /\ ~InShutdown
    /\ Hub!Accept(x)
    /\ UNCHANGED procVars

HubStep(x) == phase = "run" /\ Hub!ServeStep(x) /\ UNCHANGED procVars

ClientLeaves(x) == phase = "run" /\ Hub!ClientLeaves(x) /\ UNCHANGED procVars

\* At most one customer of the batch is connected: a tick sends once.
NotifyAdmitted(c) ==
    /\ worker["admission"] = "job"
    /\ worker' = [worker EXCEPT !["admission"] = "sent"]
    /\ Hub!LookUp(c)
    /\ UNCHANGED <<phase, schema, http, shut, group, signal, request, faults>>

SendStep == phase = "run" /\ Hub!SendStep /\ UNCHANGED procVars

-----------------------------------------------------------------------------
(* The end.                                                                 *)

Gone ==
    /\ phase' = "down"
    /\ worker' = [w \in Workers |-> "off"]
    /\ http' = "off" /\ shut' = "off" /\ group' = "none" /\ signal' = FALSE
    /\ request' = [r \in Requests |-> IF r \in Open THEN "cut" ELSE request[r]]
    /\ Hub!Stop
    /\ UNCHANGED schema

\* Mutant of Wait: run() returns when the HTTP server has.
WaitForServer ==
    /\ phase = "run"
    /\ http = "returned"
    /\ Gone
    /\ UNCHANGED faults

\* g.Wait returns when all five goroutines have, and run() with it.
Wait ==
    /\ phase = "run"
    /\ \A w \in Workers : worker[w] = "stopped"
    /\ http = "returned" /\ shut \in {"returned", "timedout"}
    /\ Gone
    /\ UNCHANGED faults

\* SIGTERM to a process that waits for it.
Signal ==
    /\ shut \in {"select", "draining"}
    /\ signal' = TRUE
    /\ UNCHANGED <<phase, schema, worker, http, shut, group, request, faults, hubVars>>

\* SIGKILL, a crash, and SIGTERM before Notify or after the deferred signal.Stop.
Kill == phase # "down" /\ Gone /\ Fault

Goroutine ==
    \/ \E w \in Workers : Tick(w) \/ JobEnds(w) \/ StopWorker(w)
    \/ ListenAndServe \/ Notify \/ ShutdownBegins \/ ShutdownEnds

Next ==
    \/ Start \/ LoadConfig \/ OpenPool \/ Migrate \/ NewClient \/ Recover
    \/ Goroutine \/ Signal \/ Wait \/ Kill
    \/ \E r \in Requests : Serve(r)
    \/ \E x \in Conns : QueueWebSocket(x) \/ HubStep(x) \/ ClientLeaves(x)
    \/ \E c \in Customers : NotifyAdmitted(c)
    \/ SendStep

Spec == Init /\ [][Next]_vars

(***************************************************************************)
(* The supervisor restarts, run() goes on and goroutines run.  A select    *)
(* that can be left for the context over and over is left for it.  The     *)
(* 30 s end.  Requests need not end, clients need not leave, and no worker *)
(* has to tick.                                                            *)
(***************************************************************************)
Fairness ==
    /\ WF_vars(Start \/ LoadConfig \/ OpenPool \/ Migrate \/ NewClient \/ Recover)
    /\ \A w \in Workers : WF_vars(JobEnds(w)) /\ SF_vars(StopWorker(w))
    /\ WF_vars(ListenAndServe) /\ WF_vars(Notify) /\ WF_vars(ShutdownBegins)
    /\ WF_vars(ShutdownEnds) /\ WF_vars(Wait) /\ WF_vars(SendStep)
    /\ \A x \in Conns : WF_vars(HubStep(x))

FairSpec == Spec /\ Fairness

-----------------------------------------------------------------------------
(* Properties.                                                              *)

\* Every variable stays in its set; in particular the first error of the group is
\* never the one with which a cancelled scheduler returns.
TypeOK ==
    /\ phase \in Phases /\ schema \in BOOLEAN
    /\ worker \in [Workers -> {"off", "select", "job", "sent", "stopped"}]
    /\ http \in {"off", "starting", "listening", "returned"}
    /\ shut \in {"off", "starting", "select", "draining", "returned", "timedout"}
    /\ group \in {"none", "http", "shutdown"} /\ signal \in BOOLEAN
    /\ request \in [Requests -> {"none", "open", "served", "cut"}]
    /\ faults \in 0..MaxFaults
    /\ Hub!TypeOK

\* The hub's promises hold in the process: the map never holds a connection
\* whose handler has let go of it; the customer's newest connection stays in it
\* while it is read and writes to it succeed; one to which a write failed does not.
NoDangling        == Hub!NoDangling
NewestStays       == Hub!NewestStays
FailedIsForgotten == Hub!FailedIsForgotten

\* A connection the client has closed leaves the map, whichever of the two
\* goroutines finds out, also while the server shuts down.
ClosedIsForgotten ==
    \A x \in Conns : client[x] = "closed" /\ conns[Owner[x]] = x ~> conns[Owner[x]] # x

\* Nobody's request is cut short by an orderly end: only by Shutdown's timeout,
\* or by a kill.
RequestsDrain ==
    [][\A r \in Requests :
          request[r] = "open" /\ request'[r] = "cut" => shut = "timedout" \/ faults' # faults]_vars

\* An error of one goroutine ends them all and the process, whatever the workers
\* are doing and however long requests take.
ErrorEndsProcess == group # "none" ~> phase = "down"

\* After a signal the server stops listening and no ordinary request stays open.
\* (When they all end in time nothing cancels the group: the process then stays,
\* with its workers running.)
SignalQuiesces ==
    signal ~> phase = "down" \/ (http = "returned" /\ Open = {})

\* A database serves one run of the process: once a process that had reached
\* g.Wait has ended, none that is started after it accepts a request, because
\* the migration fails on a migrated database.
ServesOnce == [](phase = "run" => [](phase = "down" => [](http = "off")))

\* After a drain in time with no error before it, the process ends only by a kill:
\* the schedulers wait for a context that nothing cancels any more.
CleanShutdownWaits ==
    [][shut = "returned" /\ group = "none" /\ phase' # phase => faults' # faults]_vars
==============================================================================
