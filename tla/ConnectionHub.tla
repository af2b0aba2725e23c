---------------------------- MODULE ConnectionHub ----------------------------
(***************************************************************************)
(* The WebSocket hub: a map from customers to connections, behind a        *)
(* read-write lock.  One goroutine per request runs ServeWS (upgrade,      *)
(* register, read until the connection fails, remove, close); the          *)
(* admission worker runs send for one customer at a time (look up under    *)
(* the read lock, unlock, write, remove when the write failed).  So the    *)
(* worker writes to a connection that may have been replaced, removed or   *)
(* closed since it was looked up.                                          *)
(*                                                                         *)
(* No ping is ever sent: a client that disappears without closing is only  *)
(* noticed by a write that fails.                                          *)
(***************************************************************************)
CONSTANTS
    Customers,
    Conns,       \* upgrade requests; request x gets the connection x
    Owner,       \* the customer of the JWT in a request
    NoConn       \* no connection

VARIABLES
    handler,    \* where ServeWS is, for each request
    client,     \* the client's end: "up", "closed" (Read fails), "gone" (it does not)
    conns,      \* Hub.conns
    target,     \* the connection send has looked up for its Owner, or NoConn
    wrote,      \* send's write to target: "no", "failed"
    newest,     \* history: the last connection each customer registered
    refused     \* history: connections a write to which failed

sendVars == <<target, wrote>>
histVars == <<newest, refused>>
vars == <<handler, client, conns, sendVars, histVars>>

Steps == {"none", "accepted", "reading", "leaving", "removed", "returned"}

Init ==
    /\ handler = [x \in Conns |-> "none"]
    /\ client = [x \in Conns |-> "up"]
    /\ conns = [c \in Customers |-> NoConn]
    /\ target = NoConn /\ wrote = "no"
    /\ newest = [c \in Customers |-> NoConn]
    /\ refused = {}

-----------------------------------------------------------------------------
(* The map.                                                                 *)

\* Under the write lock.
register(c, x) == conns' = [conns EXCEPT ![c] = x]

\* Mutant of remove: whatever connection the customer has is removed.
removeAny(c, x) == conns' = [conns EXCEPT ![c] = NoConn]

\* Under the write lock; a connection that was replaced is not in the map.
remove(c, x) == conns' = [conns EXCEPT ![c] = IF @ = x THEN NoConn ELSE @]

-----------------------------------------------------------------------------
(* ServeWS.                                                                 *)

Goto(x, step) == handler' = [handler EXCEPT ![x] = step]

\* websocket.Accept: the upgrade succeeds, or fails and is logged.
Accept(x) ==
    /\ handler[x] = "none"
    /\ Goto(x, "accepted") \/ Goto(x, "returned")
    /\ UNCHANGED <<client, conns, sendVars, histVars>>

Register(x) ==
    /\ handler[x] = "accepted"
    /\ register(Owner[x], x)
    /\ newest' = [newest EXCEPT ![Owner[x]] = x]
    /\ Goto(x, "reading")
    /\ UNCHANGED <<client, sendVars, refused>>

\* The read loop ends when Read returns an error.
Read(x) ==
    /\ handler[x] = "reading"
    /\ client[x] = "closed"
    /\ Goto(x, "leaving")
    /\ UNCHANGED <<client, conns, sendVars, histVars>>

\* Mutant of Leave: only CloseNow is deferred.
LeaveWithoutRemove(x) ==
    /\ handler[x] = "leaving"
    /\ Goto(x, "removed")
    /\ UNCHANGED <<client, conns, sendVars, histVars>>

\* Deferred calls run last in, first out: remove, and then CloseNow.
Leave(x) ==
    /\ handler[x] = "leaving"
    /\ remove(Owner[x], x)
    /\ Goto(x, "removed")
    /\ UNCHANGED <<client, sendVars, histVars>>

CloseNow(x) ==
    /\ handler[x] = "removed"
    /\ Goto(x, "returned")
    /\ UNCHANGED <<client, conns, sendVars, histVars>>

\* The client closes the connection, or it is cut without a word.
ClientLeaves(x) ==
    /\ client[x] = "up"
    /\ client' = [client EXCEPT ![x] = "closed"] \/ client' = [client EXCEPT ![x] = "gone"]
    /\ UNCHANGED <<handler, conns, sendVars, histVars>>

ServeStep(x) == Register(x) \/ Read(x) \/ Leave(x) \/ CloseNow(x)

-----------------------------------------------------------------------------
(* send, called by the admission worker.                                    *)

\* The read lock is released before the write.  A customer without a connection
\* is not sent anything.
LookUp(c) ==
    /\ target = NoConn
    /\ conns[c] # NoConn
    /\ target' = conns[c]
    /\ UNCHANGED <<handler, client, conns, wrote, histVars>>

SendDone == target' = NoConn /\ wrote' = "no"

\* A write that fails closes the connection: the handler's Read fails as well.
\* One to a connection that is gone succeeds as long as the buffer takes it.
Write ==
    /\ target # NoConn /\ wrote = "no"
    /\ \/ /\ client[target] \in {"up", "gone"} /\ handler[target] # "returned"
          /\ SendDone
          /\ UNCHANGED <<client, refused>>
       \/ /\ wrote' = "failed"
          /\ client' = [client EXCEPT ![target] = "closed"]
          /\ refused' = refused \cup {target}
          /\ UNCHANGED target
    /\ UNCHANGED <<handler, conns, newest>>

\* Mutant of RemoveFailed: a failed write is only reported to the caller.
KeepFailed ==
    /\ wrote = "failed"
    /\ SendDone
    /\ UNCHANGED <<handler, client, conns, histVars>>

RemoveFailed ==
    /\ wrote = "failed"
    /\ remove(Owner[target], target)
    /\ SendDone
    /\ UNCHANGED <<handler, client, histVars>>

SendStep == Write \/ RemoveFailed

-----------------------------------------------------------------------------
\* The process ends: its goroutines and its sockets are gone.
Stop ==
    /\ handler' = [x \in Conns |-> IF handler[x] = "none" THEN "none" ELSE "returned"]
    /\ client' = [x \in Conns |-> IF handler[x] = "none" THEN client[x] ELSE "closed"]
    /\ conns' = [c \in Customers |-> NoConn]
    /\ SendDone
    /\ newest' = [c \in Customers |-> NoConn]
    /\ UNCHANGED refused

Next ==
    \/ \E x \in Conns : Accept(x) \/ ServeStep(x) \/ ClientLeaves(x)
    \/ \E c \in Customers : LookUp(c)
    \/ SendStep
    \/ Stop

Spec == Init /\ [][Next]_vars

-----------------------------------------------------------------------------
(* Properties.                                                              *)

\* Every variable stays in its set.
TypeOK ==
    /\ handler \in [Conns -> Steps]
    /\ client \in [Conns -> {"up", "closed", "gone"}]
    /\ conns \in [Customers -> Conns \cup {NoConn}]
    /\ target \in Conns \cup {NoConn} /\ wrote \in {"no", "failed"}
    /\ newest \in [Customers -> Conns \cup {NoConn}]
    /\ refused \subseteq Conns

\* The map never holds a connection whose handler has returned or is about to
\* close it, nor one of another customer, although two goroutines remove it.
NoDangling ==
    \A c \in Customers : conns[c] # NoConn =>
        Owner[conns[c]] = c /\ handler[conns[c]] \in {"reading", "leaving"}

\* The connection a customer opened last stays reachable as long as its read
\* loop runs and no write to it failed: neither the end of an older connection
\* of the customer nor a failed write to that one takes it out of the map.
NewestStays ==
    \A x \in Conns :
        newest[Owner[x]] = x /\ handler[x] = "reading" /\ x \notin refused
            => conns[Owner[x]] = x

\* A connection to which a write failed is not looked up again once send has
\* returned, also when its handler has not noticed yet.
FailedIsForgotten ==
    \A x \in refused : conns[Owner[x]] = x => target = x /\ wrote = "failed"
==============================================================================
