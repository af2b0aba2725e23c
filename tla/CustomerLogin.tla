---------------------------- MODULE CustomerLogin ----------------------------
(***************************************************************************)
(* How one customer logs in: RequestOTP finds or creates the account and   *)
(* saves a one-time code in Redis, VerifyOTP compares and deletes it and   *)
(* issues a session token.  The calls run concurrently and none of them    *)
(* holds a lock: a code is read, compared and deleted in two calls to      *)
(* Redis, and an account is looked up and inserted in two to Postgres.     *)
(*                                                                         *)
(* customers.email is CITEXT and the key otp:{email} is not: two spellings *)
(* of an address share the account and not the code.                       *)
(***************************************************************************)
CONSTANTS
    Spellings,   \* spellings of the customer's address
    Requests,    \* RequestOTP calls; call r generates the code r
    Verifies,    \* VerifyOTP calls
    Email,       \* the spelling in a call
    None         \* no code, no account

ASSUME EmailAssumption == Email \in [Requests \cup Verifies -> Spellings]
ASSUME NoneAssumption  == None \notin Requests
ASSUME CallsAssumption == Requests \cap Verifies = {}

VARIABLES
    req,        \* each request: "none", "insert", "save", "sent", "failed"
    ver,        \* each verification: "none", "refused", "del", "load", "done", "failed"
    code,       \* the code a verification presents
    account,    \* customers: the request that inserted the row
    otp,        \* Redis otp:{email}
    session,    \* the account a verification's token is for
    latest,     \* history: the last code saved for each spelling
    expired,    \* history: codes whose 10 minutes passed, or that Redis lost
    kept,       \* history: verifications whose DEL failed
    overlap     \* history: pairs of a verification between GET and DEL with another
                \* such verification, or with a request that saved meanwhile

histVars == <<latest, expired, kept, overlap>>
vars == <<req, ver, code, account, otp, session, histVars>>

Init ==
    /\ req = [r \in Requests |-> "none"]
    /\ ver = [v \in Verifies |-> "none"]
    /\ code = [v \in Verifies |-> None]
    /\ account = None
    /\ otp = [e \in Spellings |-> None]
    /\ session = [v \in Verifies |-> None]
    /\ latest = [e \in Spellings |-> None]
    /\ expired = {} /\ kept = {} /\ overlap = {}

\* Verifications that have found their code and not yet deleted it.
Deleting(e) == {v \in Verifies : ver[v] = "del" /\ Email[v] = e}

-----------------------------------------------------------------------------
(* RequestOTP: GetOrCreate, generateOTP, Save.  An error ends the call.     *)

GotoReq(r, step) == req' = [req EXCEPT ![r] = step]

GetByEmail(r) ==
    /\ req[r] = "none"
    /\ \/ account = None /\ GotoReq(r, "insert")
       \/ account # None /\ GotoReq(r, "save")
       \/ GotoReq(r, "failed")
    /\ UNCHANGED <<ver, code, account, otp, session, histVars>>

\* Mutant of Create: the column is not UNIQUE, and the later row is found.
CreateAgain(r) ==
    /\ req[r] = "insert"
    /\ account' = r
    /\ GotoReq(r, "save")
    /\ UNCHANGED <<ver, code, otp, session, histVars>>

\* The UNIQUE column: a concurrent first request makes this one fail.  The reply
\* to an INSERT may be lost.
Create(r) ==
    /\ req[r] = "insert"
    /\ \/ account = None /\ account' = r /\ GotoReq(r, "save")
       \/ account = None /\ account' = r /\ GotoReq(r, "failed")
       \/ UNCHANGED account /\ GotoReq(r, "failed")
    /\ UNCHANGED <<ver, code, otp, session, histVars>>

\* Mutant of SetEX: key and value are swapped.
SetEXSwapped(r) == otp' = [otp EXCEPT ![Email[r]] = Email[r]]

\* SET otp:{email}: the code of an earlier request is overwritten.
SetEX(r) == otp' = [otp EXCEPT ![Email[r]] = r]

\* The code is handed out only if Redis has answered.
Save(r) ==
    /\ req[r] = "save"
    /\ \/ /\ SetEX(r)
          /\ GotoReq(r, "sent") \/ GotoReq(r, "failed")
          /\ latest' = [latest EXCEPT ![Email[r]] = r]
          /\ overlap' = overlap \cup {{v, r} : v \in Deleting(Email[r])}
       \/ /\ GotoReq(r, "failed")
          /\ UNCHANGED <<otp, latest, overlap>>
    /\ UNCHANGED <<ver, code, account, session, expired, kept>>

-----------------------------------------------------------------------------
(* VerifyOTP: Verify (GET, compare, DEL), GetByEmail, Generate.             *)

GotoVer(v, step) == ver' = [ver EXCEPT ![v] = step]

\* Mutant of Get: the code is taken out of Redis before it is compared.
GetDel(v, r) ==
    /\ ver[v] = "none" /\ req[r] = "sent"
    /\ code' = [code EXCEPT ![v] = r]
    /\ GotoVer(v, IF otp[Email[v]] = r THEN "load" ELSE "refused")
    /\ otp' = [otp EXCEPT ![Email[v]] = None]
    /\ UNCHANGED <<req, account, session, histVars>>

\* A code that was sent is presented, with any spelling; it is compared with the
\* stored one, if there is one and Redis answers.
Get(v, r) ==
    /\ ver[v] = "none" /\ req[r] = "sent"
    /\ code' = [code EXCEPT ![v] = r]
    /\ \/ /\ otp[Email[v]] = r /\ GotoVer(v, "del")
          /\ overlap' = overlap \cup {{v, w} : w \in Deleting(Email[v])}
       \/ GotoVer(v, "refused") /\ UNCHANGED overlap
    /\ UNCHANGED <<req, account, otp, session, latest, expired, kept>>

\* Mutant of Del: the code stays until it expires.
DelNothing(v) ==
    /\ ver[v] = "del"
    /\ GotoVer(v, "load")
    /\ UNCHANGED <<req, code, account, otp, session, histVars>>

\* The key is deleted whatever it holds by now; an error is ignored.
Del(v) ==
    /\ ver[v] = "del"
    /\ GotoVer(v, "load")
    /\ \/ otp' = [otp EXCEPT ![Email[v]] = None] /\ UNCHANGED kept
       \/ kept' = kept \cup {v} /\ UNCHANGED otp
    /\ UNCHANGED <<req, code, account, session, latest, expired, overlap>>

\* The token is made for the account of the address, or the call fails.
Generate(v) ==
    /\ ver[v] = "load"
    /\ \/ account # None /\ session' = [session EXCEPT ![v] = account] /\ GotoVer(v, "done")
       \/ UNCHANGED session /\ GotoVer(v, "failed")
    /\ UNCHANGED <<req, code, account, otp, histVars>>

\* The TTL, or a loss of Redis' data.
Expire(e) ==
    /\ otp[e] # None
    /\ expired' = expired \cup {otp[e]}
    /\ otp' = [otp EXCEPT ![e] = None]
    /\ UNCHANGED <<req, ver, code, account, session, latest, kept, overlap>>

Next ==
    \/ \E r \in Requests : GetByEmail(r) \/ Create(r) \/ Save(r)
    \/ \E v \in Verifies : (\E r \in Requests : Get(v, r)) \/ Del(v) \/ Generate(v)
    \/ \E e \in Spellings : Expire(e)

Spec == Init /\ [][Next]_vars

-----------------------------------------------------------------------------
(* Properties.                                                              *)

\* Verifications that found their code in Redis.
Accepted == {v \in Verifies : ver[v] \in {"del", "load", "done", "failed"}}

\* Every variable stays in its set.
TypeOK ==
    /\ req \in [Requests -> {"none", "insert", "save", "sent", "failed"}]
    /\ ver \in [Verifies -> {"none", "refused", "del", "load", "done", "failed"}]
    /\ code \in [Verifies -> Requests \cup {None}]
    /\ account \in Requests \cup {None}
    /\ otp \in [Spellings -> Requests \cup {None}]
    /\ session \in [Verifies -> Requests \cup {None}]
    /\ latest \in [Spellings -> Requests \cup {None}]
    /\ expired \subseteq Requests /\ kept \subseteq Verifies
    /\ overlap \subseteq SUBSET (Requests \cup Verifies)

\* A code logs in twice only if the second verification read it before the first
\* had deleted it, or a DEL failed.
UsedOnce ==
    \A v, w \in Accepted :
        v # w /\ code[v] = code[w] => {v, w} \in overlap \/ v \in kept \/ w \in kept

\* The code that was saved last can be used, until it is used or expires: wrong
\* and earlier codes do not cost it, except for the verification of an earlier
\* code that had read it before this one was saved, and deletes this one.
CodeSurvives ==
    \A e \in Spellings :
        \/ latest[e] \in {None, otp[e]} \cup expired
        \/ \E v \in Verifies : v \in Accepted /\ code[v] = latest[e]
        \/ \E v \in Verifies : {v, latest[e]} \in overlap

\* A code is stored and accepted only for a customer who has an account, and no
\* INSERT of a concurrent first request replaces it: every session handed out is
\* of the account that the address leads to now, however it was spelled.
OneAccount ==
    /\ Accepted # {} \/ (\E e \in Spellings : otp[e] # None) => account # None
    /\ \A v \in Verifies : session[v] \in {None, account}
==============================================================================
