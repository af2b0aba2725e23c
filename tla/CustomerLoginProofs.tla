------------------------- MODULE CustomerLoginProofs -------------------------
(***************************************************************************)
(* Proofs about CustomerLogin, for every number of spellings, requests and *)
(* verifications.                                                          *)
(***************************************************************************)
EXTENDS CustomerLogin, TLAPS

\* Every step of a call, and every expiry, keeps every variable in its set.
LEMMA TypeStep == TypeOK /\ [Next]_vars => TypeOK'
<1> SUFFICES ASSUME TypeOK, [Next]_vars PROVE TypeOK'
  OBVIOUS
<1> USE EmailAssumption DEF TypeOK, histVars
<1>1. ASSUME NEW r \in Requests, GetByEmail(r) PROVE TypeOK'
  BY <1>1 DEF GetByEmail, GotoReq
<1>2. ASSUME NEW r \in Requests, Create(r) PROVE TypeOK'
  BY <1>2 DEF Create, GotoReq
<1>3. ASSUME NEW r \in Requests, Save(r) PROVE TypeOK'
  <2>1. {{v, r} : v \in Deleting(Email[r])} \subseteq SUBSET (Requests \cup Verifies)
    BY DEF Deleting
  <2> QED
    BY <1>3, <2>1 DEF Save, SetEX, GotoReq
<1>4. ASSUME NEW v \in Verifies, NEW r \in Requests, Get(v, r) PROVE TypeOK'
  <2>1. {{v, w} : w \in Deleting(Email[v])} \subseteq SUBSET (Requests \cup Verifies)
    BY DEF Deleting
  <2> QED
    BY <1>4, <2>1 DEF Get, GotoVer
<1>5. ASSUME NEW v \in Verifies, Del(v) \/ Generate(v) PROVE TypeOK'
  BY <1>5 DEF Del, Generate, GotoVer
<1>6. ASSUME NEW e \in Spellings, Expire(e) PROVE TypeOK'
  BY <1>6 DEF Expire
<1>7. CASE UNCHANGED vars
  BY <1>7 DEF vars
<1> QED
  BY <1>1, <1>2, <1>3, <1>4, <1>5, <1>6, <1>7 DEF Next

\* TypeOK is an invariant of the login.
THEOREM TypeCorrect == Spec => []TypeOK
<1>1. Init => TypeOK
  BY DEF Init, TypeOK
<1>2. TypeOK /\ [Next]_vars => TypeOK'
  BY TypeStep
<1> QED
  BY <1>1, <1>2, PTL DEF Spec

-----------------------------------------------------------------------------
(* Codes.                                                                   *)

\* A stored code is the last one saved for its spelling and its request is over;
\* an accepted code was sent, so it will not be saved again.
StoredInv ==
    /\ \A e \in Spellings : otp[e] # None =>
          latest[e] = otp[e] /\ Email[otp[e]] = e /\ req[otp[e]] \in {"sent", "failed"}
    /\ \A v \in Accepted : code[v] # None /\ req[code[v]] = "sent" /\ Email[code[v]] = Email[v]

\* What a verification did, or may still do, to the key: after a DEL that did
\* not fail its code is gone for good; before the DEL the key holds its code,
\* nothing, or a code saved meanwhile.
DeletedInv ==
    /\ \A v \in Accepted : ver[v] # "del" /\ v \notin kept => otp[Email[v]] # code[v]
    /\ \A v \in Verifies : ver[v] = "del" =>
          otp[Email[v]] \in {None, code[v]} \/ {v, otp[Email[v]]} \in overlap

CodeInv == StoredInv /\ DeletedInv /\ UsedOnce /\ CodeSurvives

\* Saving a code keeps CodeInv.
LEMMA SaveStep == ASSUME TypeOK, CodeInv, NEW r \in Requests, Save(r) PROVE CodeInv'
<1> USE EmailAssumption, NoneAssumption DEF TypeOK, histVars, CodeInv, Accepted
<1>1. Accepted' = Accepted /\ code' = code /\ ver' = ver /\ kept' = kept /\ expired' = expired
  BY DEF Save
<1>2. req[r] = "save" /\ req' \in [Requests -> {"none", "insert", "save", "sent", "failed"}]
      /\ req'[r] \in {"sent", "failed"} /\ \A q \in Requests : q # r => req'[q] = req[q]
  BY DEF Save, GotoReq
<1>3. CASE UNCHANGED <<otp, latest, overlap>>
  <2>1. StoredInv'
    BY <1>1, <1>2, <1>3 DEF StoredInv
  <2>2. DeletedInv' /\ UsedOnce' /\ CodeSurvives'
    BY <1>1, <1>3 DEF DeletedInv, UsedOnce, CodeSurvives
  <2> QED
    BY <2>1, <2>2
<1>4. CASE /\ otp' = [otp EXCEPT ![Email[r]] = r]
           /\ latest' = [latest EXCEPT ![Email[r]] = r]
           /\ overlap' = overlap \cup {{v, r} : v \in Deleting(Email[r])}
  <2>1. \A v \in Accepted : code[v] \in Requests /\ code[v] # r
    BY <1>2 DEF StoredInv
  <2>2. StoredInv'
    BY <1>1, <1>2, <1>4, <2>1 DEF StoredInv
  <2>3. DeletedInv'
    <3>1. ASSUME NEW v \in Accepted, ver[v] # "del", v \notin kept
          PROVE  otp'[Email[v]] # code[v]
      BY <1>4, <2>1, <3>1 DEF DeletedInv
    <3>2. ASSUME NEW v \in Verifies, ver[v] = "del"
          PROVE  otp'[Email[v]] \in {None, code[v]} \/ {v, otp'[Email[v]]} \in overlap'
      <4>1. CASE Email[v] = Email[r]
        <5>1. v \in Deleting(Email[r])
          BY <3>2, <4>1 DEF Deleting
        <5>2. otp'[Email[v]] = r
          BY <1>4, <4>1
        <5> QED
          BY <1>4, <5>1, <5>2
      <4>2. CASE Email[v] # Email[r]
        BY <1>4, <3>2, <4>2 DEF DeletedInv
      <4> QED
        BY <4>1, <4>2
    <3> QED
      BY <1>1, <3>1, <3>2 DEF DeletedInv
  <2>4. UsedOnce'
    BY <1>1, <1>4 DEF UsedOnce
  <2>5. CodeSurvives'
    BY <1>1, <1>4 DEF CodeSurvives
  <2> QED
    BY <2>2, <2>3, <2>4, <2>5
<1> QED
  BY <1>3, <1>4 DEF Save, SetEX

\* Reading a code keeps CodeInv: a verification that found the same code before
\* is still about to delete it, or failed to.
LEMMA GetStep ==
  ASSUME TypeOK, CodeInv, NEW v \in Verifies, NEW r \in Requests, Get(v, r) PROVE CodeInv'
<1> USE EmailAssumption, NoneAssumption DEF TypeOK, histVars, CodeInv
<1>1. /\ UNCHANGED <<req, otp, latest, expired, kept>>
      /\ v \notin Accepted /\ code' = [code EXCEPT ![v] = r] /\ req[r] = "sent"
  BY DEF Get, Accepted
<1>2. CASE GotoVer(v, "refused") /\ UNCHANGED overlap
  <2>1. Accepted' = Accepted /\ (\A w \in Accepted : code'[w] = code[w] /\ ver'[w] = ver[w])
        /\ ver' = [ver EXCEPT ![v] = "refused"]
    BY <1>1, <1>2 DEF GotoVer, Accepted
  <2>2. \A w \in Verifies : ver'[w] = "del" => ver[w] = "del" /\ w \in Accepted
    BY <2>1 DEF Accepted
  <2>3. StoredInv'
    BY <1>1, <2>1 DEF StoredInv
  <2>4. DeletedInv'
    BY <1>1, <1>2, <2>1, <2>2 DEF DeletedInv
  <2>5. UsedOnce'
    BY <1>1, <1>2, <2>1 DEF UsedOnce
  <2>6. CodeSurvives'
    BY <1>1, <1>2, <2>1 DEF CodeSurvives
  <2> QED
    BY <2>3, <2>4, <2>5, <2>6
<1>3. CASE /\ otp[Email[v]] = r /\ GotoVer(v, "del")
           /\ overlap' = overlap \cup {{v, w} : w \in Deleting(Email[v])}
  <2>1. Accepted' = Accepted \cup {v} /\ code'[v] = r /\ ver'[v] = "del"
        /\ (\A w \in Verifies : w # v => code'[w] = code[w] /\ ver'[w] = ver[w])
    BY <1>1, <1>3 DEF GotoVer, Accepted
  <2>2. \A w \in Accepted : w \in Verifies /\ w # v
    BY <1>1 DEF Accepted
  <2>3. StoredInv'
    BY <1>1, <1>3, <2>1, <2>2 DEF StoredInv
  <2>4. DeletedInv'
    BY <1>1, <1>3, <2>1, <2>2 DEF DeletedInv
  <2>5. ASSUME NEW w \in Accepted, code[w] = r PROVE {v, w} \in overlap' \/ w \in kept
    <3>1. Email[w] = Email[v]
      BY <1>3, <2>5 DEF StoredInv
    <3>2. CASE ver[w] = "del"
      BY <1>3, <2>2, <3>1, <3>2 DEF Deleting
    <3>3. CASE ver[w] # "del"
      BY <1>3, <2>5, <3>1, <3>3 DEF DeletedInv
    <3> QED
      BY <3>2, <3>3
  <2>6. UsedOnce'
    <3> SUFFICES ASSUME NEW a \in Accepted', NEW b \in Accepted', a # b, code'[a] = code'[b]
                 PROVE  {a, b} \in overlap' \/ a \in kept' \/ b \in kept'
      BY DEF UsedOnce
    <3>1. CASE a = v
      BY <1>1, <2>1, <2>2, <2>5, <3>1
    <3>2. CASE b = v
      <4>1. {v, a} = {a, b}
        BY <3>2
      <4> QED
        BY <1>1, <2>1, <2>2, <2>5, <3>2, <4>1
    <3>3. CASE a # v /\ b # v
      BY <1>1, <1>3, <2>1, <2>2, <3>3 DEF UsedOnce
    <3> QED
      BY <3>1, <3>2, <3>3
  <2>7. CodeSurvives'
    BY <1>1, <1>3, <2>1, <2>2 DEF CodeSurvives
  <2> QED
    BY <2>3, <2>4, <2>6, <2>7
<1> QED
  BY <1>2, <1>3 DEF Get

\* Deleting the key keeps CodeInv: what is deleted is the verification's own
\* code, or one that was saved since it was read.
LEMMA DelStep == ASSUME TypeOK, CodeInv, NEW v \in Verifies, Del(v) PROVE CodeInv'
<1> USE EmailAssumption, NoneAssumption DEF TypeOK, histVars, CodeInv
<1>1. /\ UNCHANGED <<req, code, latest, expired, overlap>>
      /\ ver[v] = "del" /\ ver' = [ver EXCEPT ![v] = "load"]
      /\ kept \subseteq kept' /\ v \in Accepted
  BY DEF Del, GotoVer, Accepted
<1>2. Accepted' = Accepted /\ Accepted \subseteq Verifies
  BY <1>1 DEF Accepted
<1>3. \A e \in Spellings : otp'[e] \in {None, otp[e]}
  BY DEF Del
<1>4. \A e \in Spellings : otp'[e] # otp[e] => e = Email[v]
  BY DEF Del
<1>5. v \in kept' \/ otp'[Email[v]] = None
  BY DEF Del
<1>6. StoredInv'
  BY <1>1, <1>2, <1>3 DEF StoredInv
<1>7. DeletedInv'
  <2>1. ASSUME NEW w \in Accepted, ver'[w] # "del", w \notin kept'
        PROVE  otp'[Email[w]] # code[w]
    <3>1. code[w] # None /\ Email[w] \in Spellings
      BY <1>2, <2>1 DEF StoredInv
    <3>2. CASE w = v
      BY <1>5, <2>1, <3>1, <3>2
    <3>3. CASE w # v
      BY <1>1, <1>2, <1>3, <2>1, <3>1, <3>3 DEF DeletedInv
    <3> QED
      BY <3>2, <3>3
  <2>2. ASSUME NEW w \in Verifies, ver'[w] = "del"
        PROVE  otp'[Email[w]] \in {None, code[w]} \/ {w, otp'[Email[w]]} \in overlap
    <3>1. ver[w] = "del" /\ Email[w] \in Spellings
      BY <1>1, <2>2
    <3> QED
      BY <1>3, <3>1 DEF DeletedInv
  <2> QED
    BY <1>1, <1>2, <2>1, <2>2 DEF DeletedInv
<1>8. UsedOnce'
  BY <1>1, <1>2 DEF UsedOnce
<1>9. CodeSurvives'
  <2> SUFFICES ASSUME NEW e \in Spellings
               PROVE  \/ latest[e] \in {None, otp'[e]} \cup expired
                      \/ \E w \in Verifies : w \in Accepted /\ code[w] = latest[e]
                      \/ \E w \in Verifies : {w, latest[e]} \in overlap
    BY <1>1, <1>2 DEF CodeSurvives
  <2>1. CASE otp'[e] = otp[e]
    BY <2>1 DEF CodeSurvives
  <2>2. CASE otp'[e] # otp[e] /\ latest[e] = otp[e]
    <3>1. e = Email[v] /\ v \in Accepted /\ v \in Verifies
      BY <1>1, <1>4, <2>2
    <3>2. otp[e] \in {None, code[v]} \/ {v, otp[e]} \in overlap
      BY <1>1, <3>1 DEF DeletedInv
    <3>3. CASE otp[e] = None
      BY <2>2, <3>3
    <3>4. CASE otp[e] = code[v]
      BY <2>2, <3>1, <3>4
    <3>5. CASE {v, otp[e]} \in overlap
      BY <2>2, <3>1, <3>5
    <3> QED
      BY <3>2, <3>3, <3>4, <3>5
  <2>3. CASE latest[e] # otp[e]
    BY <2>3 DEF CodeSurvives
  <2> QED
    BY <2>1, <2>2, <2>3
<1> QED
  BY <1>6, <1>7, <1>8, <1>9

\* Every step keeps CodeInv.
LEMMA CodeStep == TypeOK /\ CodeInv /\ [Next]_vars => CodeInv'
<1> SUFFICES ASSUME TypeOK, CodeInv, [Next]_vars PROVE CodeInv'
  OBVIOUS
<1> USE EmailAssumption, NoneAssumption DEF histVars
<1>1. ASSUME NEW r \in Requests, GetByEmail(r) \/ Create(r) PROVE CodeInv'
  <2>1. /\ UNCHANGED <<ver, code, otp, histVars>>
        /\ \A q \in Requests : req[q] \in {"sent", "failed"} => req'[q] = req[q]
    BY <1>1 DEF GetByEmail, Create, GotoReq, TypeOK
  <2>2. Accepted' = Accepted
    BY <2>1 DEF Accepted
  <2>3. StoredInv'
    BY <2>1, <2>2 DEF StoredInv, CodeInv, Accepted, TypeOK
  <2>4. DeletedInv' /\ UsedOnce' /\ CodeSurvives'
    BY <2>1, <2>2 DEF DeletedInv, UsedOnce, CodeSurvives, CodeInv
  <2> QED
    BY <2>3, <2>4 DEF CodeInv
<1>2. ASSUME NEW r \in Requests, Save(r) PROVE CodeInv'
  BY <1>2, SaveStep
<1>3. ASSUME NEW v \in Verifies, NEW r \in Requests, Get(v, r) PROVE CodeInv'
  BY <1>3, GetStep
<1>4. ASSUME NEW v \in Verifies, Del(v) PROVE CodeInv'
  BY <1>4, DelStep
<1>5. ASSUME NEW v \in Verifies, Generate(v) PROVE CodeInv'
  <2>1. /\ UNCHANGED <<req, code, otp, histVars>> /\ Accepted' = Accepted
        /\ \A w \in Verifies : ver'[w] = "del" <=> ver[w] = "del"
    BY <1>5 DEF Generate, GotoVer, Accepted, TypeOK
  <2>2. StoredInv' /\ UsedOnce' /\ CodeSurvives'
    BY <2>1 DEF StoredInv, UsedOnce, CodeSurvives, CodeInv
  <2>3. DeletedInv'
    BY <2>1 DEF DeletedInv, CodeInv, Accepted
  <2> QED
    BY <2>2, <2>3 DEF CodeInv
<1>6. ASSUME NEW e \in Spellings, Expire(e) PROVE CodeInv'
  <2>1. /\ UNCHANGED <<req, ver, code, latest, kept, overlap>> /\ Accepted' = Accepted
        /\ expired' = expired \cup {otp[e]} /\ otp' = [otp EXCEPT ![e] = None]
    BY <1>6 DEF Expire, Accepted
  <2>2. StoredInv'
    BY <2>1 DEF StoredInv, CodeInv, TypeOK
  <2>3. DeletedInv'
    BY <2>1 DEF DeletedInv, StoredInv, CodeInv, TypeOK, Accepted
  <2>4. UsedOnce'
    BY <2>1 DEF UsedOnce, CodeInv
  <2>5. CodeSurvives'
    BY <2>1 DEF CodeSurvives, CodeInv, TypeOK
  <2> QED
    BY <2>2, <2>3, <2>4, <2>5 DEF CodeInv
<1>7. CASE UNCHANGED vars
  BY <1>7 DEF vars, CodeInv, StoredInv, DeletedInv, UsedOnce, CodeSurvives, Accepted
<1> QED
  BY <1>1, <1>2, <1>3, <1>4, <1>5, <1>6, <1>7 DEF Next

\* A code logs in twice only through an overlap of GET and DEL or a failed DEL,
\* and the last code saved is lost only by use, by expiry or by such an overlap.
THEOREM CodesCorrect == Spec => [](UsedOnce /\ CodeSurvives)
<1>1. Init => CodeInv
  BY EmailAssumption
     DEF Init, CodeInv, StoredInv, DeletedInv, UsedOnce, CodeSurvives, Accepted
<1>2. TypeOK /\ CodeInv /\ [Next]_vars => CodeInv'
  BY CodeStep
<1>3. CodeInv => UsedOnce /\ CodeSurvives
  BY DEF CodeInv
<1> QED
  BY <1>1, <1>2, <1>3, TypeCorrect, PTL DEF Spec

-----------------------------------------------------------------------------
(* The account.                                                             *)

\* A request that goes on to save a code has seen the account or inserted it.
AccountInv ==
    /\ OneAccount
    /\ \A r \in Requests : req[r] \in {"save", "sent"} => account # None

\* Stored codes, accepted codes and sessions are all of one account.
THEOREM OneAccountCorrect == Spec => []OneAccount
<1>1. Init => AccountInv
  BY DEF Init, AccountInv, OneAccount, Accepted
<1>2. ASSUME TypeOK, AccountInv, [Next]_vars PROVE AccountInv'
  <2> USE EmailAssumption, NoneAssumption
      DEF AccountInv, OneAccount, Accepted, TypeOK, histVars
  <2>1. ASSUME NEW r \in Requests, GetByEmail(r) \/ Create(r) PROVE AccountInv'
    BY <1>2, <2>1 DEF GetByEmail, Create, GotoReq
  <2>2. ASSUME NEW r \in Requests, Save(r) PROVE AccountInv'
    BY <1>2, <2>2 DEF Save, SetEX, GotoReq
  <2>3. ASSUME NEW v \in Verifies, NEW r \in Requests, Get(v, r) PROVE AccountInv'
    BY <1>2, <2>3 DEF Get, GotoVer
  <2>4. ASSUME NEW v \in Verifies, Del(v) \/ Generate(v) PROVE AccountInv'
    BY <1>2, <2>4 DEF Del, Generate, GotoVer
  <2>5. ASSUME NEW e \in Spellings, Expire(e) PROVE AccountInv'
    BY <1>2, <2>5 DEF Expire
  <2>6. CASE UNCHANGED vars
    BY <1>2, <2>6 DEF vars
  <2> QED
    BY <1>2, <2>1, <2>2, <2>3, <2>4, <2>5, <2>6 DEF Next
<1>3. AccountInv => OneAccount
  BY DEF AccountInv
<1> QED
  BY <1>1, <1>2, <1>3, TypeCorrect, PTL DEF Spec
==============================================================================
