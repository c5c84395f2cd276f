---------------------------- MODULE AccessProofs ----------------------------
(***************************************************************************)
(* Proofs about Sessions, Access and Tenancy, the parts every request goes *)
(* through, for any accounts, users, sessions, clients, calls and requests *)
(* that overlap, and any values of the bounds: who is let in, who may      *)
(* write, and whose rows are seen.                                         *)
(***************************************************************************)
EXTENDS Access, Tenancy, TLAPS

(***************************************************************************)
(* Sessions: idle and refused sessions stay out, for any inactivity period.*)
(***************************************************************************)

SessionRecord == [state : {"none", "active", "revoked"}, last : 0..MaxTime]
RequestRecord == [pc : {"idle", "check", "touch", "revoke"}, token : Tokens \union {NoToken},
                  last : 0..MaxTime, idle : 0..MaxTime, after : BOOLEAN]

\* No session was used in the future.
LastIsPast == \A t \in Tokens : session[t].last <= now

\* A request under way has a session that was not refused before it began; what
\* it remembers of that session's idleness bounds what it finds out from the clock.
RequestFits(r) ==
  /\ r.pc # "idle" => r.token \in Tokens /\ r.after = FALSE
  /\ r.pc = "check" => r.idle + r.last <= now
  /\ r.pc = "touch" => r.idle <= Inactivity

IInv == TypeOK /\ LastIsPast /\ \A q \in Requests : RequestFits(req[q])

-----------------------------------------------------------------------------
LEMMA InitIInv == Init => IInv
<1> SUFFICES ASSUME Init PROVE IInv
  OBVIOUS
<1> USE SessionsAssumption
<1>1. TypeOK
  BY DEF Init, TypeOK, NoSession, IdleReq
<1>2. LastIsPast
  BY DEF Init, LastIsPast, NoSession
<1>3. \A q \in Requests : RequestFits(req[q])
  BY DEF Init, IdleReq, RequestFits
<1>4. QED
  BY <1>1, <1>2, <1>3 DEF IInv

\* A request that is replaced by a fitting record leaves all of them fitting.
LEMMA OneRequestFits ==
  ASSUME TypeOK, \A q \in Requests : RequestFits(req[q]), UNCHANGED now,
         NEW q \in Requests, NEW r \in RequestRecord, RequestFits(r),
         req' = [req EXCEPT ![q] = r]
  PROVE  req' \in [Requests -> RequestRecord] /\ \A p \in Requests : RequestFits(req[p])'
<1>1. req \in [Requests -> RequestRecord]
  BY DEF TypeOK, RequestRecord
<1>2. QED
  BY <1>1 DEF RequestFits

\* The request that is over fits at any time.
LEMMA IdleFits == IdleReq \in RequestRecord /\ RequestFits(IdleReq)
BY SessionsAssumption DEF IdleReq, RequestRecord, RequestFits

LEMMA TickStep ==
  ASSUME IInv, Tick
  PROVE  IInv'
<1> USE SessionsAssumption
<1>1. now \in Nat /\ now' = now + 1 /\ now' \in 0..MaxTime
  BY DEF IInv, TypeOK, Tick
<1>2. TypeOK'
  BY <1>1 DEF IInv, TypeOK, Tick
<1>3. LastIsPast'
  <2>1. ASSUME NEW t \in Tokens PROVE session[t].last \in Nat /\ session[t].last <= now
    BY DEF IInv, TypeOK, LastIsPast
  <2>2. QED
    BY <1>1, <2>1 DEF Tick, LastIsPast
<1>4. \A q \in Requests : RequestFits(req[q])'
  <2>1. ASSUME NEW q \in Requests
        PROVE  req[q].idle \in Nat /\ req[q].last \in Nat /\ RequestFits(req[q])
    BY DEF IInv, TypeOK
  <2>2. ASSUME NEW q \in Requests
        PROVE  RequestFits(req[q])'
    <3>1. req'[q] = req[q]
      BY DEF Tick
    <3>2. req[q].idle + req[q].last <= now => req[q].idle + req[q].last <= now'
      BY <1>1, <2>1
    <3>3. QED
      BY <2>1, <3>1, <3>2 DEF RequestFits
  <2>3. QED
    BY <2>2
<1>5. QED
  BY <1>2, <1>3, <1>4 DEF IInv

\* A step on one session that leaves its last activity in the past, and forgets
\* no refusal.
LEMMA SessionStep ==
  ASSUME IInv, NEW t \in Tokens, NEW s \in SessionRecord, s.last <= now,
         session' = [session EXCEPT ![t] = s],
         t \in refused' => s.state = "revoked",
         refused' \subseteq refused \union {t}, UNCHANGED <<now, faults>>,
         req' \in [Requests -> RequestRecord], \A q \in Requests : RequestFits(req[q])'
  PROVE  IInv'
<1>1. session \in [Tokens -> SessionRecord]
  BY DEF IInv, TypeOK, SessionRecord
<1>2. session' \in [Tokens -> SessionRecord]
  BY <1>1
<1>3. LastIsPast'
  BY <1>1 DEF IInv, LastIsPast
<1>4. refused' \subseteq {u \in Tokens : session'[u].state = "revoked"}
  <2>1. ASSUME NEW u \in refused'
        PROVE  u \in Tokens /\ session'[u].state = "revoked"
    <3>1. CASE u = t
      BY <1>1, <2>1, <3>1
    <3>2. CASE u # t
      <4>1. u \in refused
        BY <2>1, <3>2
      <4>2. u \in Tokens /\ session[u].state = "revoked"
        BY <4>1 DEF IInv, TypeOK
      <4>3. QED
        BY <1>1, <3>2, <4>2
    <3>3. QED
      BY <3>1, <3>2
  <2>2. QED
    BY <2>1
<1>5. TypeOK'
  BY <1>2, <1>4 DEF IInv, TypeOK, SessionRecord, RequestRecord
<1>6. QED
  BY <1>3, <1>5 DEF IInv

\* Login and logout.
LEMMA OwnerStep ==
  ASSUME IInv, NEW t \in Tokens, Login(t) \/ Logout(t)
  PROVE  IInv'
<1>1. now \in 0..MaxTime /\ session[t] \in SessionRecord /\ session[t].last <= now /\ (t \in refused => session[t].state = "revoked")
  BY DEF IInv, TypeOK, LastIsPast, SessionRecord
<1>2. UNCHANGED <<now, req, refused, faults>>
  BY DEF Login, Logout
<1>3. req' \in [Requests -> RequestRecord] /\ \A q \in Requests : RequestFits(req[q])'
  BY <1>2 DEF IInv, TypeOK, RequestRecord, RequestFits
<1>4. CASE Login(t)
  <2> DEFINE s == [state |-> "active", last |-> now]
  <2>1. s \in SessionRecord /\ s.last <= now
    BY <1>1 DEF SessionRecord
  <2>2. t \notin refused
    BY <1>1, <1>4 DEF Login
  <2>3. session' = [session EXCEPT ![t] = s]
    BY <1>4 DEF Login
  <2> HIDE DEF s
  <2>4. QED
    BY <1>2, <1>3, <2>1, <2>2, <2>3, SessionStep
<1>5. CASE Logout(t)
  <2> DEFINE s == [session[t] EXCEPT !.state = "revoked"]
  <2>1. s \in SessionRecord /\ s.last <= now /\ s.state = "revoked"
    BY <1>1 DEF SessionRecord
  <2>2. session' = [session EXCEPT ![t] = s]
    BY <1>5 DEF Logout
  <2> HIDE DEF s
  <2>3. QED
    BY <1>2, <1>3, <2>1, <2>2, SessionStep
<1>6. QED
  BY <1>4, <1>5

\* A request begins: its session is active, so it was not refused.
LEMMA FindStep ==
  ASSUME IInv, NEW q \in Requests, NEW t \in Tokens, Find(q, t)
  PROVE  IInv'
<1> DEFINE r == [pc |-> "check", token |-> t, last |-> session[t].last,
                 idle |-> now - session[t].last, after |-> t \in refused]
<1>1. t \notin refused
  BY DEF IInv, TypeOK, Find, Findable
<1>2. session[t].last \in 0..MaxTime /\ now \in 0..MaxTime /\ session[t].last <= now
  BY DEF IInv, TypeOK, LastIsPast
<1>3. now - session[t].last \in 0..MaxTime /\ (now - session[t].last) + session[t].last <= now
  BY <1>2, SessionsAssumption
<1>4. (t \in refused) = FALSE
  BY <1>1
<1>5. r \in RequestRecord /\ RequestFits(r)
  BY <1>2, <1>3, <1>4 DEF RequestRecord, RequestFits
<1>6. req' = [req EXCEPT ![q] = r]
  BY DEF Find
<1> HIDE DEF r
<1>7. UNCHANGED <<now, session, refused, faults>>
  BY DEF Find
<1>8. req' \in [Requests -> RequestRecord] /\ \A p \in Requests : RequestFits(req[p])'
  BY <1>5, <1>6, <1>7, OneRequestFits DEF IInv
<1>9. TypeOK' /\ LastIsPast'
  BY <1>7, <1>8 DEF IInv, TypeOK, LastIsPast, RequestRecord
<1>10. QED
  BY <1>8, <1>9 DEF IInv

\* The clock has only moved on since the session was read, so a session that was
\* idle for too long then is found to be too old now.
LEMMA CheckStep ==
  ASSUME IInv, NEW q \in Requests, Check(q)
  PROVE  IInv'
<1> USE SessionsAssumption
<1> DEFINE to == IF TooOld(req[q].last) THEN "revoke" ELSE "touch"
<1> DEFINE r == [req[q] EXCEPT !.pc = to]
<1>1. req[q] \in RequestRecord /\ RequestFits(req[q]) /\ req[q].pc = "check" /\ now \in 0..MaxTime
  BY DEF IInv, TypeOK, RequestRecord, Check
<1>2. r = [pc |-> to, token |-> req[q].token, last |-> req[q].last,
           idle |-> req[q].idle, after |-> req[q].after]
  BY <1>1 DEF RequestRecord
<1>3. to = "touch" => req[q].idle <= Inactivity
  BY <1>1 DEF RequestRecord, RequestFits, TooOld
<1>4. req[q].token \in Tokens /\ req[q].after = FALSE
  BY <1>1 DEF RequestFits
<1>5. to \in {"revoke", "touch"}
  OBVIOUS
<1>6. req' = [req EXCEPT ![q] = r]
  BY DEF Check
<1> HIDE DEF to, r
<1>7. r \in RequestRecord
  BY <1>1, <1>2, <1>5 DEF RequestRecord
<1>8. RequestFits(r)
  BY <1>2, <1>3, <1>4, <1>5 DEF RequestFits
<1>9. UNCHANGED <<now, session, refused, faults>>
  BY DEF Check
<1>10. req' \in [Requests -> RequestRecord] /\ \A p \in Requests : RequestFits(req[p])'
  BY <1>6, <1>7, <1>8, <1>9, OneRequestFits DEF IInv
<1>11. TypeOK' /\ LastIsPast'
  BY <1>9, <1>10 DEF IInv, TypeOK, LastIsPast, RequestRecord
<1>12. QED
  BY <1>10, <1>11 DEF IInv

\* The end of a request: the session is revoked or its activity refreshed.
LEMMA EndStep ==
  ASSUME IInv, NEW q \in Requests, Revoke(q) \/ Touch(q)
  PROVE  IInv'
<1> DEFINE t == req[q].token
<1>1. t \in Tokens
  BY DEF IInv, RequestFits, Revoke, Touch
<1>2. req' = [req EXCEPT ![q] = IdleReq] /\ UNCHANGED <<now, faults>>
  BY DEF Revoke, Touch
<1>3. req' \in [Requests -> RequestRecord] /\ \A p \in Requests : RequestFits(req[p])'
  BY <1>2, IdleFits, OneRequestFits DEF IInv
<1>4. session[t] \in SessionRecord /\ session[t].last <= now /\ now \in 0..MaxTime
  BY <1>1 DEF IInv, TypeOK, LastIsPast, SessionRecord
<1>5. t \in refused => session[t].state = "revoked"
  BY DEF IInv, TypeOK
<1>6. CASE Revoke(q)
  <2> DEFINE s == [session[t] EXCEPT !.state = "revoked"]
  <2>1. s \in SessionRecord /\ s.last <= now /\ s.state = "revoked"
    BY <1>4 DEF SessionRecord
  <2>2. session' = [session EXCEPT ![t] = s] /\ refused' = refused \union {t}
    BY <1>6 DEF Revoke
  <2> HIDE DEF s, t
  <2>3. QED
    BY <1>1, <1>2, <1>3, <2>1, <2>2, SessionStep
<1>7. CASE Touch(q)
  <2> DEFINE s == [session[t] EXCEPT !.last = now]
  <2>1. s \in SessionRecord /\ s.last <= now /\ s.state = session[t].state
    BY <1>4 DEF SessionRecord
  <2>2. session' = [session EXCEPT ![t] = s] /\ refused' = refused
    BY <1>7 DEF Touch
  <2> HIDE DEF s, t
  <2>3. QED
    BY <1>1, <1>2, <1>3, <1>5, <2>1, <2>2, SessionStep
<1>8. QED
  BY <1>6, <1>7

LEMMA FailStep ==
  ASSUME IInv, NEW Q \in SUBSET Requests, Fail(Q)
  PROVE  IInv'
<1> USE SessionsAssumption
<1>1. req' = [q \in Requests |-> IF q \in Q THEN IdleReq ELSE req[q]]
  BY DEF Fail
<1>2. UNCHANGED <<now, session, refused>> /\ faults' \in 0..MaxFaults
  BY DEF IInv, TypeOK, Fail
<1>3. ASSUME NEW q \in Requests
      PROVE  req'[q] \in RequestRecord /\ RequestFits(req[q])'
  <2>1. req[q] \in RequestRecord /\ RequestFits(req[q])
    BY DEF IInv, TypeOK, RequestRecord
  <2>2. req'[q] = IdleReq \/ req'[q] = req[q]
    BY <1>1
  <2>3. QED
    BY <1>2, <2>1, <2>2, IdleFits DEF RequestFits
<1>4. req' \in [Requests -> RequestRecord]
  BY <1>1, <1>3
<1>5. TypeOK' /\ LastIsPast'
  BY <1>2, <1>4 DEF IInv, TypeOK, LastIsPast, RequestRecord
<1>6. QED
  BY <1>3, <1>5 DEF IInv

LEMMA Invariance == Spec => []IInv
<1>1. ASSUME IInv, [Next]_vars PROVE IInv'
  <2>1. CASE Tick
    BY <1>1, <2>1, TickStep
  <2>2. CASE \E t \in Tokens : Login(t) \/ Logout(t)
    BY <1>1, <2>2, OwnerStep
  <2>3. CASE \E q \in Requests, t \in Tokens : Find(q, t)
    BY <1>1, <2>3, FindStep
  <2>4. CASE \E q \in Requests : Check(q) \/ Revoke(q) \/ Touch(q)
    BY <1>1, <2>4, CheckStep, EndStep
  <2>5. CASE \E Q \in SUBSET Requests \ {{}} : Fail(Q)
    BY <1>1, <2>5, FailStep
  <2>6. CASE UNCHANGED vars
    BY <1>1, <2>6 DEF IInv, TypeOK, LastIsPast, RequestFits, vars
  <2>7. QED
    BY <1>1, <2>1, <2>2, <2>3, <2>4, <2>5, <2>6 DEF Next
<1>2. QED
  BY InitIInv, <1>1, PTL DEF Spec

\* The types of the sessions and requests, and that what was refused is revoked.
THEOREM TypeCorrect == Spec => []TypeOK
<1>1. IInv => TypeOK
  BY DEF IInv
<1>2. QED
  BY Invariance, <1>1, PTL

\* A request whose session had been idle for too long when it began, or had been
\* refused as expired before, is not let through, whatever other requests of that
\* session refresh meanwhile.
THEOREM OnlyLiveEverPass == Spec => OnlyLivePass
<1>1. IInv => \A q \in Requests : req[q].pc = "touch" => req[q].idle <= Inactivity /\ ~req[q].after
  BY DEF IInv, RequestFits
<1>2. IInv /\ [Next]_vars =>
        [\A q \in Requests : Authorised(q) => req[q].idle <= Inactivity /\ ~req[q].after]_vars
  BY <1>1 DEF Authorised
<1>3. QED
  BY Invariance, <1>2, PTL DEF Spec, OnlyLivePass

(***************************************************************************)
(* Access: it implements Sessions, every account has its owner, and        *)
(* restricted accounts are not written to.                                 *)
(***************************************************************************)

\* Who is logged in is a user.
HolderIsUser ==
  \A t \in Tokens : session[t].state = "active" =>
    holder[t] \in Emails /\ user[holder[t]] # NoUser

\* Users belong to accounts there are.
UserHasAccount ==
  \A e \in Emails : user[e] # NoUser => account[user[e].account].status # "none"

\* A registration under way has no account yet, and once it has inserted its rows
\* nobody else has the address.
RegistrationFits(a) ==
  /\ reg[a].pc # "idle" => account[a] = NoAccount
  /\ reg[a].pc = "commit" => /\ user[reg[a].email] = NoUser
                             /\ Pending(reg[a].email) = {a}

\* A request under way is a user's; it is locked only while its account is
\* restricted, and not any more when it has come to its handler.
CallFits(q) ==
  /\ req[q].pc # "idle" => call[q].pc = "validate"
  /\ call[q].pc # "idle" => user[call[q].user] # NoUser
  /\ call[q].locked => account[AccountOf(q)].status = "read_only"
  /\ call[q].pc = "handler" /\ call[q].route = "write" => ~call[q].locked

AInv ==
  /\ AccessTypeOK
  /\ HolderIsUser
  /\ UserHasAccount
  /\ AccountHasOwner
  /\ \A a \in Accounts : RegistrationFits(a)
  /\ \A q \in Requests : CallFits(q)

-----------------------------------------------------------------------------
(* Access implements Sessions. *)

LEMMA InitMaps == AccessInit => Init
BY DEF AccessInit

LEMMA StepMaps == ASSUME [AccessNext]_allVars PROVE [Next]_vars
<1>1. CASE UNCHANGED allVars
  BY <1>1 DEF allVars
<1>2. CASE Tick /\ UNCHANGED accessVars
  BY <1>2 DEF Next
<1>3. ASSUME NEW t \in Tokens,
             (Logout(t) /\ UNCHANGED accessVars) \/ \E e \in Emails : LoginAs(t, e)
      PROVE  Next
  BY <1>3 DEF Next, LoginAs
<1>4. ASSUME NEW a \in Accounts,
             \/ RegisterInsert(a) \/ RegisterCommit(a) \/ RegisterFails(a)
             \/ \E e \in Emails : RegisterFind(a, e) \/ \E role \in Roles \ {"owner"} : AddMember(e, a, role)
             \/ \E s \in {"active", "read_only"} : Bill(a, s)
      PROVE  UNCHANGED vars
  BY <1>4 DEF RegisterInsert, RegisterCommit, RegisterFails, RegisterFind, AddMember, Bill
<1>5. ASSUME NEW q \in Requests,
             \/ \E t \in Tokens, route \in {"write", "billing"} : Begin(q, t, route)
             \/ Validate(q) \/ RequireWrite(q) \/ Write(q) \/ HandlerFails(q)
             \/ \E s \in {"active", "read_only"} : Recover(q, s)
      PROVE  Next \/ UNCHANGED vars
  <2>1. ASSUME NEW t \in Tokens, NEW route \in {"write", "billing"}, Begin(q, t, route)
        PROVE  Next
    BY <2>1 DEF Begin, Next
  <2>2. CASE Validate(q)
    BY <2>2 DEF Validate, Next
  <2>3. CASE RequireWrite(q) \/ Write(q) \/ HandlerFails(q) \/ \E s \in {"active", "read_only"} : Recover(q, s)
    BY <2>3 DEF RequireWrite, Write, HandlerFails, Recover
  <2>4. QED
    BY <1>5, <2>1, <2>2, <2>3
<1>6. ASSUME NEW Q \in SUBSET Requests \ {{}}, ValidationFails(Q)
      PROVE  Next
  BY <1>6 DEF ValidationFails, Next
<1>7. QED
  BY <1>1, <1>2, <1>3, <1>4, <1>5, <1>6 DEF AccessNext

\* Access is Sessions with more around it: whatever is proved of Sessions, that
\* an idle session is refused and that a refusal is final, holds of it too.
THEOREM ImplementsSessions == AccessSpec => Spec
BY InitMaps, StepMaps, PTL DEF AccessSpec, Spec

-----------------------------------------------------------------------------
LEMMA InitAInv == ASSUME AccessInit PROVE AInv
<1> USE DEF AccessInit, Init, NoAccount, NoUser, IdleReg, IdleCall, IdleReq, NoSession
<1>1. AccessTypeOK
  BY DEF AccessTypeOK, Account, User, Reg, Call
<1>2. HolderIsUser /\ UserHasAccount /\ AccountHasOwner
  BY DEF HolderIsUser, UserHasAccount, AccountHasOwner
<1>3. \A a \in Accounts : RegistrationFits(a)
  BY DEF RegistrationFits
<1>4. \A q \in Requests : CallFits(q)
  BY DEF CallFits
<1>5. QED
  BY <1>1, <1>2, <1>3, <1>4 DEF AInv

\* Steps of requests and sessions: nobody is logged in by them.
LEMMA RequestStep ==
  ASSUME AInv, UNCHANGED <<account, user, reg, holder>>,
         \A t \in Tokens : session'[t].state = "active" => session[t].state = "active",
         call' \in [Requests -> Call], \A q \in Requests : CallFits(q)'
  PROVE  AInv'
<1>1. AccessTypeOK'
  BY DEF AInv, AccessTypeOK
<1>2. HolderIsUser' /\ UserHasAccount' /\ AccountHasOwner'
  BY DEF AInv, HolderIsUser, UserHasAccount, AccountHasOwner
<1>3. \A a \in Accounts : RegistrationFits(a)'
  BY DEF AInv, RegistrationFits, Pending
<1>4. QED
  BY <1>1, <1>2, <1>3 DEF AInv

\* One request goes on: its record becomes c and the others stay as they are.
LEMMA OneCallStep ==
  ASSUME AInv, UNCHANGED <<account, user, reg, holder>>,
         \A t \in Tokens : session'[t].state = "active" => session[t].state = "active",
         NEW q \in Requests, NEW c \in Call, call' = [call EXCEPT ![q] = c],
         \A p \in Requests \ {q} : req'[p] = req[p],
         CallFits(q)'
  PROVE  AInv'
<1>1. call \in [Requests -> Call]
  BY DEF AInv, AccessTypeOK
<1>2. call' \in [Requests -> Call]
  BY <1>1
<1>3. ASSUME NEW p \in Requests \ {q} PROVE CallFits(p)'
  <2>1. call'[p] = call[p] /\ req'[p] = req[p] /\ CallFits(p)
    BY <1>1 DEF AInv
  <2>2. QED
    BY <2>1 DEF CallFits, AccountOf
<1>4. QED
  BY <1>2, <1>3, RequestStep

\* The request that is over fits.
LEMMA OverFits ==
  ASSUME NEW q, call'[q] = IdleCall, req'[q].pc = "idle"
  PROVE  CallFits(q)'
BY DEF CallFits, IdleCall

LEMMA IdleCallIsCall == IdleCall \in Call
BY DEF Call

LEMMA BeginStep ==
  ASSUME TypeOK, AInv, NEW q \in Requests, NEW t \in Tokens, NEW route \in {"write", "billing"}, Begin(q, t, route)
  PROVE  AInv'
<1> DEFINE c == [pc |-> "validate", route |-> route, user |-> holder[t],
                 locked |-> route = "write" /\ account[user[holder[t]].account].status = "read_only"]
<1>1. holder[t] \in Emails /\ user[holder[t]] # NoUser
  BY DEF Begin, Find, Findable, AInv, HolderIsUser
<1>2. c \in Call
  BY <1>1 DEF Call
<1>3. call' = [call EXCEPT ![q] = c] /\ call'[q] = c
  BY DEF Begin, AInv, AccessTypeOK
<1>4. UNCHANGED <<account, user, reg, holder, session>>
  BY DEF Begin, Find
<1>5. \A p \in Requests \ {q} : req'[p] = req[p]
  BY DEF Begin, Find, TypeOK
<1>6. c.pc = "validate" /\ c.user = holder[t]
      /\ (c.locked => account[user[holder[t]].account].status = "read_only")
  OBVIOUS
<1> HIDE DEF c
<1>7. CallFits(q)'
  BY <1>1, <1>3, <1>4, <1>6 DEF CallFits, AccountOf
<1>8. QED
  BY <1>2, <1>3, <1>4, <1>5, <1>7, OneCallStep

LEMMA ValidateStep ==
  ASSUME TypeOK, AInv, NEW q \in Requests, Validate(q)
  PROVE  AInv'
<1>0. /\ call \in [Requests -> Call] /\ DOMAIN req = Requests
      /\ session \in [Tokens -> [state : {"none", "active", "revoked"}, last : 0..MaxTime]]
      /\ CallFits(q)
  BY DEF AInv, AccessTypeOK, TypeOK
<1>1. CASE Check(q) /\ UNCHANGED accessVars
  <2>1. UNCHANGED <<account, user, reg, holder, session, call>>
    BY <1>1 DEF Check, accessVars
  <2>2. ASSUME NEW p \in Requests PROVE CallFits(p)'
    <3>1. CallFits(p) /\ (req'[p].pc # "idle" => req[p].pc # "idle")
      BY <1>0, <1>1 DEF AInv, Check
    <3>2. QED
      BY <2>1, <3>1 DEF CallFits, AccountOf
  <2>3. QED
    BY <1>0, <2>1, <2>2, RequestStep
<1>2. CASE /\ Revoke(q)
           /\ call' = [call EXCEPT ![q] = IdleCall]
           /\ UNCHANGED <<account, user, reg, holder>>
  <2>1. req' = [req EXCEPT ![q] = IdleReq] /\ session' = [session EXCEPT ![req[q].token].state = "revoked"]
    BY <1>2 DEF Revoke
  <2>2. \A t \in Tokens : session'[t].state = "active" => session[t].state = "active"
    BY <1>0, <2>1
  <2>3. req'[q].pc = "idle" /\ \A p \in Requests \ {q} : req'[p] = req[p]
    BY <1>0, <2>1 DEF IdleReq
  <2>4. call'[q] = IdleCall
    BY <1>0, <1>2
  <2>5. CallFits(q)'
    BY <2>3, <2>4, OverFits
  <2>6. QED
    BY <1>2, <2>2, <2>3, <2>5, IdleCallIsCall, OneCallStep
<1>3. ASSUME Touch(q), NEW pc \in {"gate", "handler"},
             call[q].route = "write" => pc = "gate",
             \/ call' = [call EXCEPT ![q] = [call[q] EXCEPT !.pc = pc]]
             \/ call' = [call EXCEPT ![q] = IdleCall],
             UNCHANGED <<account, user, reg, holder>>
      PROVE  AInv'
  <2>1. req' = [req EXCEPT ![q] = IdleReq] /\ session' = [session EXCEPT ![req[q].token].last = now]
    BY <1>3 DEF Touch
  <2>2. \A t \in Tokens : session'[t].state = "active" => session[t].state = "active"
    BY <1>0, <2>1
  <2>3. req'[q].pc = "idle" /\ \A p \in Requests \ {q} : req'[p] = req[p]
    BY <1>0, <2>1 DEF IdleReq
  <2>4. CASE call' = [call EXCEPT ![q] = IdleCall]
    <3>1. call'[q] = IdleCall
      BY <1>0, <2>4
    <3>2. CallFits(q)'
      BY <2>3, <3>1, OverFits
    <3>3. QED
      BY <1>3, <2>2, <2>3, <2>4, <3>2, IdleCallIsCall, OneCallStep
  <2>5. CASE call' = [call EXCEPT ![q] = [call[q] EXCEPT !.pc = pc]]
    <3> DEFINE c == [call[q] EXCEPT !.pc = pc]
    <3>1. call[q].pc = "validate"
      BY <1>0, <1>3 DEF Touch, CallFits
    <3>2. /\ c \in Call /\ c.pc = pc /\ c.user = call[q].user
          /\ c.locked = call[q].locked /\ c.route = call[q].route
      BY <1>0, <3>1 DEF Call, IdleCall
    <3>3. call' = [call EXCEPT ![q] = c] /\ call'[q] = c
      BY <1>0, <2>5
    <3> HIDE DEF c
    <3>4. CallFits(q)'
      BY <1>0, <1>3, <2>3, <3>1, <3>2, <3>3 DEF CallFits, AccountOf
    <3>5. QED
      BY <1>3, <2>2, <2>3, <3>2, <3>3, <3>4, OneCallStep
  <2>6. QED
    BY <1>3, <2>4, <2>5
<1>4. CASE /\ Touch(q)
           /\ call' = [call EXCEPT ![q] =
                IF RoleAllows(q) THEN [call[q] EXCEPT !.pc = IF call[q].route = "write" THEN "gate" ELSE "handler"]
                ELSE IdleCall]
           /\ UNCHANGED <<account, user, reg, holder>>
  <2> DEFINE pc == IF call[q].route = "write" THEN "gate" ELSE "handler"
  <2>1. pc \in {"gate", "handler"} /\ (call[q].route = "write" => pc = "gate")
    OBVIOUS
  <2>2. \/ call' = [call EXCEPT ![q] = [call[q] EXCEPT !.pc = pc]]
        \/ call' = [call EXCEPT ![q] = IdleCall]
    BY <1>4
  <2> HIDE DEF pc
  <2>3. QED
    BY <1>3, <1>4, <2>1, <2>2
<1>5. QED
  BY <1>1, <1>2, <1>4 DEF Validate

\* A request past validation ends, or goes on to its handler.
LEMMA OverStep ==
  ASSUME TypeOK, AInv, NEW q \in Requests, UNCHANGED <<vars, account, user, reg, holder>>,
         call[q].pc \in {"gate", "handler"}, call' = [call EXCEPT ![q] = IdleCall]
  PROVE  AInv'
<1>1. UNCHANGED <<session, req>>
  BY DEF vars
<1>2. call'[q] = IdleCall
  BY DEF AInv, AccessTypeOK
<1>3. req'[q].pc = "idle"
  <2>1. CallFits(q)
    BY DEF AInv
  <2>2. req[q].pc = "idle"
    BY <2>1 DEF CallFits
  <2>3. QED
    BY <1>1, <2>2
<1>4. CallFits(q)'
  BY <1>2, <1>3, OverFits
<1>5. QED
  BY <1>1, <1>4, IdleCallIsCall, OneCallStep

LEMMA RequireWriteStep ==
  ASSUME TypeOK, AInv, NEW q \in Requests, RequireWrite(q)
  PROVE  AInv'
<1>1. CASE ~NotRestricted(q)
  BY <1>1, OverStep DEF RequireWrite
<1>2. CASE NotRestricted(q)
  <2> DEFINE c == [call[q] EXCEPT !.pc = "handler"]
  <2>1. CallFits(q) /\ call[q] \in Call /\ call \in [Requests -> Call] /\ call[q].pc = "gate"
    BY DEF RequireWrite, AInv, AccessTypeOK
  <2>2. /\ c \in Call /\ c.pc = "handler" /\ c.user = call[q].user
        /\ c.locked = call[q].locked /\ c.route = call[q].route
    BY <2>1 DEF Call, IdleCall
  <2>3. call' = [call EXCEPT ![q] = c] /\ call'[q] = c
    BY <1>2, <2>1 DEF RequireWrite
  <2>4. UNCHANGED <<session, req, account, user, reg, holder>>
    BY DEF RequireWrite, vars
  <2> HIDE DEF c
  <2>5. ~call[q].locked
    BY <1>2, <2>1 DEF NotRestricted, CallFits
  <2>6. req[q].pc = "idle"
    BY <2>1 DEF CallFits
  <2>7. CallFits(q)'
    BY <2>1, <2>2, <2>3, <2>4, <2>5, <2>6 DEF CallFits
  <2>8. QED
    BY <2>2, <2>3, <2>4, <2>7, OneCallStep
<1>3. QED
  BY <1>1, <1>2

LEMMA ValidationFailsStep ==
  ASSUME TypeOK, AInv, NEW Q \in SUBSET Requests, ValidationFails(Q)
  PROVE  AInv'
<1>1. /\ UNCHANGED <<session, account, user, reg, holder>>
      /\ req' = [q \in Requests |-> IF q \in Q THEN IdleReq ELSE req[q]]
      /\ call' = [q \in Requests |-> IF q \in Q THEN IdleCall ELSE call[q]]
  BY DEF ValidationFails, Fail
<1>2. call \in [Requests -> Call] /\ \A q \in Requests : CallFits(q)
  BY DEF AInv, AccessTypeOK
<1>3. call' \in [Requests -> Call]
  BY <1>1, <1>2, IdleCallIsCall
<1>4. ASSUME NEW q \in Requests PROVE CallFits(q)'
  <2>1. CASE q \in Q
    <3>1. call'[q] = IdleCall /\ req'[q].pc = "idle"
      BY <1>1, <2>1 DEF IdleReq
    <3>2. QED
      BY <3>1, OverFits
  <2>2. CASE q \notin Q
    <3>1. call'[q] = call[q] /\ req'[q] = req[q] /\ CallFits(q)
      BY <1>1, <1>2, <2>2
    <3>2. QED
      BY <1>1, <3>1 DEF CallFits, AccountOf
  <2>3. QED
    BY <2>1, <2>2
<1>5. QED
  BY <1>1, <1>3, <1>4, RequestStep

-----------------------------------------------------------------------------
(* Steps of registrations, of other members and of the account's status. *)

\* A user more leaves what there was: the others, their accounts and owners,
\* and the users of the requests.
LEMMA UserMore ==
  ASSUME AInv, NEW e \in Emails, user[e] = NoUser,
         NEW a \in Accounts, NEW role \in Roles,
         user' = [user EXCEPT ![e] = [account |-> a, role |-> role]],
         UNCHANGED <<session, holder, req, call>>,
         account'[a].status # "none",
         \A b \in Accounts : account[b].status # "none" => account'[b] = account[b]
  PROVE  /\ user' \in [Emails -> User]
         /\ HolderIsUser' /\ UserHasAccount'
         /\ \A x \in Emails : user[x] # NoUser => user'[x] = user[x]
         /\ \A q \in Requests : CallFits(q)'
<1> DEFINE u == [account |-> a, role |-> role]
<1>1. u \in User /\ u # NoUser /\ u.account = a
  BY DEF User, NoUser, Roles
<1>2. user \in [Emails -> User] /\ account \in [Accounts -> Account] /\ call \in [Requests -> Call]
  BY DEF AInv, AccessTypeOK
<1>3. user' = [user EXCEPT ![e] = u]
  OBVIOUS
<1> HIDE DEF u
<1>4. user' \in [Emails -> User] /\ user'[e] = u
  BY <1>1, <1>2, <1>3
<1>5. \A x \in Emails : user[x] # NoUser => user'[x] = user[x]
  BY <1>2, <1>3
<1>6. HolderIsUser'
  BY <1>5 DEF AInv, HolderIsUser
<1>7. UserHasAccount'
  <2>1. ASSUME NEW x \in Emails, user'[x] # NoUser
        PROVE  account'[user'[x].account].status # "none"
    <3>1. CASE x = e
      BY <1>1, <1>4, <3>1
    <3>2. CASE x # e
      <4>1. user'[x] = user[x] /\ user[x] # NoUser
        BY <1>2, <1>3, <2>1, <3>2
      <4>2. user[x].account \in Accounts /\ account[user[x].account].status # "none"
        BY <1>2, <4>1 DEF AInv, UserHasAccount, User
      <4>3. QED
        BY <4>1, <4>2
    <3>3. QED
      BY <3>1, <3>2
  <2>2. QED
    BY <2>1 DEF UserHasAccount
<1>8. ASSUME NEW q \in Requests PROVE CallFits(q)'
  <2>1. CallFits(q) /\ call[q] \in Call /\ call'[q] = call[q] /\ req'[q] = req[q]
    BY <1>2 DEF AInv
  <2>2. CASE call[q].pc = "idle"
    <3>1. call[q] = IdleCall
      BY <2>1, <2>2 DEF Call
    <3>2. QED
      BY <2>1, <3>1 DEF CallFits, IdleCall
  <2>3. CASE call[q].pc # "idle"
    <3>1. call[q].user \in Emails /\ user[call[q].user] # NoUser
      BY <2>1, <2>3 DEF CallFits, Call, IdleCall
    <3>2. user'[call[q].user] = user[call[q].user]
      BY <1>5, <3>1
    <3>3. AccountOf(q)' = AccountOf(q) /\ AccountOf(q) \in Accounts
      BY <1>2, <2>1, <3>1, <3>2 DEF AccountOf, User
    <3>4. call[q].locked => account'[AccountOf(q)] = account[AccountOf(q)]
      BY <2>1, <3>3 DEF CallFits
    <3>5. QED
      BY <2>1, <3>1, <3>2, <3>3, <3>4 DEF CallFits
  <2>4. QED
    BY <2>2, <2>3
<1>9. QED
  BY <1>4, <1>5, <1>6, <1>7, <1>8

LEMMA RegStep ==
  ASSUME AInv, UNCHANGED <<vars, account, user, holder, call>>,
         reg' \in [Accounts -> Reg], \A a \in Accounts : RegistrationFits(a)'
  PROVE  AInv'
<1>1. UNCHANGED <<session, req>>
  BY DEF vars
<1>2. AccessTypeOK'
  BY DEF AInv, AccessTypeOK
<1>3. HolderIsUser' /\ UserHasAccount' /\ AccountHasOwner'
  BY <1>1 DEF AInv, HolderIsUser, UserHasAccount, AccountHasOwner
<1>4. \A q \in Requests : CallFits(q)'
  BY <1>1 DEF AInv, CallFits, AccountOf
<1>5. QED
  BY <1>2, <1>3, <1>4 DEF AInv

\* A registration finds its address free, inserts its rows or fails.
LEMMA RegisterStep ==
  ASSUME AInv, NEW a \in Accounts,
         RegisterInsert(a) \/ RegisterFails(a) \/ \E e \in Emails : RegisterFind(a, e)
  PROVE  AInv'
<1>1. /\ UNCHANGED <<vars, account, user, holder, call>>
      /\ reg \in [Accounts -> Reg] /\ \A b \in Accounts : RegistrationFits(b)
  BY DEF AInv, AccessTypeOK, RegisterInsert, RegisterFails, RegisterFind
<1>2. IdleReg \in Reg /\ IdleReg.pc = "idle"
  BY DEF Reg, IdleReg
<1>3. ASSUME NEW r \in Reg, reg' = [reg EXCEPT ![a] = r],
             r.pc # "idle" => account[a] = NoAccount,
             r.pc = "commit" => user[r.email] = NoUser /\ Pending(r.email) = {}
      PROVE  AInv'
  <2>1. reg' \in [Accounts -> Reg] /\ reg'[a] = r /\ \A b \in Accounts \ {a} : reg'[b] = reg[b]
    BY <1>1, <1>3
  <2>2. ASSUME NEW b \in Accounts PROVE RegistrationFits(b)'
    <3>1. CASE b = a
      <4>1. r.pc = "commit" => Pending(r.email)' = {a}
        BY <1>3, <2>1 DEF Pending
      <4>2. QED
        BY <1>1, <1>3, <2>1, <3>1, <4>1 DEF RegistrationFits
    <3>2. CASE b # a
      <4>1. reg'[b] = reg[b] /\ RegistrationFits(b)
        BY <1>1, <2>1, <3>2
      <4>2. reg[b].pc = "commit" => Pending(reg[b].email)' = {b}
        <5>1. ASSUME reg[b].pc = "commit", NEW d \in Accounts
              PROVE  d \in Pending(reg[b].email)' <=> d = b
          <6>1. Pending(reg[b].email) = {b}
            BY <4>1, <5>1 DEF RegistrationFits
          <6>2. CASE d = a
            BY <1>3, <2>1, <3>2, <5>1, <6>1, <6>2 DEF Pending
          <6>3. CASE d # a
            BY <2>1, <4>1, <6>1, <6>3 DEF Pending
          <6>4. QED
            BY <6>2, <6>3
        <5>2. QED
          BY <5>1 DEF Pending
      <4>3. QED
        BY <1>1, <4>1, <4>2 DEF RegistrationFits
    <3>3. QED
      BY <3>1, <3>2
  <2>3. QED
    BY <1>1, <2>1, <2>2, RegStep
<1>4. CASE RegisterFails(a)
  BY <1>2, <1>3, <1>4 DEF RegisterFails
<1>5. CASE RegisterInsert(a)
  <2>1. CASE user[reg[a].email] = NoUser
    <3> DEFINE r == [pc |-> "commit", email |-> reg[a].email]
    <3>1. reg[a].email \in Emails
      BY <1>1, <1>5 DEF RegisterInsert, Reg, IdleReg
    <3>2. r \in Reg /\ r.pc = "commit" /\ r.email = reg[a].email
      BY <3>1 DEF Reg
    <3>3. reg' = [reg EXCEPT ![a] = r]
      BY <1>5, <2>1 DEF RegisterInsert
    <3> HIDE DEF r
    <3>4. account[a] = NoAccount /\ Pending(reg[a].email) = {}
      BY <1>1, <1>5 DEF RegisterInsert, RegistrationFits
    <3>5. QED
      BY <1>3, <2>1, <3>2, <3>3, <3>4
  <2>2. CASE user[reg[a].email] # NoUser
    BY <1>2, <1>3, <1>5, <2>2 DEF RegisterInsert
  <2>3. QED
    BY <2>1, <2>2
<1>6. ASSUME NEW e \in Emails, RegisterFind(a, e) PROVE AInv'
  <2> DEFINE r == [pc |-> "insert", email |-> e]
  <2>1. r \in Reg /\ r.pc = "insert"
    BY DEF Reg
  <2>2. reg' = [reg EXCEPT ![a] = r] /\ account[a] = NoAccount
    BY <1>6 DEF RegisterFind
  <2> HIDE DEF r
  <2>3. QED
    BY <1>3, <2>1, <2>2
<1>7. QED
  BY <1>4, <1>5, <1>6

LEMMA RegisterCommitStep ==
  ASSUME AInv, NEW a \in Accounts, RegisterCommit(a)
  PROVE  AInv'
<1> DEFINE e == reg[a].email
           acc == [status |-> "active", owner |-> e]
<1>1. /\ reg \in [Accounts -> Reg] /\ account \in [Accounts -> Account] /\ user \in [Emails -> User]
      /\ RegistrationFits(a) /\ reg[a].pc = "commit"
  BY DEF AInv, AccessTypeOK, RegisterCommit
<1>2. e \in Emails /\ user[e] = NoUser /\ account[a] = NoAccount /\ Pending(e) = {a}
  BY <1>1 DEF RegistrationFits, Reg, IdleReg
<1>3. acc \in Account /\ acc.status = "active" /\ acc.owner = e
  BY <1>2 DEF Account
<1>4. /\ account' = [account EXCEPT ![a] = acc]
      /\ user' = [user EXCEPT ![e] = [account |-> a, role |-> "owner"]]
      /\ reg' = [reg EXCEPT ![a] = IdleReg]
      /\ UNCHANGED <<session, req, holder, call>>
  BY DEF RegisterCommit, vars
<1>5. reg[a].email = e
  OBVIOUS
<1> HIDE DEF acc, e
<1>6. /\ account' \in [Accounts -> Account] /\ account'[a] = acc
      /\ \A b \in Accounts \ {a} : account'[b] = account[b]
  BY <1>1, <1>3, <1>4
<1>7. account'[a].status # "none" /\ \A b \in Accounts : account[b].status # "none" => account'[b] = account[b]
  BY <1>2, <1>3, <1>6 DEF NoAccount
<1>8. "owner" \in Roles
  BY DEF Roles
<1>9. /\ user' \in [Emails -> User] /\ HolderIsUser' /\ UserHasAccount'
      /\ \A x \in Emails : user[x] # NoUser => user'[x] = user[x]
      /\ \A q \in Requests : CallFits(q)'
  BY <1>2, <1>4, <1>7, <1>8, UserMore
<1>10. /\ reg' \in [Accounts -> Reg] /\ reg'[a] = IdleReg
       /\ \A b \in Accounts \ {a} : reg'[b] = reg[b]
  BY <1>1, <1>4 DEF Reg
<1>11. AccessTypeOK'
  BY <1>4, <1>6, <1>9, <1>10 DEF AInv, AccessTypeOK
<1>12. AccountHasOwner'
  <2>1. ASSUME NEW b \in Accounts, account'[b].status # "none"
        PROVE  account'[b].owner \in Emails /\ user'[account'[b].owner] = [account |-> b, role |-> "owner"]
    <3>1. CASE b = a
      <4>1. user'[e] = [account |-> a, role |-> "owner"]
        BY <1>1, <1>2, <1>4
      <4>2. QED
        BY <1>2, <1>3, <1>6, <3>1, <4>1
    <3>2. CASE b # a
      <4>1. account'[b] = account[b]
        BY <1>6, <3>2
      <4>2. account[b].owner \in Emails /\ user[account[b].owner] = [account |-> b, role |-> "owner"]
        BY <2>1, <4>1 DEF AInv, AccountHasOwner
      <4>3. user[account[b].owner] # NoUser
        BY <4>2 DEF NoUser
      <4>4. QED
        BY <1>9, <4>1, <4>2, <4>3
    <3>3. QED
      BY <3>1, <3>2
  <2>2. QED
    BY <2>1 DEF AccountHasOwner
<1>13. ASSUME NEW b \in Accounts PROVE RegistrationFits(b)'
  <2>1. CASE b = a
    BY <1>10, <2>1 DEF RegistrationFits, IdleReg
  <2>2. CASE b # a
    <3>1. RegistrationFits(b) /\ reg'[b] = reg[b] /\ account'[b] = account[b]
      BY <1>6, <1>10, <2>2 DEF AInv
    <3>2. CASE reg[b].pc # "commit"
      BY <3>1, <3>2 DEF RegistrationFits
    <3>3. CASE reg[b].pc = "commit"
      <4>1. Pending(reg[b].email) = {b} /\ user[reg[b].email] = NoUser
        BY <3>1, <3>3 DEF RegistrationFits
      <4>2. reg[b].email # e
        BY <1>2, <2>2, <4>1
      <4>3. user'[reg[b].email] = NoUser
        BY <1>1, <1>4, <4>1, <4>2
      <4>4. ASSUME NEW d \in Accounts
            PROVE  d \in Pending(reg[b].email)' <=> d \in Pending(reg[b].email)
        <5>1. CASE d = a
          BY <1>10, <2>2, <3>1, <4>1, <5>1 DEF Pending, IdleReg
        <5>2. CASE d # a
          BY <1>10, <3>1, <5>2 DEF Pending
        <5>3. QED
          BY <5>1, <5>2
      <4>5. Pending(reg[b].email)' = {b}
        BY <4>1, <4>4 DEF Pending
      <4>6. QED
        BY <3>1, <3>3, <4>3, <4>5 DEF RegistrationFits
    <3>4. QED
      BY <3>2, <3>3
  <2>3. QED
    BY <2>1, <2>2
<1>14. QED
  BY <1>9, <1>11, <1>12, <1>13 DEF AInv

LEMMA AddMemberStep ==
  ASSUME AInv, NEW a \in Accounts, NEW e \in Emails, NEW role \in Roles, AddMember(e, a, role)
  PROVE  AInv'
<1>1. /\ UNCHANGED <<session, req, account, reg, holder, call>>
      /\ user' = [user EXCEPT ![e] = [account |-> a, role |-> role]]
      /\ user[e] = NoUser /\ account[a].status # "none" /\ Pending(e) = {}
  BY DEF AddMember, vars
<1>2. /\ user' \in [Emails -> User] /\ HolderIsUser' /\ UserHasAccount'
      /\ \A x \in Emails : user[x] # NoUser => user'[x] = user[x]
      /\ \A q \in Requests : CallFits(q)'
  BY <1>1, UserMore
<1>3. AccessTypeOK'
  BY <1>1, <1>2 DEF AInv, AccessTypeOK
<1>4. AccountHasOwner'
  <2>1. ASSUME NEW b \in Accounts, account[b].status # "none"
        PROVE  account[b].owner \in Emails /\ user'[account[b].owner] = [account |-> b, role |-> "owner"]
    <3>1. account[b].owner \in Emails /\ user[account[b].owner] = [account |-> b, role |-> "owner"]
      BY <2>1 DEF AInv, AccountHasOwner
    <3>2. user[account[b].owner] # NoUser
      BY <3>1 DEF NoUser
    <3>3. QED
      BY <1>2, <3>1, <3>2
  <2>2. QED
    BY <1>1, <2>1 DEF AccountHasOwner
<1>5. ASSUME NEW b \in Accounts PROVE RegistrationFits(b)'
  <2>1. RegistrationFits(b) /\ reg'[b] = reg[b] /\ account'[b] = account[b] /\ user \in [Emails -> User]
    BY <1>1 DEF AInv, AccessTypeOK
  <2>2. reg[b].pc = "commit" => reg[b].email # e
    BY <1>1 DEF Pending
  <2>3. Pending(reg[b].email)' = Pending(reg[b].email)
    BY <1>1 DEF Pending
  <2>4. QED
    BY <1>1, <2>1, <2>2, <2>3 DEF RegistrationFits
<1>6. QED
  BY <1>2, <1>3, <1>4, <1>5 DEF AInv

\* Only the status of an account there is changes; requests that stay locked are
\* those of an account that is restricted still.
LEMMA StatusStep ==
  ASSUME AInv, NEW a \in Accounts, account[a].status # "none",
         NEW s \in {"active", "read_only"}, NEW over \in SUBSET Requests,
         \A q \in over : req[q].pc = "idle",
         SetStatus(a, s, over), UNCHANGED <<vars, user, reg, holder>>
  PROVE  AInv'
<1> DEFINE acc == [account[a] EXCEPT !.status = s]
<1>1. /\ account \in [Accounts -> Account] /\ call \in [Requests -> Call] /\ user \in [Emails -> User]
      /\ \A q \in Requests : CallFits(q)
      /\ UNCHANGED <<session, req>>
  BY DEF AInv, AccessTypeOK, vars
<1>2. acc \in Account /\ acc.status = s /\ acc.owner = account[a].owner
  BY <1>1 DEF Account, NoAccount
<1>3. account' = [account EXCEPT ![a] = acc]
  BY DEF SetStatus
<1> HIDE DEF acc
<1>4. /\ account' \in [Accounts -> Account] /\ account'[a] = acc
      /\ \A b \in Accounts \ {a} : account'[b] = account[b]
  BY <1>1, <1>2, <1>3
<1>5. ASSUME NEW q \in Requests
      PROVE  call'[q] \in Call /\ CallFits(q)'
  <2>1. call[q] \in Call /\ CallFits(q) /\ req'[q] = req[q]
    BY <1>1
  <2>2. CASE q \in over
    <3>1. call'[q] = IdleCall /\ req'[q].pc = "idle"
      BY <2>1, <2>2 DEF SetStatus
    <3>2. QED
      BY <3>1, OverFits, IdleCallIsCall
  <2>3. CASE q \notin over /\ s = "active" /\ call[q].pc # "idle" /\ AccountOf(q) = a
    <3>1. call'[q] = [call[q] EXCEPT !.locked = FALSE]
      BY <2>3 DEF SetStatus
    <3>2. call[q] \in [pc : {"validate", "gate", "handler"}, route : {"write", "billing"},
                       user : Emails, locked : BOOLEAN]
      BY <2>1, <2>3 DEF Call, IdleCall
    <3>3. /\ call'[q] \in Call /\ call'[q].pc = call[q].pc /\ call'[q].user = call[q].user
          /\ call'[q].locked = FALSE
      BY <3>1, <3>2 DEF Call
    <3>4. QED
      BY <2>1, <3>3 DEF CallFits
  <2>4. CASE q \notin over /\ ~(s = "active" /\ call[q].pc # "idle" /\ AccountOf(q) = a)
    <3>1. call'[q] = call[q]
      BY <2>4 DEF SetStatus
    <3>2. AccountOf(q)' = AccountOf(q)
      BY <3>1 DEF AccountOf
    <3>3. CASE ~call[q].locked
      BY <2>1, <3>1, <3>3 DEF CallFits
    <3>4. CASE call[q].locked
      <4>1. call[q].pc # "idle" /\ account[AccountOf(q)].status = "read_only"
        BY <2>1, <3>4 DEF CallFits, Call, IdleCall
      <4>2. AccountOf(q) = a => s = "read_only"
        BY <2>4, <4>1
      <4>3. AccountOf(q) \in Accounts
        <5>1. call[q].user \in Emails /\ user[call[q].user] # NoUser
          BY <2>1, <4>1 DEF CallFits, Call, IdleCall
        <5>2. QED
          BY <1>1, <5>1 DEF AccountOf, User
      <4>4. account'[AccountOf(q)].status = "read_only"
        BY <1>2, <1>4, <4>1, <4>2, <4>3
      <4>5. QED
        BY <2>1, <3>1, <3>2, <4>4 DEF CallFits
    <3>5. QED
      BY <2>1, <3>1, <3>3, <3>4
  <2>5. QED
    BY <2>2, <2>3, <2>4
<1>6. call' \in [Requests -> Call]
  BY <1>5 DEF SetStatus
<1>7. AccessTypeOK'
  BY <1>4, <1>6 DEF AInv, AccessTypeOK
<1>8. HolderIsUser'
  BY <1>1 DEF AInv, HolderIsUser
<1>9. UserHasAccount' /\ AccountHasOwner'
  <2>1. s # "none"
    OBVIOUS
  <2>2. \A b \in Accounts : /\ account'[b].owner = account[b].owner
                            /\ account'[b].status # "none" <=> account[b].status # "none"
    BY <1>2, <1>4, <2>1
  <2>3. UserHasAccount'
    <3>1. ASSUME NEW x \in Emails, user[x] # NoUser
          PROVE  user[x].account \in Accounts /\ account[user[x].account].status # "none"
      BY <1>1, <3>1 DEF AInv, UserHasAccount, User
    <3>2. user' = user
      OBVIOUS
    <3>3. ASSUME NEW x \in Emails, user'[x] # NoUser
          PROVE  account'[user'[x].account].status # "none"
      BY <2>2, <3>1, <3>2, <3>3
    <3>4. QED
      BY <3>3 DEF UserHasAccount
  <2>4. AccountHasOwner'
    BY <2>2 DEF AInv, AccountHasOwner
  <2>5. QED
    BY <2>3, <2>4
<1>10. ASSUME NEW b \in Accounts PROVE RegistrationFits(b)'
  <2>1. RegistrationFits(b) /\ Pending(reg[b].email)' = Pending(reg[b].email)
    BY DEF AInv, Pending
  <2>2. b = a => reg[b].pc = "idle"
    BY <2>1 DEF RegistrationFits, NoAccount
  <2>3. QED
    BY <1>4, <2>1, <2>2 DEF RegistrationFits
<1>11. QED
  BY <1>5, <1>7, <1>8, <1>9, <1>10 DEF AInv

LEMMA RecoverStep ==
  ASSUME AInv, NEW q \in Requests, NEW s \in {"active", "read_only"}, Recover(q, s)
  PROVE  AInv'
<1>1. CallFits(q) /\ call[q] \in Call /\ user \in [Emails -> User] /\ call[q].pc = "handler"
  BY DEF AInv, AccessTypeOK, Recover
<1>2. call[q].user \in Emails /\ user[call[q].user] # NoUser
  BY <1>1 DEF CallFits, Call, IdleCall
<1>3. AccountOf(q) \in Accounts /\ account[AccountOf(q)].status # "none"
  BY <1>1, <1>2 DEF AccountOf, User, AInv, UserHasAccount
<1>4. \A p \in {q} : req[p].pc = "idle"
  BY <1>1 DEF CallFits
<1>5. SetStatus(AccountOf(q), s, {q}) /\ UNCHANGED <<vars, user, reg, holder>> /\ {q} \in SUBSET Requests
  BY DEF Recover
<1>6. QED
  BY <1>3, <1>4, <1>5, StatusStep

LEMMA BillStep ==
  ASSUME AInv, NEW a \in Accounts, NEW s \in {"active", "read_only"}, Bill(a, s)
  PROVE  AInv'
<1>1. /\ SetStatus(a, s, {}) /\ UNCHANGED <<vars, user, reg, holder>> /\ {} \in SUBSET Requests
      /\ account[a].status # "none" /\ \A q \in {} : req[q].pc = "idle"
  BY DEF Bill
<1>2. QED
  BY <1>1, StatusStep

LEMMA LoginStep ==
  ASSUME TypeOK, AInv, NEW t \in Tokens, NEW e \in Emails, LoginAs(t, e)
  PROVE  AInv'
<1>1. /\ session' = [session EXCEPT ![t] = [state |-> "active", last |-> now]]
      /\ holder' = [holder EXCEPT ![t] = e] /\ user[e] # NoUser
      /\ UNCHANGED <<req, account, user, reg, call>>
  BY DEF LoginAs, Login
<1>2. AccessTypeOK'
  BY <1>1 DEF AInv, AccessTypeOK
<1>3. HolderIsUser'
  <2>1. ASSUME NEW u \in Tokens, session'[u].state = "active"
        PROVE  holder'[u] \in Emails /\ user[holder'[u]] # NoUser
    <3>1. CASE u = t
      BY <1>1, <3>1 DEF AInv, AccessTypeOK
    <3>2. CASE u # t
      <4>1. session'[u] = session[u] /\ holder'[u] = holder[u]
        BY <1>1, <3>2 DEF AInv, AccessTypeOK, TypeOK
      <4>2. QED
        BY <2>1, <4>1 DEF AInv, HolderIsUser
    <3>3. QED
      BY <3>1, <3>2
  <2>2. QED
    BY <1>1, <2>1 DEF HolderIsUser
<1>4. UserHasAccount' /\ AccountHasOwner'
  BY <1>1 DEF AInv, UserHasAccount, AccountHasOwner
<1>5. \A a \in Accounts : RegistrationFits(a)'
  BY <1>1 DEF AInv, RegistrationFits, Pending
<1>6. \A q \in Requests : CallFits(q)'
  BY <1>1 DEF AInv, CallFits, AccountOf
<1>7. QED
  BY <1>2, <1>3, <1>4, <1>5, <1>6 DEF AInv

\* The clock, a logout, a stutter: nothing of this module changes.
LEMMA QuietStep ==
  ASSUME TypeOK, AInv, UNCHANGED accessVars,
         UNCHANGED vars \/ Tick \/ \E t \in Tokens : Logout(t)
  PROVE  AInv'
<1>1. UNCHANGED <<account, user, reg, holder, call, req>>
  BY DEF accessVars, vars, Tick, Logout
<1>2. \A u \in Tokens : session'[u].state = "active" => session[u].state = "active"
  BY DEF vars, Tick, Logout, TypeOK
<1>3. call' \in [Requests -> Call]
  BY <1>1 DEF AInv, AccessTypeOK
<1>4. \A q \in Requests : CallFits(q)'
  BY <1>1 DEF AInv, CallFits, AccountOf
<1>5. QED
  BY <1>1, <1>2, <1>3, <1>4, RequestStep

-----------------------------------------------------------------------------
LEMMA AStep == ASSUME TypeOK, AInv, [AccessNext]_allVars PROVE AInv'
<1>1. CASE UNCHANGED allVars
  BY <1>1, QuietStep DEF allVars
<1>2. CASE Tick /\ UNCHANGED accessVars
  BY <1>2, QuietStep
<1>3. ASSUME NEW t \in Tokens,
             (Logout(t) /\ UNCHANGED accessVars) \/ \E e \in Emails : LoginAs(t, e)
      PROVE  AInv'
  BY <1>3, QuietStep, LoginStep
<1>4. ASSUME NEW a \in Accounts,
             \/ RegisterInsert(a) \/ RegisterCommit(a) \/ RegisterFails(a)
             \/ \E e \in Emails : RegisterFind(a, e) \/ \E role \in Roles \ {"owner"} : AddMember(e, a, role)
             \/ \E s \in {"active", "read_only"} : Bill(a, s)
      PROVE  AInv'
  <2>1. ASSUME NEW e \in Emails, NEW role \in Roles \ {"owner"}, AddMember(e, a, role)
        PROVE  AInv'
    BY <2>1, AddMemberStep
  <2>2. CASE RegisterInsert(a) \/ RegisterFails(a) \/ \E e \in Emails : RegisterFind(a, e)
    BY <2>2, RegisterStep
  <2>3. CASE RegisterCommit(a)
    BY <2>3, RegisterCommitStep
  <2>4. QED
    BY <1>4, <2>1, <2>2, <2>3, BillStep
<1>5. ASSUME NEW q \in Requests,
             \/ \E t \in Tokens, route \in {"write", "billing"} : Begin(q, t, route)
             \/ Validate(q) \/ RequireWrite(q) \/ Write(q) \/ HandlerFails(q)
             \/ \E s \in {"active", "read_only"} : Recover(q, s)
      PROVE  AInv'
  <2>1. CASE \E t \in Tokens, route \in {"write", "billing"} : Begin(q, t, route)
    BY <2>1, BeginStep
  <2>2. CASE Validate(q)
    BY <2>2, ValidateStep
  <2>3. CASE RequireWrite(q)
    BY <2>3, RequireWriteStep
  <2>4. CASE Write(q) \/ HandlerFails(q)
    BY <2>4, OverStep DEF Write, HandlerFails
  <2>5. CASE \E s \in {"active", "read_only"} : Recover(q, s)
    BY <2>5, RecoverStep
  <2>6. QED
    BY <1>5, <2>1, <2>2, <2>3, <2>4, <2>5
<1>6. ASSUME NEW Q \in SUBSET Requests \ {{}}, ValidationFails(Q)
      PROVE  AInv'
  BY <1>6, ValidationFailsStep
<1>7. QED
  BY <1>1, <1>2, <1>3, <1>4, <1>5, <1>6 DEF AccessNext

\* The invariant holds throughout; the types of the sessions come from Sessions.
THEOREM AccessInvariance == AccessSpec => []AInv
<1>1. AccessSpec => []TypeOK
  BY ImplementsSessions, TypeCorrect, PTL
<1>2. QED
  BY <1>1, InitAInv, AStep, PTL DEF AccessSpec

\* The state has its types, and every account has the owner its registration made
\* (auth/service.ts:67), however many registrations of one address overlap, fail
\* or come second.
THEOREM AccessSound == AccessSpec => []AccessInv
<1>1. AccessSpec => []TypeOK
  BY ImplementsSessions, TypeCorrect, PTL
<1>2. AInv /\ TypeOK => AccessInv
  BY DEF AInv, AccessInv
<1>3. QED
  BY <1>1, <1>2, AccessInvariance, PTL

\* No write is committed for an account that was restricted before its request
\* began and has been since (requireWrite of http/middleware/auth.ts).
THEOREM RestrictionHoldsAlways == AccessSpec => RestrictionHolds
<1>1. ASSUME AInv, NEW q \in Requests, Write(q) PROVE ~call[q].locked
  BY <1>1 DEF AInv, CallFits, Write
<1>2. AInv => [\A q \in Requests : Write(q) => ~call[q].locked]_allVars
  BY <1>1
<1>3. QED
  BY <1>2, AccessInvariance, PTL DEF RestrictionHolds

\* Idle and refused sessions let nobody through, whatever else the requests do
\* once they have been let through.
THEOREM AccessKeepsSessions == AccessSpec => OnlyLivePass
BY ImplementsSessions, OnlyLiveEverPass, PTL

(***************************************************************************)
(* Tenancy: the types, and that each call sees its account's rows only,    *)
(* whatever its client served before, for any calls, clients and breaks.   *)
(***************************************************************************)

InHand == {"query", "begin", "context", "work", "commit", "rollback"}

Task == [pc : {"new", "query", "begin", "context", "work", "commit", "rollback", "resolved", "rejected"},
         for : Tenants \union {NoTenant}, client : Clients \union {NoClient}, seen : SUBSET Calls]
Backend == [up : BOOLEAN, tx : {"none", "open", "failed"},
            tenant : Tenants \union {NoTenant}, wrote : SUBSET Calls]

\* The setting and the rows of a session end with its transaction.
Blank(s) == s.tenant = NoTenant /\ s.wrote = {}
Ended(s) == (s.tx = "none" => Blank(s)) /\ (~s.up => s.tx = "none")

\* What a call in hand may rely on: its client's session holds no row but its own
\* and has the setting of its account once it is at work.
Serves(s, t, k) ==
  /\ s.wrote \subseteq {k}
  /\ s.up /\ t.pc \in {"query", "begin", "context"} => Blank(s)
  /\ s.up /\ t.pc \in {"context", "work", "commit"} => s.tx = "open"
  /\ s.up /\ t.pc \in {"work", "commit"} => s.tenant = t.for

Types == task \in [Calls -> Task] /\ backend \in [Clients -> Backend] /\ \A c \in Clients : Ended(backend[c])
Held == \A k \in Calls : task[k].client # NoClient <=> task[k].pc \in InHand
Apart == \A k, j \in Calls : task[k].client # NoClient /\ task[k].client = task[j].client => k = j
Served == \A k \in Calls : task[k].pc \in InHand => Serves(backend[task[k].client], task[k], k)
Unused == \A c \in Free : Blank(backend[c])

\* Rows that are stored, or were seen, are those of calls that have begun.
Begun(j) == task[j].pc # "new"
Settled(j) == task[j].pc = "resolved" \/ j \in unheard
Rows ==
  /\ stored \subseteq Calls /\ unheard \subseteq stored
  /\ \A j \in stored : Begun(j) /\ Settled(j)
  /\ \A j \in unheard : task[j].pc \in {"rollback", "rejected"}
Seen == \A k \in Calls : \A j \in task[k].seen : Begun(j) /\ task[k].for # NoTenant /\ task[j].for = task[k].for

TenancyIInv == Types /\ breaks \in 0..MaxBreaks /\ Held /\ Apart /\ Served /\ Unused /\ Rows /\ Seen

-----------------------------------------------------------------------------
(* What the invariant is for. *)

LEMMA Typed == TenancyIInv => TenancyTypeOK
BY DEF TenancyIInv, Types, Rows, TenancyTypeOK, Task, Backend, Ended, Blank

LEMMA SeenIsOwn == TenancyIInv => OwnRowsOnly
BY DEF TenancyIInv, Seen, OwnRowsOnly

LEMMA NothingLeft == TenancyIInv => RejectedLeavesNothing
<1> SUFFICES ASSUME TenancyIInv PROVE RejectedLeavesNothing OBVIOUS
<1>1. \A k \in stored : task[k].pc = "resolved" \/ k \in unheard
  BY DEF TenancyIInv, Rows, Settled
<1>2. ASSUME NEW c \in Clients PROVE backend[c].wrote \subseteq {k \in Calls : task[k].client = c}
  <2>1. CASE c \in Free
    BY <2>1 DEF TenancyIInv, Unused, Blank
  <2>2. CASE c \notin Free
    <3>1. PICK k \in Calls : task[k].client = c
      BY <2>2 DEF Free
    <3>2. task[k].pc \in InHand
      BY <3>1, TenancyAssumption DEF TenancyIInv, Held, TenancyAssumption
    <3>3. backend[c].wrote \subseteq {k}
      BY <3>1, <3>2 DEF TenancyIInv, Served, Serves
    <3> QED BY <3>1, <3>3
  <2> QED BY <2>1, <2>2
<1> QED BY <1>1, <1>2 DEF RejectedLeavesNothing

LEMMA Start == TenancyInit => TenancyIInv
<1> SUFFICES ASSUME TenancyInit PROVE TenancyIInv OBVIOUS
<1> USE TenancyAssumption DEF TenancyAssumption, TenancyInit
<1>1. Types
  BY DEF Types, Task, Backend, NewTask, Down, Ended, Blank
<1>2. breaks \in 0..MaxBreaks
  OBVIOUS
<1>3. Held /\ Served /\ Seen
  BY DEF Held, Served, Seen, NewTask, InHand
<1>4. Apart
  BY DEF Apart, NewTask
<1>5. Unused
  BY DEF Unused, Free, Blank, Down
<1>6. Rows
  BY DEF Rows
<1> QED BY <1>1, <1>2, <1>3, <1>4, <1>5, <1>6 DEF TenancyIInv

-----------------------------------------------------------------------------
(* A step of one call that holds a client changes nothing but the two.  Let *)
(* t and s be what becomes of them.                                        *)

LEMMA Moves ==
  ASSUME TenancyIInv, NEW k \in Calls, task[k].pc \in InHand,
         NEW t \in Task, NEW s \in Backend,
         task' = [task EXCEPT ![k] = t],
         backend' = [backend EXCEPT ![task[k].client] = s],
         breaks' \in 0..MaxBreaks,
         t.pc # "new", t.for = task[k].for, Ended(s),
         \/ t.client = task[k].client /\ t.pc \in InHand /\ Serves(s, t, k)
         \/ t.client = NoClient /\ t.pc \notin InHand /\ Blank(s),
         \A j \in t.seen : Begun(j) /\ t.for # NoTenant /\ task[j].for = t.for,
         stored \subseteq stored', stored' \subseteq stored \union {k},
         unheard' \subseteq stored', unheard \subseteq unheard', unheard' \subseteq unheard \union {k},
         k \in stored' => t.pc = "resolved" \/ k \in unheard',
         k \in unheard' => t.pc \in {"rollback", "rejected"}
  PROVE  TenancyIInv'
<1> DEFINE c == task[k].client
<1>0. c \in Clients /\ c # NoClient
  BY DEF TenancyIInv, Types, Held, Task
<1>1. task[k] \in Task /\ task'[k] = t /\ \A j \in Calls : j # k => task'[j] = task[j]
  BY DEF TenancyIInv, Types
<1>2. backend'[c] = s /\ \A d \in Clients : d # c => backend'[d] = backend[d]
  BY <1>0 DEF TenancyIInv, Types
<1>3. Types'
  BY DEF TenancyIInv, Types
<1>4. Held'
  BY <1>0, <1>1, TenancyAssumption DEF TenancyIInv, Held, TenancyAssumption
<1>5. Apart'
  BY <1>1 DEF TenancyIInv, Apart
<1>6. Served'
  <2> SUFFICES ASSUME NEW j \in Calls, task'[j].pc \in InHand
               PROVE  Serves(backend'[task'[j].client], task'[j], j)
    BY DEF Served
  <2>1. CASE j = k
    BY <2>1, <1>0, <1>1, <1>2
  <2>2. CASE j # k
    <3>1. task'[j] = task[j] /\ task[j].client # NoClient /\ task[j].client \in Clients
      BY <2>2, <1>1, TenancyAssumption DEF TenancyIInv, Held, Types, Task, TenancyAssumption
    <3>2. task[j].client # c
      BY <2>2, <3>1 DEF TenancyIInv, Apart
    <3> QED BY <3>1, <3>2, <1>2 DEF TenancyIInv, Served
  <2> QED BY <2>1, <2>2
<1>7. Unused'
  <2> SUFFICES ASSUME NEW d \in Clients, \A j \in Calls : task'[j].client # d PROVE Blank(backend'[d])
    BY DEF Unused, Free
  <2>1. CASE d = c
    BY <2>1, <1>1, <1>2
  <2>2. CASE d # c
    <3>1. \A j \in Calls : task[j].client # d
      BY <2>2, <1>1
    <3> QED BY <2>2, <3>1, <1>2 DEF TenancyIInv, Unused, Free
  <2> QED BY <2>1, <2>2
<1>8. Rows'
  BY <1>1 DEF TenancyIInv, Rows, Begun, Settled
<1>9. Seen'
  <2> SUFFICES ASSUME NEW i \in Calls, NEW j \in task'[i].seen
               PROVE  Begun(j)' /\ task'[i].for # NoTenant /\ task'[j].for = task'[i].for
    BY DEF Seen
  <2>1. j \in Calls
    BY <1>3 DEF Types, Task
  <2>2. Begun(j) /\ task'[i].for # NoTenant /\ task[j].for = task'[i].for
    BY <1>1 DEF TenancyIInv, Seen
  <2> QED BY <2>1, <2>2, <1>1 DEF Begun
<1> QED BY <1>3, <1>4, <1>5, <1>6, <1>7, <1>8, <1>9 DEF TenancyIInv

-----------------------------------------------------------------------------
(* The steps that Moves does not speak of: a call gets its client or none,  *)
(* and a connection breaks.                                                *)

LEMMA Obtains ==
  ASSUME TenancyIInv, NEW k \in Calls, NEW c \in Clients, NEW who \in Tenants \union {NoTenant},
         NEW first \in {"begin", "query"}, Obtain(k, c, who, first)
  PROVE  TenancyIInv'
<1> USE DEF Obtain
<1> DEFINE t == [pc |-> first, for |-> who, client |-> c, seen |-> {}]
<1>1. t \in Task /\ Clean \in Backend /\ Blank(Clean) /\ Ended(Clean)
  BY TenancyAssumption DEF Task, Backend, Clean, Blank, Ended, TenancyAssumption
<1>2. /\ task[k].pc = "new" /\ task[k] \in Task /\ task'[k] = t
      /\ \A j \in Calls : j # k => task'[j] = task[j]
  BY DEF TenancyIInv, Types
<1>3. /\ \A d \in Clients : backend'[d] = IF d = c /\ ~backend[c].up THEN Clean ELSE backend[d]
      /\ backend' \in [Clients -> Backend]
  <2>1. CASE backend[c].up
    BY <2>1 DEF TenancyIInv, Types
  <2>2. CASE ~backend[c].up
    BY <2>2, <1>1 DEF TenancyIInv, Types
  <2> QED BY <2>1, <2>2
<1>4. c # NoClient /\ \A j \in Calls : task[j].client # c
  BY TenancyAssumption DEF Free, TenancyAssumption
<1>5. Blank(backend'[c])
  BY <1>1, <1>3, <1>4 DEF TenancyIInv, Unused, Free
<1>6. Types'
  BY <1>1, <1>3 DEF TenancyIInv, Types
<1>7. Held'
  BY <1>2, <1>4 DEF TenancyIInv, Held, InHand
<1>8. Apart'
  BY <1>2, <1>4 DEF TenancyIInv, Apart
<1>9. Served'
  <2> SUFFICES ASSUME NEW j \in Calls, task'[j].pc \in InHand
               PROVE  Serves(backend'[task'[j].client], task'[j], j)
    BY DEF Served
  <2>1. CASE j = k
    BY <2>1, <1>2, <1>5 DEF Serves, Blank
  <2>2. CASE j # k
    <3>1. task'[j] = task[j] /\ task[j].client # NoClient /\ task[j].client \in Clients
      BY <2>2, <1>2, TenancyAssumption DEF TenancyIInv, Held, Types, Task, TenancyAssumption
    <3> QED BY <3>1, <1>3, <1>4 DEF TenancyIInv, Served
  <2> QED BY <2>1, <2>2
<1>10. Unused'
  <2> SUFFICES ASSUME NEW d \in Clients, \A j \in Calls : task'[j].client # d PROVE Blank(backend'[d])
    BY DEF Unused, Free
  <2>1. d # c
    BY <1>2
  <2>2. task[k].client = NoClient
    BY <1>2 DEF TenancyIInv, Held, InHand
  <2>3. d \in Free
    BY <1>2, <2>2, TenancyAssumption DEF Free, TenancyAssumption
  <2> QED BY <2>1, <2>3, <1>3 DEF TenancyIInv, Unused
<1>11. Rows'
  BY <1>2 DEF TenancyIInv, Rows, Begun, Settled
<1>12. Seen'
  <2> SUFFICES ASSUME NEW i \in Calls, NEW j \in task'[i].seen
               PROVE  Begun(j)' /\ task'[i].for # NoTenant /\ task'[j].for = task'[i].for
    BY DEF Seen
  <2>1. i # k /\ j \in Calls /\ j \in task[i].seen
    BY <1>2, <1>6 DEF Types, Task
  <2>2. Begun(j) /\ task[i].for # NoTenant /\ task[j].for = task[i].for
    BY <2>1 DEF TenancyIInv, Seen
  <2>3. j # k
    BY <2>2, <1>2 DEF Begun
  <2> QED BY <2>1, <2>2, <2>3, <1>2 DEF Begun
<1> QED BY <1>6, <1>7, <1>8, <1>9, <1>10, <1>11, <1>12 DEF TenancyIInv

LEMMA GivesUp ==
  ASSUME TenancyIInv, NEW k \in Calls, NEW who \in Tenants \union {NoTenant}, NoClientInTime(k, who)
  PROVE  TenancyIInv'
<1> USE DEF NoClientInTime
<1> DEFINE t == [pc |-> "rejected", for |-> who, client |-> NoClient, seen |-> {}]
<1>1. /\ t \in Task /\ task[k].pc = "new" /\ task[k] \in Task /\ task'[k] = t
      /\ \A j \in Calls : j # k => task'[j] = task[j]
  BY DEF TenancyIInv, Types, Task
<1>2. Types' /\ breaks' \in 0..MaxBreaks
  BY <1>1 DEF TenancyIInv, Types
<1>3. Held' /\ Apart' /\ Served'
  BY <1>1 DEF TenancyIInv, Held, Apart, Served, InHand
<1>4. task[k].client = NoClient
  BY <1>1 DEF TenancyIInv, Held, InHand
<1>5. Unused'
  BY <1>1, <1>4 DEF TenancyIInv, Unused, Free
<1>6. Rows'
  BY <1>1 DEF TenancyIInv, Rows, Begun, Settled
<1>7. Seen'
  <2> SUFFICES ASSUME NEW i \in Calls, NEW j \in task'[i].seen
               PROVE  Begun(j)' /\ task'[i].for # NoTenant /\ task'[j].for = task'[i].for
    BY DEF Seen
  <2>1. i # k /\ j \in Calls /\ j \in task[i].seen
    BY <1>1, <1>2 DEF Types, Task
  <2>2. Begun(j) /\ task[i].for # NoTenant /\ task[j].for = task[i].for
    BY <2>1 DEF TenancyIInv, Seen
  <2>3. j # k
    BY <2>2, <1>1 DEF Begun
  <2> QED BY <2>1, <2>2, <2>3, <1>1 DEF Begun
<1> QED BY <1>2, <1>3, <1>5, <1>6, <1>7 DEF TenancyIInv

LEMMA Breaks == ASSUME TenancyIInv, NEW c \in Clients, Break(c) PROVE TenancyIInv'
<1> USE DEF Break
<1>1. Down \in Backend /\ ~Down.up /\ Blank(Down) /\ Ended(Down) /\ Down.wrote = {}
  BY TenancyAssumption DEF Down, Backend, Blank, Ended
<1>2. /\ backend' \in [Clients -> Backend]
      /\ \A d \in Clients : backend'[d] = IF d = c THEN Down ELSE backend[d]
  BY <1>1 DEF TenancyIInv, Types
<1>3. Types' /\ Held' /\ Apart' /\ Rows' /\ Seen'
  BY <1>1, <1>2 DEF TenancyIInv, Types, Held, Apart, Rows, Seen, Begun, Settled
<1>4. breaks' \in 0..MaxBreaks
  BY TenancyAssumption DEF TenancyIInv, TenancyAssumption
<1>5. Served'
  <2> SUFFICES ASSUME NEW j \in Calls, task[j].pc \in InHand
               PROVE  Serves(backend'[task[j].client], task[j], j)
    BY DEF Served
  <2>1. task[j].client \in Clients
    BY TenancyAssumption DEF TenancyIInv, Held, Types, Task, TenancyAssumption
  <2>2. CASE task[j].client = c
    BY <2>2, <1>1, <1>2 DEF Serves
  <2>3. CASE task[j].client # c
    BY <2>1, <2>3, <1>2 DEF TenancyIInv, Served
  <2> QED BY <2>2, <2>3
<1>6. Unused'
  BY <1>1, <1>2 DEF TenancyIInv, Unused, Free
<1> QED BY <1>3, <1>4, <1>5, <1>6 DEF TenancyIInv

-----------------------------------------------------------------------------
(* The statements of a transaction, each an instance of Moves.             *)

LEMMA Holds ==
  ASSUME TenancyIInv, NEW k \in Calls, task[k].pc \in InHand
  PROVE  /\ task[k] \in Task /\ task[k].client \in Clients /\ task[k].client # NoClient
         /\ Here(k) \in Backend /\ Ended(Here(k)) /\ Serves(Here(k), task[k], k)
         /\ backend = [backend EXCEPT ![task[k].client] = Here(k)]
         /\ \A j \in task[k].seen : Begun(j) /\ task[k].for # NoTenant /\ task[j].for = task[k].for
         /\ stored \subseteq Calls /\ unheard \subseteq stored
         /\ k \in stored => k \in unheard
         /\ k \in unheard => task[k].pc = "rollback"
         /\ breaks \in 0..MaxBreaks
<1>1. task[k] \in Task /\ task[k].client \in Clients /\ task[k].client # NoClient
  BY TenancyAssumption DEF TenancyIInv, Types, Held, Task, TenancyAssumption
<1>2. Here(k) \in Backend /\ Ended(Here(k)) /\ Serves(Here(k), task[k], k)
  BY <1>1 DEF TenancyIInv, Types, Served, Here
<1>3. backend = [backend EXCEPT ![task[k].client] = Here(k)]
  BY <1>1 DEF TenancyIInv, Types, Here
<1>4. \A j \in task[k].seen : Begun(j) /\ task[k].for # NoTenant /\ task[j].for = task[k].for
  BY DEF TenancyIInv, Seen
<1>5. /\ stored \subseteq Calls /\ unheard \subseteq stored
      /\ k \in stored => k \in unheard
      /\ k \in unheard => task[k].pc = "rollback"
  BY DEF TenancyIInv, Rows, Settled, InHand
<1> QED BY <1>1, <1>2, <1>3, <1>4, <1>5 DEF TenancyIInv

\* Steps that change neither the session nor what is stored.
LEMMA Proceeds ==
  ASSUME TenancyIInv, NEW k \in Calls, task[k].pc \in InHand,
         NEW pc \in InHand \union {"rejected"},
         Put(k, pc, IF pc = "rejected" THEN NoClient ELSE task[k].client, task[k].seen),
         UNCHANGED <<backend, stored, unheard, breaks>>,
         pc = "rejected" => Blank(Here(k)),
         pc # "rejected" => Serves(Here(k), [task[k] EXCEPT !.pc = pc], k),
         k \in unheard => pc \in {"rollback", "rejected"}
  PROVE  TenancyIInv'
<1> DEFINE t == [pc |-> pc, for |-> task[k].for,
                 client |-> IF pc = "rejected" THEN NoClient ELSE task[k].client, seen |-> task[k].seen]
<1>1. t \in Task /\ t.pc = pc /\ t.for = task[k].for /\ t.seen = task[k].seen
  BY Holds DEF Task, InHand
<1>2. task' = [task EXCEPT ![k] = t] /\ backend' = [backend EXCEPT ![task[k].client] = Here(k)]
  BY Holds DEF Put
<1>3. \/ t.client = task[k].client /\ t.pc \in InHand /\ Serves(Here(k), t, k)
      \/ t.client = NoClient /\ t.pc \notin InHand /\ Blank(Here(k))
  BY DEF Serves, InHand
<1>4. Here(k) \in Backend /\ Ended(Here(k)) /\ t.pc # "new"
  BY Holds DEF InHand
<1>5. \A j \in t.seen : Begun(j) /\ t.for # NoTenant /\ task[j].for = t.for
  BY <1>1, Holds
<1>6. /\ stored \subseteq stored' /\ stored' \subseteq stored \union {k}
      /\ unheard' \subseteq stored' /\ unheard \subseteq unheard' /\ unheard' \subseteq unheard \union {k}
      /\ k \in stored' => t.pc = "resolved" \/ k \in unheard'
      /\ k \in unheard' => t.pc \in {"rollback", "rejected"}
      /\ breaks' \in 0..MaxBreaks
  BY <1>1, Holds
<1> HIDE DEF t
<1> QED BY <1>1, <1>2, <1>3, <1>4, <1>5, <1>6, Moves

\* Steps before COMMIT or ROLLBACK, which store nothing.
LEMMA Works ==
  ASSUME TenancyIInv, NEW k \in Calls, task[k].pc \in InHand \ {"rollback"},
         NEW s \in Backend, Ended(s), backend' = [backend EXCEPT ![task[k].client] = s],
         NEW pc \in InHand, NEW seen \in SUBSET Calls, Put(k, pc, task[k].client, seen),
         Serves(s, [pc |-> pc, for |-> task[k].for, client |-> task[k].client, seen |-> seen], k),
         \A j \in seen : Begun(j) /\ task[k].for # NoTenant /\ task[j].for = task[k].for,
         UNCHANGED <<stored, unheard, breaks>>
  PROVE  TenancyIInv'
<1> DEFINE t == [pc |-> pc, for |-> task[k].for, client |-> task[k].client, seen |-> seen]
<1>1. t \in Task /\ t.pc = pc /\ t.for = task[k].for /\ t.seen = seen /\ t.client = task[k].client /\ t.pc # "new"
  BY Holds DEF Task, InHand
<1>2. task' = [task EXCEPT ![k] = t]
  BY DEF Put
<1>3. t.client = task[k].client /\ t.pc \in InHand /\ Serves(s, t, k)
  BY <1>1
<1>4. k \notin stored /\ k \notin unheard /\ unheard \subseteq stored /\ breaks \in 0..MaxBreaks
  BY Holds
<1> HIDE DEF t
<1> QED BY <1>1, <1>2, <1>3, <1>4, Moves

LEMMA BeginTransactionStep == ASSUME TenancyIInv, NEW k \in Calls, BeginTransaction(k) PROVE TenancyIInv'
<1> USE DEF BeginTransaction, Live, Go
<1> DEFINE s == [Here(k) EXCEPT !.tx = "open"]
           pc == IF task[k].for = NoTenant THEN "work" ELSE "context"
<1>1. task[k].pc \in InHand \ {"rollback"} /\ pc \in InHand /\ Here(k).up
  BY DEF InHand
<1>2. s \in Backend /\ Ended(s) /\ Blank(s) /\ s.tx = "open"
  BY <1>1, Holds DEF Backend, Ended, Blank, Serves
<1>3. Serves(s, [pc |-> pc, for |-> task[k].for, client |-> task[k].client, seen |-> task[k].seen], k)
  BY <1>2 DEF Serves, Blank
<1>4. backend' = [backend EXCEPT ![task[k].client] = s]
  BY DEF Here
<1>5. /\ task[k].seen \in SUBSET Calls
      /\ \A j \in task[k].seen : Begun(j) /\ task[k].for # NoTenant /\ task[j].for = task[k].for
  BY <1>1, Holds DEF Task
<1>6. Put(k, pc, task[k].client, task[k].seen) /\ UNCHANGED <<stored, unheard, breaks>>
  BY DEF pc
<1> HIDE DEF s, pc, BeginTransaction, Live, Go
<1> QED BY <1>1, <1>2, <1>3, <1>4, <1>5, <1>6, Works

LEMMA SetContextStep == ASSUME TenancyIInv, NEW k \in Calls, SetContext(k) PROVE TenancyIInv'
<1> USE DEF SetContext, Live, Go
<1> DEFINE s == [Here(k) EXCEPT !.tenant = task[k].for]
<1>1. task[k].pc \in InHand \ {"rollback"} /\ "work" \in InHand /\ Here(k).up
  BY DEF InHand
<1>2. s \in Backend /\ Ended(s) /\ s.tx = "open" /\ s.tenant = task[k].for /\ s.wrote = {}
  BY <1>1, Holds DEF Backend, Task, Ended, Blank, Serves
<1>3. Serves(s, [pc |-> "work", for |-> task[k].for, client |-> task[k].client, seen |-> task[k].seen], k)
  BY <1>2 DEF Serves, Blank
<1>4. backend' = [backend EXCEPT ![task[k].client] = s]
  BY DEF Here
<1>5. /\ task[k].seen \in SUBSET Calls
      /\ \A j \in task[k].seen : Begun(j) /\ task[k].for # NoTenant /\ task[j].for = task[k].for
  BY <1>1, Holds DEF Task
<1> HIDE DEF s
<1> QED BY <1>1, <1>2, <1>3, <1>4, <1>5, Works

LEMMA SelectStep == ASSUME TenancyIInv, NEW k \in Calls, Select(k) PROVE TenancyIInv'
<1> USE DEF Select, Live
<1> DEFINE seen == task[k].seen \union Visible(k)
<1>1. task[k].pc \in InHand \ {"rollback"} /\ "work" \in InHand /\ Here(k).up
  BY DEF InHand
<1>2. Serves(Here(k), [pc |-> "work", for |-> task[k].for, client |-> task[k].client, seen |-> seen], k)
  BY <1>1, Holds DEF Serves, Blank
<1>3. \A j \in Visible(k) : j \in Calls /\ Begun(j) /\ task[k].for # NoTenant /\ task[j].for = task[k].for
  <2> SUFFICES ASSUME NEW j \in Visible(k)
               PROVE  j \in Calls /\ Begun(j) /\ task[k].for # NoTenant /\ task[j].for = task[k].for
    OBVIOUS
  <2>1. j \in stored \union {k}
    BY <1>1, Holds DEF Visible, Serves
  <2>2. j \in Calls /\ Begun(j)
    BY <2>1, <1>1 DEF TenancyIInv, Rows, Begun
  <2>3. Here(k).tenant = task[k].for
    BY <1>1, Holds DEF Serves
  <2> QED BY <2>2, <2>3 DEF Visible, Policy
<1>4. /\ seen \in SUBSET Calls
      /\ \A j \in seen : Begun(j) /\ task[k].for # NoTenant /\ task[j].for = task[k].for
  BY <1>1, <1>3, Holds DEF Task
<1>5. /\ Here(k) \in Backend /\ Ended(Here(k)) /\ backend' = [backend EXCEPT ![task[k].client] = Here(k)]
      /\ Put(k, "work", task[k].client, seen)
  BY <1>1, Holds
<1> HIDE DEF seen
<1> QED BY <1>1, <1>2, <1>4, <1>5, Works

LEMMA InsertStep == ASSUME TenancyIInv, NEW k \in Calls, Insert(k) PROVE TenancyIInv'
<1> USE DEF Insert, Live
<1> DEFINE s == [Here(k) EXCEPT !.wrote = Here(k).wrote \union {k}]
<1>1. task[k].pc \in InHand \ {"rollback"} /\ "work" \in InHand /\ Here(k).up
  BY DEF InHand
<1>2. s \in Backend /\ Ended(s) /\ s.tx = "open" /\ s.tenant = task[k].for /\ s.wrote = {k}
  BY <1>1, Holds DEF Backend, Ended, Blank, Serves
<1>3. Serves(s, [pc |-> "work", for |-> task[k].for, client |-> task[k].client, seen |-> task[k].seen], k)
  BY <1>2 DEF Serves, Blank
<1>4. backend' = [backend EXCEPT ![task[k].client] = s]
  BY DEF Here
<1>5. /\ task[k].seen \in SUBSET Calls
      /\ \A j \in task[k].seen : Begun(j) /\ task[k].for # NoTenant /\ task[j].for = task[k].for
  BY <1>1, Holds DEF Task
<1>6. task' = [task EXCEPT ![k] = [pc |-> "work", for |-> task[k].for, client |-> task[k].client, seen |-> task[k].seen]]
  BY Holds, <1>1 DEF TenancyIInv, Types, Task
<1> HIDE DEF s
<1> QED BY <1>1, <1>2, <1>3, <1>4, <1>5, <1>6, Works DEF Put

LEMMA StatementFailsStep == ASSUME TenancyIInv, NEW k \in Calls, StatementFails(k) PROVE TenancyIInv'
<1> USE DEF StatementFails, Live, Go
<1> DEFINE s == [Here(k) EXCEPT !.tx = "failed"]
<1>1. task[k].pc \in InHand \ {"rollback"} /\ "rollback" \in InHand /\ Here(k).up
  BY DEF InHand
<1>2. s \in Backend /\ Ended(s) /\ s.wrote \subseteq {k}
  BY <1>1, Holds DEF Backend, Ended, Serves
<1>3. Serves(s, [pc |-> "rollback", for |-> task[k].for, client |-> task[k].client, seen |-> task[k].seen], k)
  BY <1>2 DEF Serves
<1>4. backend' = [backend EXCEPT ![task[k].client] = s]
  BY DEF Here
<1>5. /\ task[k].seen \in SUBSET Calls
      /\ \A j \in task[k].seen : Begun(j) /\ task[k].for # NoTenant /\ task[j].for = task[k].for
  BY <1>1, Holds DEF Task
<1> HIDE DEF s
<1> QED BY <1>1, <1>2, <1>3, <1>4, <1>5, Works

LEMMA ReturnStep == ASSUME TenancyIInv, NEW k \in Calls, Return(k) \/ Throw(k) PROVE TenancyIInv'
<1> USE DEF Return, Throw, Live, Go
<1>1. task[k].pc = "work" /\ task[k].pc \in InHand /\ Here(k).up
  BY DEF InHand
<1>2. PICK pc \in {"commit", "rollback"} : Put(k, pc, task[k].client, task[k].seen)
  OBVIOUS
<1>3. pc \in InHand \union {"rejected"} /\ pc # "rejected" /\ k \notin unheard
  BY <1>1, Holds DEF InHand
<1>4. Serves(Here(k), [task[k] EXCEPT !.pc = pc], k)
  BY <1>1, <1>3, Holds DEF Serves, Task
<1> QED BY <1>1, <1>2, <1>3, <1>4, Proceeds

LEMMA FindBrokenStep == ASSUME TenancyIInv, NEW k \in Calls, FindBroken(k) PROVE TenancyIInv'
<1> USE DEF FindBroken, Go, Release
<1>1. task[k].pc \in InHand \ {"rollback"} /\ ~Here(k).up
  BY DEF InHand
<1>2. Blank(Here(k)) /\ k \notin unheard
  BY <1>1, Holds DEF Ended
<1>3. Serves(Here(k), [task[k] EXCEPT !.pc = "rollback"], k)
  BY <1>1, <1>2 DEF Serves, Blank
<1>4. CASE task[k].pc = "query"
  BY <1>1, <1>2, <1>4, Proceeds
<1>5. CASE task[k].pc # "query"
  BY <1>1, <1>2, <1>3, <1>5, Proceeds DEF InHand
<1> QED BY <1>4, <1>5

\* Steps that release the client.
LEMMA Releases ==
  ASSUME TenancyIInv, NEW k \in Calls, task[k].pc \in InHand,
         NEW s \in Backend, Ended(s), Blank(s), backend' = [backend EXCEPT ![task[k].client] = s],
         NEW pc \in {"resolved", "rejected"}, Put(k, pc, NoClient, task[k].seen),
         stored \subseteq stored', stored' \subseteq stored \union {k},
         pc = "rejected" => stored' = stored,
         pc = "resolved" => task[k].pc # "rollback",
         UNCHANGED <<unheard, breaks>>
  PROVE  TenancyIInv'
<1> DEFINE t == [pc |-> pc, for |-> task[k].for, client |-> NoClient, seen |-> task[k].seen]
<1>1. t \in Task /\ t.pc = pc /\ t.for = task[k].for /\ t.seen = task[k].seen /\ t.client = NoClient
  BY Holds DEF Task
<1>2. task' = [task EXCEPT ![k] = t]
  BY DEF Put
<1>3. t.pc # "new" /\ t.pc \notin InHand
  BY <1>1 DEF InHand
<1>4. \A j \in t.seen : Begun(j) /\ t.for # NoTenant /\ task[j].for = t.for
  BY <1>1, Holds
<1>5. /\ unheard' \subseteq stored' /\ breaks' \in 0..MaxBreaks
      /\ k \in stored' => t.pc = "resolved" \/ k \in unheard'
      /\ k \in unheard' => t.pc \in {"rollback", "rejected"}
  BY <1>1, Holds
<1> HIDE DEF t
<1> QED BY <1>1, <1>2, <1>3, <1>4, <1>5, Moves

LEMMA CleanIsBlank == Clean \in Backend /\ Ended(Clean) /\ Blank(Clean)
BY DEF Clean, Backend, Ended, Blank

LEMMA CommitStep == ASSUME TenancyIInv, NEW k \in Calls, Commit(k) PROVE TenancyIInv'
<1> USE DEF Commit, Live, Release
<1>1. task[k].pc \in InHand /\ task[k].pc # "rollback"
  BY DEF InHand
<1>2. stored \subseteq stored' /\ stored' \subseteq stored \union {k}
  BY <1>1, Holds DEF Committed, Serves
<1> QED BY <1>1, <1>2, CleanIsBlank, Releases

LEMMA RollbackStep == ASSUME TenancyIInv, NEW k \in Calls, Rollback(k) PROVE TenancyIInv'
<1> USE DEF Rollback, Release
<1>1. task[k].pc \in InHand
  BY DEF InHand
<1>2. CASE Here(k).up
  BY <1>1, <1>2, CleanIsBlank, Releases
<1>3. CASE ~Here(k).up
  <2>1. Blank(Here(k)) /\ Ended(Here(k)) /\ Here(k) \in Backend
    BY <1>1, <1>3, Holds DEF Ended
  <2>2. backend' = [backend EXCEPT ![task[k].client] = Here(k)]
    BY <1>1, <1>3, Holds
  <2> QED BY <1>1, <2>1, <2>2, Releases
<1> QED BY <1>2, <1>3

LEMMA CommitUnheardStep == ASSUME TenancyIInv, NEW k \in Calls, CommitUnheard(k) PROVE TenancyIInv'
<1> USE DEF CommitUnheard, Live, Go
<1> DEFINE t == [pc |-> "rollback", for |-> task[k].for, client |-> task[k].client, seen |-> task[k].seen]
<1>1. task[k].pc \in InHand /\ task[k].pc = "commit"
  BY DEF InHand
<1>2. /\ t \in Task /\ t.pc = "rollback" /\ t.for = task[k].for /\ t.seen = task[k].seen
      /\ t.client = task[k].client
  BY <1>1, Holds DEF Task
<1>3. task' = [task EXCEPT ![k] = t]
  BY DEF Put
<1>4. Down \in Backend /\ Ended(Down) /\ Serves(Down, t, k)
  BY <1>2 DEF Down, Backend, Ended, Blank, Serves
<1>5. \A j \in t.seen : Begun(j) /\ t.for # NoTenant /\ task[j].for = t.for
  BY <1>1, <1>2, Holds
<1>6. Committed(k) \subseteq {k}
  BY <1>1, Holds DEF Committed, Serves
<1>7. /\ stored \subseteq stored' /\ stored' \subseteq stored \union {k}
      /\ unheard' \subseteq stored' /\ unheard \subseteq unheard' /\ unheard' \subseteq unheard \union {k}
      /\ k \in stored' => k \in unheard'
  BY <1>1, <1>6, Holds
<1>8. breaks' \in 0..MaxBreaks
  BY TenancyAssumption DEF TenancyIInv, TenancyAssumption
<1>9. t.pc # "new" /\ t.pc \in InHand
  BY <1>2 DEF InHand
<1> HIDE DEF t
<1> QED BY <1>1, <1>2, <1>3, <1>4, <1>5, <1>7, <1>8, <1>9, Moves

LEMMA QueryStep == ASSUME TenancyIInv, NEW k \in Calls, Query(k) PROVE TenancyIInv'
<1> USE DEF Query, Live
<1> DEFINE t == [pc |-> "resolved", for |-> task[k].for, client |-> NoClient, seen |-> Visible(k)]
<1>1. task[k].pc \in InHand /\ task[k].pc = "query" /\ Here(k).up
  BY DEF InHand
<1>2. Blank(Here(k))
  BY <1>1, Holds DEF Serves
<1>3. Visible(k) = {}
  BY <1>2 DEF Visible, Policy, Blank
<1>4. /\ t \in Task /\ t.pc = "resolved" /\ t.for = task[k].for /\ t.seen = {}
      /\ t.client = NoClient
  BY <1>1, <1>3, Holds DEF Task
<1>5. task' = [task EXCEPT ![k] = t]
  BY DEF Put
<1>6. backend' = [backend EXCEPT ![task[k].client] = Here(k)] /\ Here(k) \in Backend /\ Ended(Here(k))
  BY <1>1, Holds
<1>7. k \notin stored /\ k \notin unheard /\ unheard \subseteq stored /\ breaks \in 0..MaxBreaks
  BY <1>1, Holds
<1>8. t.pc # "new" /\ t.pc \notin InHand
  BY <1>4 DEF InHand
<1> HIDE DEF t
<1> QED BY <1>1, <1>2, <1>4, <1>5, <1>6, <1>7, <1>8, Moves

-----------------------------------------------------------------------------
(* The theorems. *)

LEMMA Preserved == TenancyIInv /\ [TenancyNext]_tenancyVars => TenancyIInv'
<1> SUFFICES ASSUME TenancyIInv, [TenancyNext]_tenancyVars PROVE TenancyIInv' OBVIOUS
<1>1. ASSUME NEW k \in Calls, TenancyStep(k) PROVE TenancyIInv'
  <2>1. CASE \E c \in Clients : \/ StartQuery(k, c)
                                \/ \E who \in Tenants \union {NoTenant} : StartTransaction(k, c, who)
    BY <2>1, Obtains DEF StartQuery, StartTransaction
  <2>2. CASE \E who \in Tenants \union {NoTenant} : NoClientInTime(k, who)
    BY <2>2, GivesUp
  <2> QED BY <1>1, <2>1, <2>2, BeginTransactionStep, SetContextStep, SelectStep, InsertStep, ReturnStep, StatementFailsStep,
             CommitStep, CommitUnheardStep, RollbackStep, FindBrokenStep, QueryStep DEF TenancyStep
<1>2. CASE \E c \in Clients : Break(c)
  BY <1>2, Breaks
<1>3. CASE UNCHANGED tenancyVars
  BY <1>3 DEF tenancyVars, TenancyIInv, Types, Held, Apart, Served, Unused, Free, Rows, Seen, Begun, Settled
<1> QED BY <1>1, <1>2, <1>3 DEF TenancyNext

\* INV1: a call sees rows of its own account only, whatever its client served before.
THEOREM OwnRowsAlways == TenancySpec => []OwnRowsOnly
BY Start, Preserved, SeenIsOwn, PTL DEF TenancySpec

\* The sessions, calls and rows have their types, and a setting ends with its transaction.
THEOREM TenancyTypes == TenancySpec => []TenancyTypeOK
BY Start, Preserved, Typed, PTL DEF TenancySpec

\* Nothing of a rejected call is stored, but for the answer of a COMMIT that was lost.
THEOREM RejectedLeavesNothingEver == TenancySpec => []RejectedLeavesNothing
BY Start, Preserved, NothingLeft, PTL DEF TenancySpec

\* Both, as the runs check them.
THEOREM TenancySound == TenancySpec => []TenancyInv
BY TenancyTypes, RejectedLeavesNothingEver, PTL DEF TenancyInv

\* A call that resolves has committed what it wrote.
THEOREM ResolvedIsCommittedAlways == TenancySpec => ResolvedIsCommitted
<1> DEFINE Told == \A k \in Calls : task[k].pc = "commit" /\ task'[k].pc = "resolved" =>
                     Here(k).wrote \subseteq stored' /\ Here(k).tx = "open"
<1>1. TenancyIInv /\ [TenancyNext]_tenancyVars => [Told]_tenancyVars
  <2> SUFFICES ASSUME TenancyIInv, TenancyNext, NEW k \in Calls, task[k].pc = "commit", task'[k].pc = "resolved"
               PROVE  Here(k).wrote \subseteq stored' /\ Here(k).tx = "open"
    OBVIOUS
  <2>1. task[k] \in Task /\ task \in [Calls -> Task]
    BY DEF TenancyIInv, Types
  <2>2. PICK j \in Calls : TenancyStep(j)
    BY DEF TenancyNext, Break
  <2>3. j = k
    BY <2>1, <2>2 DEF TenancyStep, StartQuery, StartTransaction, Obtain, NoClientInTime, BeginTransaction,
       SetContext, Select, Insert, Return, StatementFails, Throw, Commit, CommitUnheard, Rollback,
       FindBroken, Query, Go, Release, Put
  <2>4. Commit(k)
    BY <2>1, <2>2, <2>3 DEF TenancyStep, StartQuery, StartTransaction, Obtain, NoClientInTime, BeginTransaction,
       SetContext, Select, Insert, Return, StatementFails, Throw, CommitUnheard, Rollback,
       FindBroken, Query, Go, Release, Put, Live
  <2>5. Here(k).up /\ task[k].pc \in InHand
    BY <2>4 DEF Commit, Live, InHand
  <2>6. Here(k).tx = "open"
    BY <2>5, Holds DEF Serves
  <2> QED BY <2>4, <2>6 DEF Commit, Committed
<1> QED BY <1>1, Start, Preserved, PTL DEF TenancySpec, ResolvedIsCommitted
=============================================================================
