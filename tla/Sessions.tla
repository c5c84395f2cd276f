------------------------------ MODULE Sessions ------------------------------
(***************************************************************************)
(* Sessions of the Auth Service.  validateSession runs at the start of     *)
(* every authenticated request, in three steps of its own: one transaction *)
(* reads the session, the process compares its last activity with the      *)
(* clock, and a second transaction refreshes or revokes it.  Requests of   *)
(* one session, and its logout, interleave between those steps.            *)
(***************************************************************************)
EXTENDS Naturals, FiniteSets

CONSTANTS Tokens,     \* session tokens; each login draws a new one
          Requests,   \* requests that may be in progress at once
          NoToken,    \* a request without a session
          Inactivity, \* SESSION_INACTIVITY_MINUTES, in ticks
          MaxTime,    \* bound: ticks
          MaxFaults   \* bound: crashes and failed transactions

ASSUME SessionsAssumption ==
  /\ NoToken \notin Tokens
  /\ Inactivity \in Nat
  /\ MaxTime \in Nat
  /\ MaxFaults \in Nat

VARIABLES now,     \* the clock
          session, \* user_session
          req,     \* the requests
          refused, \* sessions that were refused as expired
          faults   \* failures so far

vars == <<now, session, req, refused, faults>>

NoSession == [state |-> "none", last |-> 0]
\* last and idle are what the first transaction read, idle being how long the
\* session had not been used then; after records whether it was refused before.
IdleReq == [pc |-> "idle", token |-> NoToken, last |-> 0, idle |-> 0, after |-> FALSE]

TypeOK ==
  /\ now \in 0..MaxTime
  /\ session \in [Tokens -> [state : {"none", "active", "revoked"}, last : 0..MaxTime]]
  /\ req \in [Requests -> [pc : {"idle", "check", "touch", "revoke"}, token : Tokens \union {NoToken},
                           last : 0..MaxTime, idle : 0..MaxTime, after : BOOLEAN]]
  /\ refused \subseteq {t \in Tokens : session[t].state = "revoked"}
  /\ faults \in 0..MaxFaults

Init ==
  /\ now = 0
  /\ session = [t \in Tokens |-> NoSession]
  /\ req = [q \in Requests |-> IdleReq]
  /\ refused = {}
  /\ faults = 0

Tick ==
  /\ now < MaxTime
  /\ now' = now + 1
  /\ UNCHANGED <<session, req, refused, faults>>

\* login, after the credentials have been verified.
Login(t) ==
  /\ session[t].state = "none"
  /\ session' = [session EXCEPT ![t] = [state |-> "active", last |-> now]]
  /\ UNCHANGED <<now, req, refused, faults>>

\* logout: the row is marked if it is not yet.
Logout(t) ==
  /\ session[t].state = "active"
  /\ session' = [session EXCEPT ![t].state = "revoked"]
  /\ UNCHANGED <<now, req, refused, faults>>

-----------------------------------------------------------------------------
(* validateSession. *)

Findable(t) == session[t].state = "active"

\* findActiveSessionByTokenHash; a token that is not found is refused at once.
Find(q, t) ==
  /\ req[q].pc = "idle"
  /\ Findable(t)
  /\ req' = [req EXCEPT ![q] = [pc |-> "check", token |-> t, last |-> session[t].last,
                                idle |-> now - session[t].last, after |-> t \in refused]]
  /\ UNCHANGED <<now, session, refused, faults>>

\* Mutant: the session is given one tick more.
TooOldLate(last) == now - last > Inactivity + 1
TooOld(last) == now - last > Inactivity

Check(q) ==
  /\ req[q].pc = "check"
  /\ req' = [req EXCEPT ![q].pc = IF TooOld(req[q].last) THEN "revoke" ELSE "touch"]
  /\ UNCHANGED <<now, session, refused, faults>>

\* revokeSession commits, then the request is refused.
Revoke(q) ==
  /\ req[q].pc = "revoke"
  /\ session' = [session EXCEPT ![req[q].token].state = "revoked"]
  /\ refused' = refused \union {req[q].token}
  /\ req' = [req EXCEPT ![q] = IdleReq]
  /\ UNCHANGED <<now, faults>>

\* touchSession, whatever has become of the session; then the request goes on.
Touch(q) ==
  /\ req[q].pc = "touch"
  /\ session' = [session EXCEPT ![req[q].token].last = now]
  /\ req' = [req EXCEPT ![q] = IdleReq]
  /\ UNCHANGED <<now, refused, faults>>

\* A transaction of the request fails, or the process dies with all of them.
Fail(Q) ==
  /\ faults < MaxFaults
  /\ \A q \in Q : req[q].pc # "idle"
  /\ faults' = faults + 1
  /\ req' = [q \in Requests |-> IF q \in Q THEN IdleReq ELSE req[q]]
  /\ UNCHANGED <<now, session, refused>>

Next ==
  \/ Tick
  \/ \E t \in Tokens : Login(t) \/ Logout(t)
  \/ \E q \in Requests, t \in Tokens : Find(q, t)
  \/ \E q \in Requests : Check(q) \/ Revoke(q) \/ Touch(q)
  \/ \E Q \in SUBSET Requests \ {{}} : Fail(Q)

Spec == Init /\ [][Next]_vars

-----------------------------------------------------------------------------
(* Properties. *)

\* The request q is let through.
Authorised(q) == req[q].pc = "touch" /\ req'[q].pc = "idle" /\ faults' = faults

\* REQ 2.3: a request that begins when its session has been idle for too long is
\* not let through, whatever other requests of the session do meanwhile; nor is
\* one that begins after a refusal: "expired sessions are revoked in a committed
\* transaction so the revocation is durable" (auth/service.ts:122).
OnlyLivePass ==
  [][\A q \in Requests : Authorised(q) => req[q].idle <= Inactivity /\ ~req[q].after]_vars
=============================================================================
