------------------------------- MODULE Access -------------------------------
(***************************************************************************)
(* Who may do what: registration, login, and the way of a request that     *)
(* changes something through requireAuth (Sessions), requireWrite or       *)
(* requireOwner, and its handler.  Each of these is a transaction of its   *)
(* own, and between them other requests run and the billing job restricts  *)
(* or reactivates the account.                                             *)
(***************************************************************************)
EXTENDS Sessions

CONSTANTS Accounts, \* business accounts; a registration makes its own
          Emails,   \* lower-case e-mail addresses, which identify the users
          Nobody    \* no user

ASSUME AccessAssumption == Nobody \notin Emails

VARIABLES account, \* business_account: status and owner_user_id
          user,    \* business_user, unique by lower(email)
          reg,     \* the registration that makes each account
          holder,  \* the user of each session
          call     \* the requests that change something, beyond their session

accessVars == <<account, user, reg, holder, call>>
allVars == <<vars, accessVars>>

Roles == {"owner", "manager", "viewer"}
NoAccount == [status |-> "none", owner |-> Nobody]
NoUser == [account |-> Nobody, role |-> "none"]
IdleReg == [pc |-> "idle", email |-> Nobody]
\* locked: a write whose account has been restricted ever since the request began.
IdleCall == [pc |-> "idle", route |-> "none", user |-> Nobody, locked |-> FALSE]

Account == [status : {"active", "read_only"}, owner : Emails] \union {NoAccount}
User == [account : Accounts, role : Roles] \union {NoUser}
Reg == [pc : {"insert", "commit"}, email : Emails] \union {IdleReg}
Call == [pc : {"validate", "gate", "handler"}, route : {"write", "billing"},
         user : Emails, locked : BOOLEAN] \union {IdleCall}

AccessTypeOK ==
  /\ account \in [Accounts -> Account]
  /\ user \in [Emails -> User]
  /\ reg \in [Accounts -> Reg]
  /\ holder \in [Tokens -> Emails \union {Nobody}]
  /\ call \in [Requests -> Call]

AccessInit ==
  /\ Init
  /\ account = [a \in Accounts |-> NoAccount]
  /\ user = [e \in Emails |-> NoUser]
  /\ reg = [a \in Accounts |-> IdleReg]
  /\ holder = [t \in Tokens |-> Nobody]
  /\ call = [q \in Requests |-> IdleCall]

-----------------------------------------------------------------------------
(* register: one transaction, whose statements see what others committed.  *)

\* findUserByEmail finds nobody.  (A known address is refused: nothing changes.)
RegisterFind(a, e) ==
  /\ reg[a].pc = "idle"
  /\ account[a] = NoAccount
  /\ user[e] = NoUser
  /\ reg' = [reg EXCEPT ![a] = [pc |-> "insert", email |-> e]]
  /\ UNCHANGED <<vars, account, user, holder, call>>

\* Rows of another transaction under way that the unique index makes wait for.
Pending(e) == {a \in Accounts : reg[a].pc = "commit" /\ reg[a].email = e}

\* Mutant: the index is not unique.
RegisterInsertAgain(a) ==
  /\ reg[a].pc = "insert"
  /\ reg' = [reg EXCEPT ![a].pc = "commit"]
  /\ UNCHANGED <<vars, account, user, holder, call>>

\* createBusinessAccount and createUser; a user who is there by now is a unique
\* violation, which rolls back and is reported as a duplicate.
RegisterInsert(a) ==
  /\ reg[a].pc = "insert"
  /\ Pending(reg[a].email) = {}
  /\ reg' = [reg EXCEPT ![a] = IF user[reg[a].email] = NoUser
                               THEN [pc |-> "commit", email |-> reg[a].email] ELSE IdleReg]
  /\ UNCHANGED <<vars, account, user, holder, call>>

\* setAccountOwner and the commit.
RegisterCommit(a) ==
  /\ reg[a].pc = "commit"
  /\ account' = [account EXCEPT ![a] = [status |-> "active", owner |-> reg[a].email]]
  /\ user' = [user EXCEPT ![reg[a].email] = [account |-> a, role |-> "owner"]]
  /\ reg' = [reg EXCEPT ![a] = IdleReg]
  /\ UNCHANGED <<vars, holder, call>>

RegisterFails(a) ==
  /\ reg[a].pc # "idle"
  /\ reg' = [reg EXCEPT ![a] = IdleReg]
  /\ UNCHANGED <<vars, account, user, holder, call>>

\* createUser for another member; no route does, the operator may.
AddMember(e, a, role) ==
  /\ account[a].status # "none"
  /\ user[e] = NoUser
  /\ Pending(e) = {}
  /\ user' = [user EXCEPT ![e] = [account |-> a, role |-> role]]
  /\ UNCHANGED <<vars, account, reg, holder, call>>

\* login with the right password.
LoginAs(t, e) ==
  /\ user[e] # NoUser
  /\ Login(t)
  /\ holder' = [holder EXCEPT ![t] = e]
  /\ UNCHANGED <<account, user, reg, call>>

-----------------------------------------------------------------------------
(* A request to change something. *)

AccountOf(q) == user[call[q].user].account
RoleOf(q) == user[call[q].user].role

\* requireAuth finds the session, joined with its user.
Begin(q, t, route) ==
  /\ call[q].pc = "idle"
  /\ Find(q, t)
  /\ call' = [call EXCEPT ![q] =
       [pc |-> "validate", route |-> route, user |-> holder[t],
        locked |-> route = "write" /\ account[user[holder[t]].account].status = "read_only"]]
  /\ UNCHANGED <<account, user, reg, holder>>

CanWrite(role) == role \in {"owner", "manager"}
IsOwner(role) == role = "owner"
\* What requireWrite's assertCanWrite and requireOwner let through.
RoleAllows(q) == IF call[q].route = "write" THEN CanWrite(RoleOf(q)) ELSE IsOwner(RoleOf(q))

\* The rest of requireAuth, and what the next middleware decides by the role.
Validate(q) ==
  \/ Check(q) /\ UNCHANGED accessVars
  \/ /\ Revoke(q)
     /\ call' = [call EXCEPT ![q] = IdleCall]
     /\ UNCHANGED <<account, user, reg, holder>>
  \/ /\ Touch(q)
     /\ call' = [call EXCEPT ![q] =
          IF RoleAllows(q) THEN [call[q] EXCEPT !.pc = IF call[q].route = "write" THEN "gate" ELSE "handler"]
          ELSE IdleCall]
     /\ UNCHANGED <<account, user, reg, holder>>

\* Mutant: the status of the account is not looked at.
NotRestrictedIgnored(q) == AccountOf(q) \in Accounts
NotRestricted(q) == account[AccountOf(q)].status # "read_only"

\* The rest of requireWrite, getAccountSystem's transaction and the answer
\* Forbidden if the account is restricted.
RequireWrite(q) ==
  /\ call[q].pc = "gate"
  /\ call' = [call EXCEPT ![q] = IF NotRestricted(q) THEN [call[q] EXCEPT !.pc = "handler"] ELSE IdleCall]
  /\ UNCHANGED <<vars, account, user, reg, holder>>

\* A handler's runWrite and its transaction, which does not look at the status.
Write(q) ==
  /\ call[q].pc = "handler" /\ call[q].route = "write"
  /\ CanWrite(RoleOf(q))
  /\ call' = [call EXCEPT ![q] = IdleCall]
  /\ UNCHANGED <<vars, account, user, reg, holder>>

\* The account becomes s: no request under way is locked once it is active.  The
\* calls in over end here.
SetStatus(a, s, over) ==
  /\ account' = [account EXCEPT ![a].status = s]
  /\ call' = [q \in Requests |->
       IF q \in over THEN IdleCall
       ELSE IF s = "active" /\ call[q].pc # "idle" /\ AccountOf(q) = a
            THEN [call[q] EXCEPT !.locked = FALSE] ELSE call[q]]

\* subscribe, which asserts the owner again, or pay, with its outcome s.
Recover(q, s) ==
  /\ call[q].pc = "handler" /\ call[q].route = "billing"
  /\ IsOwner(RoleOf(q))
  /\ SetStatus(AccountOf(q), s, {q})
  /\ UNCHANGED <<vars, user, reg, holder>>

\* runBillingCycle records a failure at the cap, or a success.
Bill(a, s) ==
  /\ account[a].status # "none"
  /\ SetStatus(a, s, {})
  /\ UNCHANGED <<vars, user, reg, holder>>

\* The handler fails, or the process dies when the session has been validated.
HandlerFails(q) ==
  /\ call[q].pc \in {"gate", "handler"}
  /\ call' = [call EXCEPT ![q] = IdleCall]
  /\ UNCHANGED <<vars, account, user, reg, holder>>

\* As Sessions has it: a transaction fails, or the process dies with all.
ValidationFails(Q) ==
  /\ Fail(Q)
  /\ call' = [q \in Requests |-> IF q \in Q THEN IdleCall ELSE call[q]]
  /\ UNCHANGED <<account, user, reg, holder>>

-----------------------------------------------------------------------------
AccessNext ==
  \/ Tick /\ UNCHANGED accessVars
  \/ \E t \in Tokens : \/ Logout(t) /\ UNCHANGED accessVars
                       \/ \E e \in Emails : LoginAs(t, e)
  \/ \E a \in Accounts :
       \/ RegisterInsert(a) \/ RegisterCommit(a) \/ RegisterFails(a)
       \/ \E e \in Emails : RegisterFind(a, e) \/ \E role \in Roles \ {"owner"} : AddMember(e, a, role)
       \/ \E s \in {"active", "read_only"} : Bill(a, s)
  \/ \E q \in Requests :
       \/ \E t \in Tokens, route \in {"write", "billing"} : Begin(q, t, route)
       \/ Validate(q) \/ RequireWrite(q) \/ Write(q) \/ HandlerFails(q)
       \/ \E s \in {"active", "read_only"} : Recover(q, s)
  \/ \E Q \in SUBSET Requests \ {{}} : ValidationFails(Q)

AccessSpec == AccessInit /\ [][AccessNext]_allVars

-----------------------------------------------------------------------------
(* Properties. *)

\* REQ 1.1, 1.2: every account has an owner of its own, who belongs to it,
\* although two registrations of one address may both find it free.
AccountHasOwner ==
  \A a \in Accounts : account[a].status # "none" =>
    /\ account[a].owner \in Emails
    /\ user[account[a].owner] = [account |-> a, role |-> "owner"]

\* REQ 13.5 as far as the code goes: a write is not committed for an account that
\* has been restricted since before the request; one restricted after
\* requireWrite looked is written to once more by each request past it.
RestrictionHolds == [][\A q \in Requests : Write(q) => ~call[q].locked]_allVars

\* The rows, the sessions and the requests have their types, and every account
\* has its owner.
AccessInv == TypeOK /\ AccessTypeOK /\ AccountHasOwner
=============================================================================
