------------------------------ MODULE Tenancy ------------------------------
(***************************************************************************)
(* Transactions of the application role and the rows they may see: the     *)
(* clients of the pool, the transaction and the tenant setting of the      *)
(* server session behind each, and the row level security policy that      *)
(* reads the setting.  Clients are used again, by calls for other accounts *)
(* and by calls for none; statements fail and connections break.           *)
(***************************************************************************)
EXTENDS Naturals, FiniteSets

CONSTANTS Tenants,   \* business accounts
          NoTenant,  \* no account: withTransaction, query
          Calls,     \* bound: calls of withTenant, withTransaction and query
          Clients,   \* clients the pool may open: PG_POOL_MAX
          NoClient,
          MaxBreaks  \* bound: broken connections

ASSUME TenancyAssumption ==
  /\ NoTenant \notin Tenants
  /\ NoClient \notin Clients
  /\ MaxBreaks \in Nat

VARIABLES task,     \* the calls; each inserts at most one row, named by the call
          backend,  \* the server session behind each client
          stored,   \* rows that are committed
          unheard,  \* ghost: calls whose COMMIT succeeded without an answer
          breaks    \* connections that broke

tenancyVars == <<task, backend, stored, unheard, breaks>>

NewTask == [pc |-> "new", for |-> NoTenant, client |-> NoClient, seen |-> {}]
\* What a new connection has, and what the end of a transaction leaves.
Clean == [up |-> TRUE, tx |-> "none", tenant |-> NoTenant, wrote |-> {}]
Down == [up |-> FALSE, tx |-> "none", tenant |-> NoTenant, wrote |-> {}]

TenancyTypeOK ==
  /\ task \in [Calls -> [pc : {"new", "query", "begin", "context", "work", "commit", "rollback",
                               "resolved", "rejected"},
                         for : Tenants \union {NoTenant}, client : Clients \union {NoClient},
                         seen : SUBSET Calls]]
  /\ backend \in [Clients -> [up : BOOLEAN, tx : {"none", "open", "failed"},
                              tenant : Tenants \union {NoTenant}, wrote : SUBSET Calls]]
  /\ \A c \in Clients : backend[c].tx = "none" => backend[c].tenant = NoTenant /\ backend[c].wrote = {}
  /\ stored \subseteq Calls /\ unheard \subseteq stored
  /\ breaks \in 0..MaxBreaks

TenancyInit ==
  /\ task = [k \in Calls |-> NewTask]
  /\ backend = [c \in Clients |-> Down]
  /\ stored = {} /\ unheard = {}
  /\ breaks = 0

Free == {c \in Clients : \A k \in Calls : task[k].client # c}

\* pool.connect: an idle client if there is one, else a new one.  A client that
\* is not up is not in the pool any more.
Obtain(k, c, who, first) ==
  /\ task[k].pc = "new"
  /\ c \in Free
  /\ backend[c].up \/ \A f \in Free : ~backend[f].up
  /\ task' = [task EXCEPT ![k] = [pc |-> first, for |-> who, client |-> c, seen |-> {}]]
  /\ backend' = IF backend[c].up THEN backend ELSE [backend EXCEPT ![c] = Clean]
  /\ UNCHANGED <<stored, unheard, breaks>>

\* withTenant(who) or withTransaction.
StartTransaction(k, c, who) == Obtain(k, c, who, "begin")

\* query, which is the health check's.
StartQuery(k, c) == Obtain(k, c, NoTenant, "query")

\* No client within connectionTimeoutMillis.
NoClientInTime(k, who) ==
  /\ task[k].pc = "new"
  /\ Free = {}
  /\ task' = [task EXCEPT ![k] = [pc |-> "rejected", for |-> who, client |-> NoClient, seen |-> {}]]
  /\ UNCHANGED <<backend, stored, unheard, breaks>>

-----------------------------------------------------------------------------
(* The statements of one transaction. *)

Put(k, pc, client, seen) ==
  task' = [task EXCEPT ![k] = [pc |-> pc, for |-> task[k].for, client |-> client, seen |-> seen]]
Go(k, pc) == Put(k, pc, task[k].client, task[k].seen)
\* finally: client.release().
Release(k, pc) == Put(k, pc, NoClient, task[k].seen)

Here(k) == backend[task[k].client]
Live(k, pc) == task[k].pc = pc /\ Here(k).up

BeginTransaction(k) ==
  /\ Live(k, "begin")
  /\ backend' = [backend EXCEPT ![task[k].client].tx = "open"]
  /\ Go(k, IF task[k].for = NoTenant THEN "work" ELSE "context")
  /\ UNCHANGED <<stored, unheard, breaks>>

\* set_config('app.business_account_id', id, true).
SetContext(k) ==
  /\ Live(k, "context")
  /\ backend' = [backend EXCEPT ![task[k].client].tenant = task[k].for]
  /\ Go(k, "work")
  /\ UNCHANGED <<stored, unheard, breaks>>

\* business_account_id = app_current_tenant(), which is NULL when it is not set.
Policy(k, j) == Here(k).tenant # NoTenant /\ task[j].for = Here(k).tenant

\* A statement that forgets its WHERE clause sees what the policy leaves.
Visible(k) == {j \in stored \union Here(k).wrote : Policy(k, j)}

Select(k) ==
  /\ Live(k, "work")
  /\ Put(k, "work", task[k].client, task[k].seen \union Visible(k))
  /\ UNCHANGED <<backend, stored, unheard, breaks>>

\* A row for the account of the call, which the policy checks as well.
Insert(k) ==
  /\ Live(k, "work")
  /\ k \notin Here(k).wrote
  /\ Policy(k, k)
  /\ backend' = [backend EXCEPT ![task[k].client].wrote = @ \union {k}]
  /\ UNCHANGED <<task, stored, unheard, breaks>>

\* fn returns.
Return(k) ==
  /\ Live(k, "work")
  /\ Go(k, "commit")
  /\ UNCHANGED <<backend, stored, unheard, breaks>>

\* Mutant: fn catches the error of its statement and returns.
FailSwallowed(k) ==
  /\ Live(k, "work")
  /\ backend' = [backend EXCEPT ![task[k].client].tx = "failed"]
  /\ Go(k, "commit")
  /\ UNCHANGED <<stored, unheard, breaks>>

\* A statement fails, of fn or the policy's check, and fn throws.
StatementFails(k) ==
  /\ Live(k, "work")
  /\ backend' = [backend EXCEPT ![task[k].client].tx = "failed"]
  /\ Go(k, "rollback")
  /\ UNCHANGED <<stored, unheard, breaks>>

\* fn throws without a failed statement.
Throw(k) ==
  /\ Live(k, "work")
  /\ Go(k, "rollback")
  /\ UNCHANGED <<backend, stored, unheard, breaks>>

\* What COMMIT stores: nothing in a failed transaction, and that is no error.
Committed(k) == IF Here(k).tx = "open" THEN Here(k).wrote ELSE {}

\* Mutant: set_config(..., false), for the session instead of the transaction.
CommitKeepingTenant(k) ==
  /\ Live(k, "commit")
  /\ stored' = stored \union Committed(k)
  /\ backend' = [backend EXCEPT ![task[k].client] = [Clean EXCEPT !.tenant = Here(k).tenant]]
  /\ Release(k, "resolved")
  /\ UNCHANGED <<unheard, breaks>>

\* COMMIT ends the transaction and with it the setting.
Commit(k) ==
  /\ Live(k, "commit")
  /\ stored' = stored \union Committed(k)
  /\ backend' = [backend EXCEPT ![task[k].client] = Clean]
  /\ Release(k, "resolved")
  /\ UNCHANGED <<unheard, breaks>>

\* COMMIT is done and the connection breaks before its answer.
CommitUnheard(k) ==
  /\ Live(k, "commit")
  /\ breaks < MaxBreaks
  /\ breaks' = breaks + 1
  /\ stored' = stored \union Committed(k)
  /\ unheard' = unheard \union Committed(k)
  /\ backend' = [backend EXCEPT ![task[k].client] = Down]
  /\ Go(k, "rollback")

\* Mutant: the client is released without ROLLBACK.
RollbackForgotten(k) ==
  /\ task[k].pc = "rollback"
  /\ Release(k, "rejected")
  /\ UNCHANGED <<backend, stored, unheard, breaks>>

\* ROLLBACK; on a broken connection it fails in turn, and the pool drops the client.
Rollback(k) ==
  /\ task[k].pc = "rollback"
  /\ backend' = IF Here(k).up THEN [backend EXCEPT ![task[k].client] = Clean] ELSE backend
  /\ Release(k, "rejected")
  /\ UNCHANGED <<stored, unheard, breaks>>

\* A statement on a connection that has broken.
FindBroken(k) ==
  /\ task[k].pc \in {"query", "begin", "context", "work", "commit"}
  /\ ~Here(k).up
  /\ IF task[k].pc = "query" THEN Release(k, "rejected") ELSE Go(k, "rollback")
  /\ UNCHANGED <<backend, stored, unheard, breaks>>

\* query: one statement, its own transaction.
Query(k) ==
  /\ Live(k, "query")
  /\ Put(k, "resolved", NoClient, Visible(k))
  /\ UNCHANGED <<backend, stored, unheard, breaks>>

\* A connection breaks, in use or idle; the server rolls back.
Break(c) ==
  /\ backend[c].up
  /\ breaks < MaxBreaks
  /\ breaks' = breaks + 1
  /\ backend' = [backend EXCEPT ![c] = Down]
  /\ UNCHANGED <<task, stored, unheard>>

TenancyStep(k) ==
  \/ \E c \in Clients : StartQuery(k, c) \/ \E who \in Tenants \union {NoTenant} : StartTransaction(k, c, who)
  \/ \E who \in Tenants \union {NoTenant} : NoClientInTime(k, who)
  \/ BeginTransaction(k) \/ SetContext(k)
  \/ Select(k) \/ Insert(k) \/ Return(k) \/ StatementFails(k) \/ Throw(k)
  \/ Commit(k) \/ CommitUnheard(k) \/ Rollback(k) \/ FindBroken(k)
  \/ Query(k)

TenancyNext == (\E k \in Calls : TenancyStep(k)) \/ \E c \in Clients : Break(c)

TenancySpec == TenancyInit /\ [][TenancyNext]_tenancyVars

-----------------------------------------------------------------------------
(* Properties. *)

\* INV1, REQ 1.4: whatever a client was used for before, a call sees rows of its
\* own account only, whatever its statements select, and a call without an
\* account sees none (pool.ts:88-99, app_current_tenant).
OwnRowsOnly ==
  \A k \in Calls : \A j \in task[k].seen : task[k].for # NoTenant /\ task[j].for = task[k].for

\* pool.ts:65-83: nothing of a rejected call is stored, then or by a later call
\* that gets its client, unless the answer of its COMMIT was lost; and what a
\* call of an account still has to commit is its own.
RejectedLeavesNothing ==
  /\ \A k \in stored : task[k].pc = "resolved" \/ k \in unheard
  /\ \A c \in Clients : backend[c].wrote \subseteq {k \in Calls : task[k].client = c}

\* A call that resolves has been told the truth: the transaction it ran was not
\* rolled back behind it by a statement that failed.
ResolvedIsCommitted ==
  [][\A k \in Calls : task[k].pc = "commit" /\ task'[k].pc = "resolved" =>
       Here(k).wrote \subseteq stored' /\ Here(k).tx = "open"]_tenancyVars

\* The sessions, calls and rows have their types, and nothing of a rejected call
\* is stored (pool.ts:65-83).
TenancyInv == TenancyTypeOK /\ RejectedLeavesNothing
=============================================================================
