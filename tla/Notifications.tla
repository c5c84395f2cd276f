--------------------------- MODULE Notifications ---------------------------
(***************************************************************************)
(* The Notification Service: notifyAccount enqueues one notification_log   *)
(* row per enabled channel, and processPendingNotifications delivers the   *)
(* pending rows in passes.  A pass is ONE transaction that snapshots the   *)
(* pending rows, calls an external provider for each row and updates that  *)
(* row; nothing it wrote is visible before COMMIT, everything it sent is   *)
(* out at once.  Passes are started by a timer and may overlap.            *)
(***************************************************************************)
EXTENDS Integers, FiniteSets

CONSTANTS Accounts,     \* business accounts
          Keys,         \* dedupe keys the subsystems trigger
          Channels,     \* notification channels
          InApp,        \* the channel used when no preference exists
          None,         \* not a notification
          Passes,       \* dispatch passes that may be in progress at once
          MaxRetries,   \* NOTIFICATION_MAX_RETRIES
          Limit,        \* the most rows one pass takes
          MaxAttempts,  \* bound: provider calls per row
          MaxAborts     \* bound: rolled back passes

ASSUME NotificationsAssumption ==
  /\ InApp \in Channels
  /\ None \notin Accounts \X Keys \X Channels
  /\ MaxRetries \in Nat \ {0}
  /\ Limit \in Nat \ {0}
  /\ MaxAttempts \in Nat
  /\ MaxAborts \in Nat

\* A row of notification_log is named by the columns of its unique index.
Notes == Accounts \X Keys \X Channels
Row == [status : {"absent", "pending", "delivered", "failed"},
        retry  : 0..MaxRetries,
        born   : Nat]
Pref == {"unset", "on", "off"}

VARIABLES prefs,     \* notification_pref, per account and channel
          rows,      \* committed notification_log rows
          clock,     \* created_at of the newest row
          pc,        \* what a pass does next: "idle", "next" or "write"
          todo,      \* the rows of its snapshot it has not finished with
          view,      \* the rows as its SELECT read them, then as it updated them
          cur,       \* the row it is working on
          ok,        \* whether the provider call for cur succeeded
          wrote,     \* rows it updated and therefore holds locked
          sent,      \* how often each notification reached its recipient
          attempts,  \* how often the provider was called for it
          aborts     \* passes rolled back so far

vars == <<prefs, rows, clock, pc, todo, view, cur, ok, wrote, sent, attempts, aborts>>
passVars == <<pc, todo, view, cur, ok, wrote>>

Absent == [status |-> "absent", retry |-> 0, born |-> 0]
NoRows == [n \in Notes |-> Absent]

TypeOK ==
  /\ prefs \in [Accounts -> [Channels -> Pref]]
  /\ rows \in [Notes -> Row]
  /\ clock \in Nat
  /\ pc \in [Passes -> {"idle", "next", "write"}]
  /\ todo \in [Passes -> SUBSET Notes]
  /\ view \in [Passes -> [Notes -> Row]]
  /\ cur \in [Passes -> Notes \union {None}]
  /\ ok \in [Passes -> BOOLEAN]
  /\ wrote \in [Passes -> SUBSET Notes]
  /\ sent \in [Notes -> Nat]
  /\ attempts \in [Notes -> Nat]
  /\ aborts \in Nat

Init ==
  /\ prefs = [a \in Accounts |-> [c \in Channels |-> "unset"]]
  /\ rows = NoRows
  /\ clock = 0
  /\ pc = [p \in Passes |-> "idle"]
  /\ todo = [p \in Passes |-> {}]
  /\ view = [p \in Passes |-> NoRows]
  /\ cur = [p \in Passes |-> None]
  /\ ok = [p \in Passes |-> FALSE]
  /\ wrote = [p \in Passes |-> {}]
  /\ sent = [n \in Notes |-> 0]
  /\ attempts = [n \in Notes |-> 0]
  /\ aborts = 0

-----------------------------------------------------------------------------
(* Enqueueing: notifyAccount and the channel preferences. *)

\* getEnabledChannels: in-app alone until the account has stored a preference.
Enabled(a) ==
  IF \A c \in Channels : prefs[a][c] = "unset"
  THEN {InApp}
  ELSE {c \in Channels : prefs[a][c] = "on"}

\* upsertNotificationPref, one committed transaction.
SetPref(a, c, v) ==
  /\ v \in {"on", "off"}
  /\ prefs' = [prefs EXCEPT ![a][c] = v]
  /\ UNCHANGED <<rows, clock, passVars, sent, attempts, aborts>>

\* notifyAccount: ON CONFLICT DO NOTHING leaves a row that exists as it is.
Notify(a, k) ==
  LET new == {n \in {a} \X {k} \X Enabled(a) : rows[n].status = "absent"} IN
  /\ new # {}
  /\ clock' = clock + 1
  /\ rows' = [n \in Notes |->
                IF n \in new THEN [status |-> "pending", retry |-> 0, born |-> clock + 1]
                ELSE rows[n]]
  /\ UNCHANGED <<prefs, passVars, sent, attempts, aborts>>

-----------------------------------------------------------------------------
(* A dispatch pass. *)

\* Mutant: the WHERE status = 'pending' clause of the scan is lost.
SelectableAnyStatus(n) == rows[n].status # "absent"

Selectable(n) == rows[n].status = "pending"

\* ORDER BY created_at ASC LIMIT: rows enqueued together come in any order.
Batch(S) ==
  LET pending == {n \in Notes : Selectable(n)} IN
  /\ S \subseteq pending
  /\ Cardinality(S) <= Limit
  /\ S # pending => Cardinality(S) = Limit
  /\ \A m \in S, n \in pending \ S : rows[m].born <= rows[n].born

BeginPass(p) ==
  /\ pc[p] = "idle"
  /\ \E S \in SUBSET Notes :
       /\ S # {}
       /\ Batch(S)
       /\ todo' = [todo EXCEPT ![p] = S]
       /\ view' = [view EXCEPT ![p] = [n \in Notes |-> IF n \in S THEN rows[n] ELSE Absent]]
  /\ pc' = [pc EXCEPT ![p] = "next"]
  /\ UNCHANGED <<prefs, rows, clock, cur, ok, wrote, sent, attempts, aborts>>

\* getProvider(n.channel).send(n): resolves on delivery, throws on failure.
Send(p, n, delivered) ==
  /\ pc[p] = "next"
  /\ n \in todo[p]
  /\ \A m \in todo[p] : view[p][n].born <= view[p][m].born
  /\ attempts[n] < MaxAttempts
  /\ attempts' = [attempts EXCEPT ![n] = @ + 1]
  /\ sent' = [sent EXCEPT ![n] = IF delivered THEN @ + 1 ELSE @]
  /\ cur' = [cur EXCEPT ![p] = n]
  /\ ok' = [ok EXCEPT ![p] = delivered]
  /\ pc' = [pc EXCEPT ![p] = "write"]
  /\ UNCHANGED <<prefs, rows, clock, todo, view, wrote, aborts>>

\* Mutant: a rejected send is recorded as delivered.
SettledIgnoringOutcome(row, delivered) == [row EXCEPT !.status = "delivered"]

\* Mutant: the retry count is not incremented on failure.
SettledNotCounting(row, delivered) ==
  IF delivered THEN [row EXCEPT !.status = "delivered"] ELSE row

\* What the pass writes over the row: computed from its snapshot of the row.
Settled(row, delivered) ==
  IF delivered
  THEN [row EXCEPT !.status = "delivered"]
  ELSE [row EXCEPT !.retry = @ + 1,
                   !.status = IF row.retry + 1 >= MaxRetries THEN "failed" ELSE "pending"]

Holders(n) == {p \in Passes : n \in wrote[p]}

\* setNotificationStatus: UPDATE ... WHERE id, with no condition on the status
\* the row has by now; it waits while another transaction holds the row.
Write(p) ==
  LET n == cur[p] IN
  /\ pc[p] = "write"
  /\ Holders(n) = {}
  /\ wrote' = [wrote EXCEPT ![p] = @ \union {n}]
  /\ view' = [view EXCEPT ![p][n] = Settled(@, ok[p])]
  /\ todo' = [todo EXCEPT ![p] = @ \ {n}]
  /\ pc' = [pc EXCEPT ![p] = "next"]
  /\ cur' = [cur EXCEPT ![p] = None]
  /\ ok' = [ok EXCEPT ![p] = FALSE]
  /\ UNCHANGED <<prefs, rows, clock, sent, attempts, aborts>>

Commit(p) ==
  /\ pc[p] = "next"
  /\ todo[p] = {}
  /\ rows' = [n \in Notes |-> IF n \in wrote[p] THEN view[p][n] ELSE rows[n]]
  /\ wrote' = [wrote EXCEPT ![p] = {}]
  /\ view' = [view EXCEPT ![p] = NoRows]
  /\ pc' = [pc EXCEPT ![p] = "idle"]
  /\ UNCHANGED <<prefs, clock, todo, cur, ok, sent, attempts, aborts>>

\* ROLLBACK forgets every update of the pass; what it sent stays sent.
Rollback(P) ==
  /\ pc' = [p \in Passes |-> IF p \in P THEN "idle" ELSE pc[p]]
  /\ todo' = [p \in Passes |-> IF p \in P THEN {} ELSE todo[p]]
  /\ wrote' = [p \in Passes |-> IF p \in P THEN {} ELSE wrote[p]]
  /\ view' = [p \in Passes |-> IF p \in P THEN NoRows ELSE view[p]]
  /\ cur' = [p \in Passes |-> IF p \in P THEN None ELSE cur[p]]
  /\ ok' = [p \in Passes |-> IF p \in P THEN FALSE ELSE ok[p]]
  /\ UNCHANGED <<prefs, rows, clock, sent, attempts>>

\* A statement of the pass fails (its catch block's UPDATE fails with it), or
\* the connection is lost: safeJob logs it and the next tick starts over.
AbortPass(p) ==
  /\ pc[p] # "idle"
  /\ aborts < MaxAborts
  /\ aborts' = aborts + 1
  /\ Rollback({p})

\* The process dies: PostgreSQL rolls back every open transaction.
Crash ==
  /\ aborts < MaxAborts
  /\ \E p \in Passes : pc[p] # "idle"
  /\ aborts' = aborts + 1
  /\ Rollback(Passes)

WaitsFor(p, q) == pc[p] = "write" /\ p # q /\ cur[p] \in wrote[q]

\* PostgreSQL's deadlock detector aborts one of the passes that wait in a ring.
DeadlockAbort(p) ==
  /\ \E ring \in SUBSET Passes :
       p \in ring /\ \A q \in ring : \E r \in ring : WaitsFor(q, r)
  /\ aborts' = aborts + 1
  /\ Rollback({p})

-----------------------------------------------------------------------------
PassStep(p) ==
  \/ BeginPass(p)
  \/ \E n \in Notes, delivered \in BOOLEAN : Send(p, n, delivered)
  \/ Write(p)
  \/ Commit(p)
  \/ DeadlockAbort(p)

Next ==
  \/ \E a \in Accounts, c \in Channels, v \in {"on", "off"} : SetPref(a, c, v)
  \/ \E a \in Accounts, k \in Keys : Notify(a, k)
  \/ \E p \in Passes : PassStep(p)
  \/ \E p \in Passes : AbortPass(p)
  \/ Crash

Spec == Init /\ [][Next]_vars

\* The timer keeps starting passes and a pass that can take a step takes it.
FairSpec == Spec /\ \A p \in Passes : WF_vars(PassStep(p))

-----------------------------------------------------------------------------
(* Properties. *)

\* A row says delivered only if the recipient has got the notification, and
\* failed only after MaxRetries provider calls: neither a rollback nor an
\* overlapping pass may lose a notification or give up on it early (REQ 12.3).
OutcomeIsEarned ==
  \A n \in Notes :
    /\ rows[n].status = "delivered" => sent[n] > 0
    /\ rows[n].status = "failed" => attempts[n] >= MaxRetries

\* No pass can hold back a row forever on its own: the retries recorded for a
\* row, committed or not, never exceed the provider calls made for it.
RetriesAreReal ==
  \A n \in Notes :
    /\ rows[n].retry <= attempts[n]
    /\ \A p \in Passes : n \in wrote[p] => view[p][n].retry <= attempts[n]

\* Every duplicate a recipient gets, and every call beyond MaxRetries, is the
\* price of one rolled back pass (ID3, REQ 12.3; with passes that do not overlap).
DuplicatesNeedRollback ==
  \A n \in Notes :
    /\ sent[n] <= 1 + aborts
    /\ attempts[n] <= MaxRetries + aborts

\* ID3 (delivery.ts:22): a notification whose row is settled is neither sent
\* again nor does its row change again.
SettledForGood ==
  [][\A n \in Notes :
       rows[n].status \in {"delivered", "failed"} =>
         rows'[n] = rows[n] /\ attempts'[n] = attempts[n]]_vars

\* Every notification enqueued gets a final outcome, also behind older rows
\* that fill the batch and keep failing (REQ 12.3).
EventuallySettled ==
  \A n \in Notes :
    rows[n].status = "pending" ~> rows[n].status \in {"delivered", "failed"}

\* The state of the service has its types, and the log claims nothing that was
\* not earned, also while passes overlap and roll back.
LogIsEarned == TypeOK /\ OutcomeIsEarned /\ RetriesAreReal

-----------------------------------------------------------------------------
(* Refinement. *)

\* To whoever enqueues, a pass is what it has sent and, at its commit, what it has
\* settled; the log of a pass that is under way is nobody's business.
Contract == INSTANCE DeliveryContract
              WITH log <- [n \in Notes |-> rows[n].status], got <- sent, tries <- attempts, losses <- aborts

\* REQ 12.3, ID3: passes that do not overlap deliver at least once, give up after
\* MaxRetries tries and not before, and repeat themselves for rollbacks only.
DeliversAsPromised == Contract!Spec
=============================================================================
