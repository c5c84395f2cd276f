------------------------------ MODULE Billing ------------------------------
(***************************************************************************)
(* Subscription billing of one business account: the daily billing job,    *)
(* POST /billing/pay, subscribe, change-tier, select-regions and the       *)
(* filter route that shares the account's region list.  Every database     *)
(* transaction is one action; runBillingCycle reads, charges and records   *)
(* in three steps, so that runs of it may overlap, lose the provider's     *)
(* answer or die in between.  Accounts do not share rows, so one is enough.*)
(***************************************************************************)
EXTENDS Integers, FiniteSets

CONSTANTS Tiers,        \* subscription tiers; each has a price of its own
          Basic,        \* the tier of a new account
          MaxRegions,   \* regions a tier allows
          NoTier,       \* pending_tier IS NULL
          Runs,         \* billing runs that may be in progress at once
          MaxRetries,   \* BILLING_MAX_RETRIES
          Period,       \* length of a billing period, in ticks
          Counts,       \* sizes the account's region list may have
          Ops,          \* the requests users make in an instance
          MaxTime,      \* bound: ticks
          MaxPeriods,   \* bound: billing periods
          MaxRetryCount,\* bound: failures recorded in one period
          MaxInflight,  \* bound: requests between their two transactions
          MaxMishaps,   \* bound: crashes, failed transactions and lost answers
          MaxAnew       \* bound: times it is subscribed anew

OpNames == {"pay", "change", "select", "filter"}

ASSUME BillingAssumption ==
  /\ Basic \in Tiers
  /\ NoTier \notin Tiers
  /\ MaxRegions \in [Tiers -> Nat]
  /\ MaxRetries \in Nat \ {0}
  /\ Period \in Nat \ {0}
  /\ Counts \subseteq Nat
  /\ Ops \subseteq OpNames
  /\ MaxTime \in Nat /\ MaxPeriods \in Nat /\ MaxRetryCount \in Nat
  /\ MaxInflight \in Nat /\ MaxMishaps \in Nat /\ MaxAnew \in Nat

\* A billing period is known by its current_period_end.  Runs start in different
\* milliseconds, so every renewal makes a new one: the clock of the model is
\* coarser and only decides which subscriptions are due.
Periods == 0..MaxPeriods
Keys == Periods \X (0..MaxRetryCount)
Sub == [exists : BOOLEAN, tier : Tiers, pending : Tiers \union {NoTier},
        status : {"active", "past_due", "read_only"},
        retry : 0..MaxRetryCount, end : 0..MaxTime + Period, period : Periods]

VARIABLES now,       \* the clock
          sub,       \* the subscription row
          acct,      \* the account's tier and status
          regions,   \* how many regions its match filter holds
          inflight,  \* second transactions of requests that did their first
          runs,      \* the billing runs
          ledger,    \* what the provider remembers of each idempotency key
          payments,  \* payments captured, per billing period
          notified,  \* dedupe keys of the failure notices enqueued
          faults,    \* crashes and failed transactions so far
          lost,      \* provider answers lost so far
          anew,      \* ghost: times the subscription was subscribed anew
          met        \* ghost: two runs have been in progress at once

vars == <<now, sub, acct, regions, inflight, runs, ledger, payments, notified, faults, lost, anew, met>>
userVars == <<regions, inflight>>
moneyVars == <<ledger, payments, lost>>

NoSub == [exists |-> FALSE, tier |-> Basic, pending |-> NoTier,
          status |-> "active", retry |-> 0, end |-> 0, period |-> 0]
\* What a run keeps of the subscription row it read.
Seen(s) == [tier |-> s.tier, retry |-> s.retry, end |-> s.end, period |-> s.period]
Idle == [pc |-> "idle", job |-> FALSE, at |-> 0, sub |-> Seen(NoSub), paid |-> FALSE]
NoCharge == [tier |-> NoTier, captured |-> FALSE]

TypeOK ==
  /\ now \in 0..MaxTime
  /\ sub \in Sub
  /\ acct \in [tier : Tiers, status : {"active", "read_only"}]
  /\ regions \in Nat
  /\ inflight \subseteq [op : {"setPending", "filter"}, tier : Tiers, count : Nat]
  /\ runs \in [Runs -> [pc : {"idle", "read", "charge", "record"}, job : BOOLEAN,
                        at : 0..MaxTime, paid : BOOLEAN,
                        sub : [tier : Tiers, retry : 0..MaxRetryCount,
                               end : 0..MaxTime + Period, period : Periods]]]
  /\ ledger \in [Keys -> [tier : Tiers \union {NoTier}, captured : BOOLEAN]]
  /\ payments \in [Periods -> Nat]
  /\ notified \subseteq Periods \X Nat
  /\ faults \in Nat
  /\ lost \in Nat
  /\ anew \in Nat

Init ==
  /\ now = 0
  /\ sub = NoSub
  /\ acct = [tier |-> Basic, status |-> "active"]
  /\ regions = 0
  /\ inflight = {}
  /\ runs = [r \in Runs |-> Idle]
  /\ ledger = [k \in Keys |-> NoCharge]
  /\ payments = [e \in Periods |-> 0]
  /\ notified = {}
  /\ faults = 0
  /\ lost = 0
  /\ anew = 0
  /\ met = FALSE

Tick ==
  /\ now < MaxTime
  /\ now' = now + 1
  /\ UNCHANGED <<sub, acct, userVars, runs, moneyVars, notified, faults, anew>>

-----------------------------------------------------------------------------
(* The owner's requests. *)

\* Mutant: ON CONFLICT sets the end of the period as well.
SubscribeResettingEnd(t) ==
  /\ sub.exists => anew < MaxAnew /\ sub.retry < MaxRetryCount
  /\ anew' = IF sub.exists THEN anew + 1 ELSE anew
  /\ sub' = IF sub.exists THEN [sub EXCEPT !.tier = t, !.status = "active", !.end = now + Period]
            ELSE [NoSub EXCEPT !.exists = TRUE, !.tier = t, !.end = now + Period]
  /\ acct' = [tier |-> t, status |-> "active"]
  /\ UNCHANGED <<now, userVars, runs, moneyVars, notified, faults>>

\* subscribe: INSERT ... ON CONFLICT keeps the period, the retries and the
\* pending tier of a subscription that exists, and charges nothing.
Subscribe(t) ==
  /\ sub.exists => anew < MaxAnew /\ sub.retry < MaxRetryCount
  /\ anew' = IF sub.exists THEN anew + 1 ELSE anew
  /\ sub' = IF sub.exists THEN [sub EXCEPT !.tier = t, !.status = "active"]
            ELSE [NoSub EXCEPT !.exists = TRUE, !.tier = t, !.end = now + Period]
  /\ acct' = [tier |-> t, status |-> "active"]
  /\ UNCHANGED <<now, userVars, runs, moneyVars, notified, faults>>

\* changeTier, first transaction: the region list must fit the new tier now,
\* otherwise the owner is asked to choose and nothing changes.
ChangeTierCheck(t) ==
  /\ Cardinality(inflight) < MaxInflight
  /\ "change" \in Ops
  /\ regions <= MaxRegions[t]
  /\ inflight' = inflight \union {[op |-> "setPending", tier |-> t, count |-> 0]}
  /\ UNCHANGED <<now, sub, acct, regions, runs, moneyVars, notified, faults, anew>>

\* selectRegionsForDowngrade, first transaction: trim the filter.
SelectRegions(t, n) ==
  /\ Cardinality(inflight) < MaxInflight
  /\ "select" \in Ops
  /\ n <= MaxRegions[t]
  /\ regions' = n
  /\ inflight' = inflight \union {[op |-> "setPending", tier |-> t, count |-> 0]}
  /\ UNCHANGED <<now, sub, acct, runs, moneyVars, notified, faults, anew>>

\* setPendingTier, the second transaction of both.
SetPending(f) ==
  /\ f \in inflight
  /\ f.op = "setPending"
  /\ inflight' = inflight \ {f}
  /\ sub' = IF sub.exists THEN [sub EXCEPT !.pending = f.tier] ELSE sub
  /\ UNCHANGED <<now, acct, regions, runs, moneyVars, notified, faults, anew>>

\* Mutant: the list is checked against no cap.
FilterCheckUncapped(n) ==
  /\ Cardinality(inflight) < MaxInflight
  /\ "filter" \in Ops
  /\ acct.status # "read_only"
  /\ inflight' = inflight \union {[op |-> "filter", tier |-> acct.tier, count |-> n]}
  /\ UNCHANGED <<now, sub, acct, regions, runs, moneyVars, notified, faults, anew>>

\* PUT /filters: requireWrite and the route read the account first ...
FilterCheck(n) ==
  /\ Cardinality(inflight) < MaxInflight
  /\ "filter" \in Ops
  /\ acct.status # "read_only"
  /\ n <= MaxRegions[acct.tier]
  /\ inflight' = inflight \union {[op |-> "filter", tier |-> acct.tier, count |-> n]}
  /\ UNCHANGED <<now, sub, acct, regions, runs, moneyVars, notified, faults, anew>>

\* ... and configureFilters writes the filter in a transaction of its own.
FilterWrite(f) ==
  /\ f \in inflight
  /\ f.op = "filter"
  /\ inflight' = inflight \ {f}
  /\ regions' = f.count
  /\ UNCHANGED <<now, sub, acct, runs, moneyVars, notified, faults, anew>>

-----------------------------------------------------------------------------
(* A billing run. *)

\* listDueSubscriptions.
Due == sub.exists /\ sub.status \in {"active", "past_due"} /\ sub.end <= now

\* runDueBillingCycles lists the due subscriptions once, and works through the
\* list without looking at them again; nowMs is the time of the listing.
JobList(r) ==
  /\ runs[r].pc = "idle"
  /\ Due
  /\ runs' = [runs EXCEPT ![r] = [Idle EXCEPT !.pc = "read", !.job = TRUE, !.at = now, !.sub = Seen(sub)]]
  /\ UNCHANGED <<now, sub, acct, userVars, moneyVars, notified, faults, anew>>

\* POST /pay: no condition on the subscription.
Pay(r) ==
  /\ "pay" \in Ops
  /\ runs[r].pc = "idle"
  /\ sub.exists
  /\ runs' = [runs EXCEPT ![r] = [Idle EXCEPT !.pc = "read", !.at = now]]
  /\ UNCHANGED <<now, sub, acct, userVars, moneyVars, notified, faults, anew>>

ReadSub(r) ==
  /\ runs[r].pc = "read"
  /\ runs' = [runs EXCEPT ![r].pc = "charge", ![r].sub = Seen(sub)]
  /\ UNCHANGED <<now, sub, acct, userVars, moneyVars, notified, faults, anew>>

\* Mutant: the key names the moment of the run instead of the billing period.
ChargeKeyByTime(run) == <<run.at, run.sub.retry>>

ChargeKey(run) == <<run.sub.period, run.sub.retry>>

\* The charge as the provider sees it: a new key is tried, a known key repeats
\* its outcome, and a known key with another amount is refused.
Charge(r, accepted) ==
  LET k == ChargeKey(runs[r])
      new == ledger[k].tier = NoTier
      paid == IF new THEN accepted
              ELSE ledger[k].captured /\ ledger[k].tier = runs[r].sub.tier
  IN
  /\ runs[r].pc = "charge"
  /\ ledger' = IF new THEN [ledger EXCEPT ![k] = [tier |-> runs[r].sub.tier, captured |-> accepted]]
               ELSE ledger
  /\ payments' = IF new /\ accepted THEN [payments EXCEPT ![runs[r].sub.period] = @ + 1] ELSE payments
  /\ \/ /\ runs' = [runs EXCEPT ![r].pc = "record", ![r].paid = paid]
        /\ UNCHANGED lost
     \* The answer is lost: the catch block reports a failed charge.
     \/ /\ faults + lost < MaxMishaps
        /\ lost' = lost + 1
        /\ runs' = [runs EXCEPT ![r].pc = "record", ![r].paid = FALSE]
  /\ UNCHANGED <<now, sub, acct, userVars, notified, faults, anew>>

\* Mutant: the result of the charge is not looked at.
RecordSuccessUnchecked(r) ==
  LET tier == IF sub.pending = NoTier THEN sub.tier ELSE sub.pending IN
  /\ runs[r].pc = "record" /\ sub.period < MaxPeriods
  /\ sub' = [sub EXCEPT !.tier = tier, !.pending = NoTier, !.retry = 0,
                        !.status = "active", !.end = runs[r].at + Period, !.period = @ + 1]
  /\ acct' = [tier |-> tier, status |-> "active"]
  /\ runs' = [runs EXCEPT ![r] = Idle]
  /\ UNCHANGED <<now, userVars, moneyVars, notified, faults, anew>>

\* applyPendingTier, setAccountTier, recordSuccessfulCharge, setAccountStatus:
\* one transaction, and the row it updates first keeps the others out.
RecordSuccess(r) ==
  LET tier == IF sub.pending = NoTier THEN sub.tier ELSE sub.pending IN
  /\ runs[r].pc = "record" /\ runs[r].paid
  /\ sub.period < MaxPeriods
  /\ sub' = [sub EXCEPT !.tier = tier, !.pending = NoTier, !.retry = 0,
                        !.status = "active", !.end = runs[r].at + Period, !.period = @ + 1]
  /\ acct' = [tier |-> IF sub.pending = NoTier THEN acct.tier ELSE tier, status |-> "active"]
  /\ runs' = [runs EXCEPT ![r] = Idle]
  /\ UNCHANGED <<now, userVars, moneyVars, notified, faults, anew>>

\* Mutant: the account is restricted one failure early.
RecordFailureOneEarly(r) ==
  /\ runs[r].pc = "record" /\ ~runs[r].paid /\ sub.retry < MaxRetryCount
  /\ sub' = [sub EXCEPT !.retry = @ + 1, !.status = IF sub.retry + 2 >= MaxRetries THEN "read_only" ELSE "past_due"]
  /\ notified' = notified \union {<<runs[r].sub.period, sub.retry + 1>>}
  /\ acct' = IF sub.retry + 2 >= MaxRetries THEN [acct EXCEPT !.status = "read_only"] ELSE acct
  /\ runs' = [runs EXCEPT ![r] = Idle]
  /\ UNCHANGED <<now, userVars, moneyVars, faults, anew>>

\* Mutant: the cap is never reached, the account stays past due.
RecordFailureNoCap(r) ==
  /\ runs[r].pc = "record" /\ ~runs[r].paid
  /\ sub' = [sub EXCEPT !.status = "past_due"]
  /\ runs' = [runs EXCEPT ![r] = Idle]
  /\ UNCHANGED <<now, acct, userVars, moneyVars, notified, faults, anew>>

\* Mutant: the count is the one the run has read, plus one.
RecordFailureFromSnapshot(r) ==
  LET retry == runs[r].sub.retry + 1
      capped == retry >= MaxRetries
  IN
  /\ runs[r].pc = "record" /\ ~runs[r].paid
  /\ runs[r].sub.retry < MaxRetryCount
  /\ sub' = [sub EXCEPT !.retry = retry, !.status = IF capped THEN "read_only" ELSE "past_due"]
  /\ notified' = notified \union {<<runs[r].sub.period, retry>>}
  /\ acct' = IF capped THEN [acct EXCEPT !.status = "read_only"] ELSE acct
  /\ runs' = [runs EXCEPT ![r] = Idle]
  /\ UNCHANGED <<now, userVars, moneyVars, faults, anew>>

\* incrementRetry, notifyAccount and, at the cap, the restriction: the retry
\* count is the row's, the period of the notice is the one the run read.
RecordFailure(r) ==
  LET retry == sub.retry + 1
      capped == retry >= MaxRetries
  IN
  /\ runs[r].pc = "record" /\ ~runs[r].paid
  /\ sub.retry < MaxRetryCount
  /\ sub' = [sub EXCEPT !.retry = retry, !.status = IF capped THEN "read_only" ELSE "past_due"]
  /\ notified' = notified \union {<<runs[r].sub.period, retry>>}
  /\ acct' = IF capped THEN [acct EXCEPT !.status = "read_only"] ELSE acct
  /\ runs' = [runs EXCEPT ![r] = Idle]
  /\ UNCHANGED <<now, userVars, moneyVars, faults, anew>>

\* A transaction of the run fails: it is rolled back and the loop's catch block
\* (or the request's error handler) drops the run.
FailRun(r) ==
  /\ runs[r].pc # "idle"
  /\ faults + lost < MaxMishaps
  /\ faults' = faults + 1
  /\ runs' = [runs EXCEPT ![r] = Idle]
  /\ UNCHANGED <<now, sub, acct, userVars, moneyVars, notified, anew>>

\* The process dies: every run and every half-done request is forgotten.
Crash ==
  /\ faults + lost < MaxMishaps
  /\ faults' = faults + 1
  /\ runs' = [r \in Runs |-> Idle]
  /\ inflight' = {}
  /\ UNCHANGED <<now, sub, acct, regions, moneyVars, notified, anew>>

RunStep(r) ==
  \/ JobList(r)
  \/ ReadSub(r)
  \/ \E accepted \in BOOLEAN : Charge(r, accepted)
  \/ RecordSuccess(r)
  \/ RecordFailure(r)

Request ==
  \/ \E t \in Tiers : Subscribe(t) \/ ChangeTierCheck(t)
  \/ \E t \in Tiers, n \in Counts : SelectRegions(t, n)
  \/ \E n \in Counts : FilterCheck(n)
  \/ \E f \in inflight : SetPending(f) \/ FilterWrite(f)
  \/ \E r \in Runs : Pay(r)

Step ==
  \/ Tick
  \/ Request
  \/ \E r \in Runs : RunStep(r)
  \/ \E r \in Runs : FailRun(r)
  \/ Crash

\* The job and the owner keep out of each other's way as long as a run ends before
\* the next begins; nothing in the code makes them.
OneAtATime == \A r, s \in Runs : runs[r].pc # "idle" /\ runs[s].pc # "idle" => r = s
Watch == met' = IF OneAtATime' THEN met ELSE TRUE

Next == Step /\ Watch

Spec == Init /\ [][Next]_vars

-----------------------------------------------------------------------------
(* Properties. *)

\* The account row the routes look at agrees with the subscription row, however
\* runs, requests and crashes interleave (service.ts writes both each time).
AccountMirrorsSubscription ==
  sub.exists => /\ acct.tier = sub.tier
                /\ acct.status = "read_only" <=> sub.status = "read_only"

\* "Uses an idempotency key so retried charges are not double-billed"
\* (providers.ts:46): one billing period is never paid for twice, also when a
\* run dies between the charge and its record.  A lost answer is the exception:
\* it counts as a failed charge, and the next attempt has a key of its own.  So is
\* subscribing anew: the key is refused for the other price and counts as failed.
OneCapturePerPeriod == \A e \in Periods : payments[e] <= 1 + lost + anew

\* REQ 13.4, 13.5: the account is restricted only after the provider has
\* declined MaxRetries charges of the unpaid period, with the same exceptions.
DeclinedFor(e) == {k \in Keys : k[1] = e /\ ledger[k].tier # NoTier /\ ~ledger[k].captured}
RestrictedAfterRetries ==
  acct.status = "read_only" =>
    Cardinality(DeclinedFor(sub.period)) + lost + anew >= MaxRetries

\* REQ 13.4: whenever failures are recorded the latest one has a notice of its
\* own; the dedupe key must not swallow it.
FailureNotified == sub.retry > 0 => <<sub.period, sub.retry>> \in notified

\* REQ 5.4, 13.2: the region list is written beyond the cap of the account's tier
\* only on behalf of another tier that it fits: the one the account had when the
\* list was checked, or the one a selection for a downgrade names.
ListFitsATier ==
  [][regions' > MaxRegions[acct.tier] /\ regions' # regions =>
       \E f \in inflight \union inflight' :
         f.tier # acct.tier /\ regions' <= MaxRegions[f.tier]]_vars

\* A due subscription is eventually renewed or restricted, whatever the provider
\* answers (REQ 13.3-13.5), as far as the periods of the instance go.
DueIsSettled == Due ~> (~Due \/ sub.period = MaxPeriods)

\* REQ 13.5, 13.6: a restricted account becomes active again, and the tier of a
\* subscription changes, only when the charge that ends the period has been
\* captured, or its owner subscribes anew; until runs overlap.
ChangesArePaid ==
  [][/\ ~met'
     /\ \/ acct.status = "read_only" /\ acct'.status = "active"
        \/ sub.exists /\ acct'.tier # acct.tier
     => payments[sub.period] > 0 \/ \E t \in Tiers : Subscribe(t)]_vars

\* The rows have their types and agree: what the subscription says, the account
\* row and, until runs overlap, the notices say.
RowsAgree == TypeOK /\ AccountMirrorsSubscription /\ (met \/ FailureNotified)

\* Until runs overlap, nobody pays a period twice or is restricted without having been
\* refused.  Runs that do overlap count one refused charge twice, and may take a period
\* under the key of each count.
MoneyIsRight == met \/ (OneCapturePerPeriod /\ RestrictedAfterRetries)

\* "Uses an idempotency key" (providers.ts:46): however runs overlap, die, lose their
\* answers or fail before they have counted, the provider has been tried for the open
\* period at most once more than failures have been counted, as an attempt that is
\* repeated before its failure counts repeats its key.  This is all that bounds what
\* overlapping runs may take for one period.
OneKeyPerFailure ==
  payments[sub.period] + Cardinality(DeclinedFor(sub.period)) <= sub.retry + 1

\* The job does not look again whether what it has listed is still due
\* (service.ts:181): if it is not when its turn comes, another run has renewed it since.
EarlyOnlyAfterRenewal ==
  [][\A r \in Runs :
       runs[r].job /\ runs[r].pc = "read" /\ runs'[r].pc = "charge" =>
         runs'[r].sub.end <= runs[r].at \/ runs'[r].sub.period > runs[r].sub.period]_vars

-----------------------------------------------------------------------------
(* Refinement. *)

Contract == INSTANCE BillingContract
              WITH period <- sub.period,
                   access <- IF ~sub.exists THEN "none"
                             ELSE IF acct.status = "read_only" THEN "restricted" ELSE "active",
                   tier <- acct.tier,
                   wanted <- IF sub.exists THEN sub.pending ELSE NoTier,
                   captured <- payments,
                   declined <- [e \in Periods |-> Cardinality(DeclinedFor(e))],
                   mishaps <- lost + anew,
                   void <- met

\* REQ 13.3-13.6: until runs overlap they renew a period for its payment only, apply
\* the next tier with it, restrict after MaxRetries refusals and take nothing twice.
ChargesAsPromised == Contract!Spec
=============================================================================
