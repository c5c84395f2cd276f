# TenderEdge: TLA+ specifications, model checking and proofs

TenderEdge is a tender-intelligence platform in TypeScript on PostgreSQL: it polls
procurement portals, matches the tenders it finds to the filters of business
accounts, reminds of deadlines, keeps documents, notifies through several channels
and bills by subscription. This directory holds the specifications kept beside that
code: TLA+ modules, the TLC configurations that check them on small instances, and
proofs that tlapm checks.

`src/...` below are paths in the repository of the program (`src/src/...` is its
TypeScript source, `src/.kiro/steering/requirements.md` the requirements quoted as
REQ n.m, `src/.kiro/steering/design.md` the design with the invariants ID1-ID3).
`PROJECT.json` maps every modelled definition to the lines it was translated from.

    tlasany Billing.tla                                    parse a module
    tlc -workers 2 -config billing.cfg MCBilling           one run
    tlapm QueueProofs.tla                                  one module's proofs

## 1. The system

| component | code | state it keeps | operations |
|---|---|---|---|
| Tender Radar, Aggregation Engine | `radar/` | `tender`, `source_portal` | poll a portal, normalise, upsert a batch in one transaction |
| Smart Match | `match/` | `match_filter`, `tender_match` | configure filters, evaluate a tender for every account, prune |
| Bid Brain | `bidbrain/` | `historical_tender_record`, `price_prediction` | record an outcome, estimate a price range, store it |
| Deadline Guard | `deadline/` | `pursued_tender` | save, stage, remove, configure reminders, scan, close after grace |
| Document Helper, storage | `documents/`, `storage/` | `business_document`, blobs | upload, retrieve, delete, expiry scan |
| Notification Service | `notifications/` | `notification_log`, `notification_pref` | enqueue per channel, deliver in passes with retries |
| Subscription & Billing | `billing/` | `subscription`, tier and status of `business_account`, the provider | subscribe, change tier, select regions, pay, daily job |
| Auth Service | `auth/` | `business_user`, `user_session` | register, log in, validate with inactivity expiry, log out |
| Realtime Hub, dashboard | `realtime/`, `dashboard/`, `public/index.html` | open sockets; the page's view | connect, subscribe, publish, drop; fetch again |
| Job queue | `queue/` | timers in the process, or jobs in Redis | register, schedule, enqueue, start, stop |
| Server process | `server.ts` | wires the above | boot, the bodies of six repeating jobs, shutdown |
| Database layer | `db/` | connection pools, tenant context | transactions under row level security |
| HTTP shell, config, backups, migrations | `http/`, `config/`, `ops/`, `db/migrations/` | none of their own | routing, validation, error mapping, dumps |

**How they interact.** The job queue runs `radar.poll` (every portal at its interval,
in separate jobs), `match.maintenance`, `deadline.scan`, `notification.dispatch`,
`billing.cycle` and `backup.run`; users' requests run beside them in the same event
loop. A poll's ingest transaction calls Smart Match through a hook, which opens a
*second* transaction and then publishes to the Realtime Hub. Deadline Guard, the
Document Helper and Billing call `notifyAccount` inside their own transactions; the
rows they insert are what the dispatch pass delivers. Billing writes the account row
that the routes check and the filter whose regions Smart Match uses. There is no
shared memory besides the hub's map, the rate limiter, the pools of connections and the
queue's timers: everything else meets in PostgreSQL under READ COMMITTED with row locks.

**What is hard.** (a) Every service holds state across an `await`: a snapshot of
pending rows, the subscription a run read, the session a request read. (b) Effects
leave the transaction before it commits: an e-mail sent, a card charged, an event
published. (c) Timer jobs of the memory queue do not wait for their previous run.
(d) Two systems are updated without a common transaction: the row and its blob, the
charge and its record, T1 and T2 of an ingest. (e) Crashes and failed statements fall
between any two of these steps. PROJECT.json lists each of these places as a hazard at
its line, with the properties that would notice it going wrong.

**What makes each component correct** is stated as properties in its module and
summarised in section 4. In one line each:

* Notifications: an outcome in the log is earned, duplicates are the price of a
  rollback only, and everything pending gets an outcome.
* Billing: nobody pays a period twice, is restricted early, stays restricted in one
  table and active in the other, or gets tier or access that is not paid for.
* Tender Radar: a batch is stored as a whole or not at all and forgets nothing; requests
  respect the portal's policy and distance; every poll ends.
* Smart Match: matches have tenders, agree with them and with the account's filter, are
  announced, and go when the tender is over; a score is in range and never gains by
  waiting.
* Bid Brain: a stored prediction was computed from a sufficient sample there was, for an
  account that was entitled to it.
* Deadline Guard: each reminder once, for the deadline that is tracked; what is past
  its grace period closes.
* Documents: a listed row can be read by its owner and nobody else; a confirmed
  deletion leaves no file, and only a failure leaves a file without a row; what expires is
  reminded of while its account has a channel for it.
* Sessions and access: nobody gets in on a session that was idle too long or was refused,
  every account has its owner, a restricted account is not written to.
* Transactions: a call sees the rows of its own account only, and what it is told of its
  transaction is what happened to it.
* Realtime: a connected page with nothing under way has shown every match that was made
  and all there was when the hub last sent to it; one whose session has ended finds out.
* Job queue: both drivers keep one contract; what is scheduled runs.

## 2. Modules

| module | models | composed with |
|---|---|---|
| `DeliveryContract` | abstract specification of a notification's delivery | |
| `Notifications`, `MCNotifications`, `NotificationsProofs` | notification service | `Contract == INSTANCE DeliveryContract WITH ...`; its proofs extend it |
| `BillingContract` | abstract specification of what an owner is promised | |
| `Billing`, `MCBilling`, `BillingProofs` | billing, account row, region list, provider | `Contract == INSTANCE BillingContract WITH ...`; its proofs extend it |
| `Radar`, `MCRadar`, `QueueProofs` | a poll: robots.txt, rate limiter, fetch, normalisation, batch, connections, record | its proofs extend it |
| `SmartMatch`, `SmartMatchProofs` | Radar ingest T1, evaluation T2, maintenance, filters | one module, as they share rows and locks |
| `Scoring`, `DashboardProofs` | `evaluateMatch` as operators | with `BidBrain` in `Insights` |
| `BidBrain`, `DashboardProofs` | outcomes, predictions, what the dashboard shows of them | with `Scoring` in `Insights` |
| `Insights`, `MCInsights`, `DashboardProofs` | what the tier of an account buys: its predictions and its match scores | extends `BidBrain` and `Scoring`, which meet in the tier |
| `DeadlineGuard`, `DeadlineGuardProofs` | pursuits, scan, enqueueing of reminders | its proofs extend it |
| `Documents`, `MCDocuments`, `DocumentsProofs` | rows, blobs, channels, the scan job as far as its expiry scan | its proofs extend it |
| `Sessions` | login, `validateSession`, logout | |
| `Access`, `MCAccess`, `AccessProofs` | registration, roles, `requireAuth`, `requireWrite`, `requireOwner` and handlers | extends `Sessions`: a request is a request of its session first; `AccessProofs` has the proofs about `Sessions`, `Access` and `Tenancy` |
| `Tenancy` | pool clients, transactions, tenant setting, row level security | with `Access` in `MCAccess` and `AccessProofs` |
| `Realtime`, `DashboardProofs` | hub and page, with a version number for the database | `DashboardProofs` has the proofs about what the dashboard shows: `Realtime`, `Scoring`, `BidBrain` and `Insights` |
| `JobContract` | abstract specification of a one-off job | |
| `JobQueue`, `MCJobQueue`, `QueueProofs` | memory and Redis driver, boot and shutdown | `Contract == INSTANCE JobContract WITH job <- Seen`; `QueueProofs` has the proofs about it and about `Radar`, the job it runs most often |

Conventions. One action is one database transaction, or one step between two `await`s
where a transaction is held open. A transaction that spans calls keeps what it wrote in
`view` and the rows it holds in `wrote`; nobody else sees it before its commit action.
A run checks the types of a module together with its basic state invariants, as one
invariant that is the conjunction of the named parts (`LogIsEarned`, `RowsAgree`,
`DataIsSound`, `MatchesAreFounded`, `RemindersAreSound`, `StoresAgree`, `AccessInv`,
`TenancyInv`, `PageIsSound`, `PredictionsAreSound`); the types of `JobQueue` are proved.
An operator marked `Mutant:` is a plausible bug in the definition below it; no
specification uses it, it is there so that each property can be shown to notice the bug.

### Notifications

`rows[n]` is a row of `notification_log` named by its unique index (account, dedupe key,
channel), `born` its `created_at`. `Notify` is `notifyAccount` (ON CONFLICT DO NOTHING),
`SetPref` the preference upsert, `Enabled` `getEnabledChannels` with its in-app default.
A pass is `BeginPass` (the SELECT of the oldest `Limit` pending rows), then for each row
`Send` (the provider delivers or throws) and `Write` (`setNotificationStatus`, computed
from the snapshot, waiting for the row lock but not re-reading the status), then `Commit`.
`AbortPass`, `Crash` and `DeadlockAbort` roll back; `sent` and `attempts` count what the
outside world saw and are therefore never rolled back.

`DeliveryContract` is what the service promises to whoever enqueues, without passes,
snapshots or transactions: tries while a notification is pending, an outcome that is
final, and one repetition per time a record was lost. The refinement maps its log to the
committed rows, what was got and tried to `sent` and `attempts`, losses to `aborts`. The
writes of a pass are stutters until its commit, which settles several notifications at
once; a rollback is `Lose`.

### Billing

`sub` is the subscription row, `acct` tier and status of the account, `regions` the
length of the match filter's region list. `changeTier`, `selectRegionsForDowngrade` and
the filter route use two transactions; the second one waits in `inflight`. `Subscribe`
is the upsert, for the first time or anew (`anew` counts those on an existing row). `runBillingCycle` is `ReadSub`, `Charge`, `RecordSuccess` or
`RecordFailure`; `JobList` is the daily job's listing, which keeps the rows as they were
listed (the code uses their ids only; `EarlyOnlyAfterRenewal` compares the rest with the
row that is charged), and `Pay` the owner's button. The
record transactions take the subscription row lock first and are therefore serial. The
provider is external: `ledger` remembers each idempotency key's outcome, refuses a known
key with another amount, and its answer may get lost, which the code reports as a
failure. A period is identified by `current_period_end`; renewals in different
milliseconds make different periods, so the model counts them and the coarser clock
only decides what is due. `FilterCheck` merges `requireWrite` and the route's read of
the account. Sizes stand for region lists: which regions they hold plays no role for the
limits. The ghost `met` says that two runs have been in progress at once: what the code
promises of money it promises until then.

`BillingContract` is what an owner is promised: a period is renewed for a payment, with
the tier that was asked for, access ends after `MaxRetries` refusals and comes back with
the payment, nothing is paid twice. It knows no runs, keys, retry counts or clocks; a
lost answer and a subscription made anew are its mishaps, and once `void` it promises
nothing more. The refinement maps the period to the one of the subscription row, access to
the status of the account, payments to those the provider took, refusals to the keys it
declined, `void` to `met`.

### Radar

A poll goes from `StartPoll` through `Request` (the policy in force decides), `Acquire`
and `Resume` (`RateLimiter.acquire` reads `lastAt`, waits, writes it), `FetchOk` or
`FetchFails` to the batch: `BeginBatch` takes a connection of the privileged pool, each
listing is `NextListing` (normalised), `Upsert` (waits for the rows of other batches,
`Holders`), `BeginEvaluation` (takes a *second* connection), `EndEvaluation`; then
`Commit`, or `StatementFails`, `ConnectTimeout`, `DeadlockAbort` and `Rollback`; `Record`
is the poll record, whose failure is swallowed. The tenders, the limiter and the count of
connections are the shared state. `Normalize`, `ToStored`, `FromStored`, `Merge`,
`RulesFor` and `Weigh` are the pure parts, over values in thousandths (stored in
hundredths) and rules with the length of their path. What the evaluation writes is in
SmartMatch.

What the code does here and no property forbids: the request for robots.txt is not
limited; the rules read are those for `*`, although the requests name an agent; polls of
one portal that overlap acquire at the same time and go together, and a restart empties
the limiter; a path that is excluded is recorded as a success with no listing; the record
may say `failed` of a batch that has committed (its own first attempt failed). In the
real vocabulary `Flanges & Gaskets` is a canonical name that is not a key of its own, so
that normalising a normalised category may lose it; regions have no such name.

### SmartMatch

`Upsert` is `upsertTender` inside T1 (`Merge` keeps absent fields and the status),
`EvalRead`/`EvalWrite`/`Publish` are T2 and its callback, `CommitPoll` the commit of T1.
The foreign key of `tender_match` sees committed tenders only, so `EvalWrite` needs
`tender[t].stored` and `RejectPoll` is what happens otherwise: T2 and T1 roll back, and
the batch of a new tender that matches anybody is lost at each poll.
`MaintClose`, `MaintTell`, `MaintPrune` are the three parts of `match.maintenance`, in
the order of `server.ts`. Two ghosts name the ways in which a match can differ from the
data: `undone` are the tenders whose T1 rolled back after a T2 of it had committed,
`drifted` the matches whose account has changed its filter since the evaluation read it
(`moved` for one under way). Scores, categories and value ranges are in `Scoring`; the
value of a match is the region it was scored with, which is enough to see a match that
stems from other data than the database has. An account is evaluated whatever its status,
as `suspended` is never set by the code.

### Scoring and BidBrain

`Scoring` is `evaluateMatch` in integers: eligibility under the cap of the tier, the
value and the deadline part, rounding and the clamp. `BidBrain` has `computePrediction` as
operators over a sample, a price for each of its records: `Ascending` is the sort, by
the rank of a price, which TLC compares with a sort of short sequences
(`AscendingSorts`), then `Percentile` and `Confidence`; and `predict` as the transactions it is: the
route's read of the tier (`AskPrediction`), the tender (`ReadTender`), the prices (`ReadPrices`)
and `Store`; `OpenPage` and `ShowPredictions` are the summary's. Between them outcomes
are recorded (nothing but the tests calls `recordOutcome`; it is modelled as anybody's),
a poll moves the tender to another group and the tier changes. A result of too small a
sample leaves the stored one in place. `GET /bid-brain/predict` asks for a session only,
so that viewers and restricted accounts change `price_prediction` as well; the model has
no role for that reason.

### DeadlineGuard

One action per route (`Pursue` is the upsert that leaves `closed_at` alone, `Unpursue`,
`SetStage`, `ConfigureReminders`, `SetChannel`); a scan is `ScanList`, one `ScanNotify`
per reminder in the order of the loop, `ScanCommit`, `ScanClose`. An insert waits for
another transaction that inserted the same dedupe key (`Holders`); two scans can wait for
each other, PostgreSQL then aborts one, and `ScanAbort` (a statement of the scan fails,
everything it inserted rolls back) stands for that and every other failure. Time is in
days.

### Documents

`Put` then `Insert` for an upload, `Find` then `Read` for a retrieval, `Find`, `Mark`,
`Unlink` for a deletion; `UnlinkFails` is the swallowed storage error, and the ghost
`stuck` names the files it leaves behind; `cut` those of requests that end between two of
their steps (`Fails`, `Crash`). `Visible` is the lookup under row level security, for
which see `Tenancy`. Encryption is left out: a blob is a model value.

The expiry scan is the last of the three of the `deadline.scan` job: `BeginJob`, then
`ScanList` once the other two are through, one `Remind` per document, `ScanCommit`.
`Remind` is `notifyAccount`, which asks for the channels at that moment: an account whose
preferences are all disabled (`muted`, changed by `SetChannels`) gets no reminder.
`JobFails` is an earlier scan that throws, so that `server.ts` never comes to this one, or
a failure of its own transaction, which undoes what it has written. One job is modelled
here; scans that overlap, and their deadlocks, are in Deadline Guard, whose `ScanNotify`
has the same insert. For this module such a deadlock is a `JobFails`.

### Sessions, Access and Tenancy

`Find`, `Check`, then `Touch` or `Revoke`: `validateSession` with its transactions and
the decision between them. Ghost fields of a request (`idle`, `after`) remember what was
true when it began.

`Access` adds users, accounts and routes: `RegisterFind`, `RegisterInsert` (waits for
another transaction that inserted the address: `Pending`), `RegisterCommit`; `Begin`,
`Validate` (the session's steps and the check of the role), `NotRestricted`,
`RequireWrite` and the handler, `Write` or `Recover`; `Bill` restricts the account beside
them. The refresh of a session and the read of the account's status are transactions
before the handler's, and the ghost `locked` follows a write whose account has been
restricted ever since the request began. A password is right or wrong.

`Tenancy` looks at the handler's transaction itself: `Obtain` takes a client of the pool,
idle or new, `BeginTransaction`, `SetContext` (`set_config`, local to the transaction),
`Select`, `Insert`, then `Return` and `Commit`, or `StatementFails`, `Throw` and
`Rollback`. A statement without a WHERE clause sees what `Policy` leaves, which reads the
setting of the server session and nothing else: that is the point of the module, as the
session outlives the transaction and serves the next call. `withTransaction` and `query`
(the health check) are calls without an account. Connections break at any time, also
between a COMMIT and its answer (`CommitUnheard`). A row is named by the call that
inserted it.

### Realtime

The database is a version number, the next one for every commit that changes the account's
matches or the tenders they are shown with. Only one kind of change has an event after it:
the match of an eligible account (`PollMatches`, then `PollPublishes`; `unsaid` counts the
ones between). The others are silent: the match of an account that is not eligible any
more is deleted and `affected` does not name it (`PollUnmatches`); the tender's own columns
are committed at the end of the batch, after the events of its evaluations (`PollStores`);
maintenance publishes before it prunes (`MaintainPublishes`, `MaintainPrunes`). What the
account's own requests change of the summary (pursuits, for one) has no event either; such
a request would be one more step like these three, and the properties hold with any number
of them.
`Subscribe` follows the `await` in `onConnection` and does not ask whether the
socket is still open. Three ghosts say what the page could know: `told` is the version
there was at the last event or greeting, `matched` the one that last brought a match,
`newest` the newest the page has shown (`view` is below it when an older answer was
rendered after a newer one). The page's handlers are `Connect`, `Receive`, `Reload`, `Answer`,
`Render`. The session of the page may end (`EndSession`: a logout in another tab, or
inactivity that another request noticed); validations and requests that were under way may
still find it (`early`). From then on `Reject` closes new sockets, `Refuse` makes the page
sign out (`SignOut`), and sockets that are subscribed stay so. Not modelled: half-open
sockets, a fetch that fails for another reason and is swallowed, and a stream of messages
that pushes the reload timer back for ever (each message sets it anew).

### JobQueue and JobContract

`JobContract` says what the `JobQueue` interface promises of a one-off job. `JobQueue`
has both drivers, the one in use chosen at the start (`driver`), each with the sequence
of calls the process makes on it (`Boot`): `Start` makes Redis workers for the handlers known *by then*,
`CanRun` says when a timer or stored job reaches its handler, `Drop`, `Fail`, `Stop`,
`Exit` and `Restart` are the ways a job is lost, tried again or handed out again.
`ServerBoot` is the sequence of `main()`. Delays
and backoff are left out: a timer that is set may fire. BullMQ is external: durable jobs,
one at a time per worker, an unfinished job is handed out again. The refinement maps a
job to its state, its attempts allowed and the failures among its attempts.

## 3. Fairness

| specification | assumption | why the code justifies it |
|---|---|---|
| `Notifications!FairSpec` | WF of each pass | `scheduleRepeating` starts a pass every interval; every awaited statement and provider call returns or throws |
| `MCBilling!FairSpec` | WF of each run | the same; the job's loop has no other exit than `safeJob`'s |
| `Radar!RadarFairSpec` | WF of the clock and of each poll's steps, SF of `Upsert` | timers fire, statements return, connect() gives up after its timeout; PostgreSQL grants row locks in the order they were asked for |
| `SmartMatch!FairSpec` | WF of poll and maintenance steps, SF of `MaintClose` | a batch is finite; PostgreSQL grants row locks in the order they were asked for, so the UPDATE is not starved by batches that come and go |
| `DeadlineGuard!FairSpec` | WF of each scan | the timer |
| `Documents!FairSpec`, `MCDocuments!MCSpec` | WF of the job's steps | the timer; statements return or throw |
| `Realtime!FairSpec` | WF of publishing, connecting, validations (`Subscribe \/ Reject`), receiving, reloading, answers and refusals | the page's timers fire once the messages that push them back pause, and a TCP connection that is up delivers |
| `JobQueue!FairSpec` | WF of booting, firing, handlers | `setTimeout`/`setInterval`, BullMQ workers; handlers settle |

No fairness is assumed of users, portals, faults or the clock, none of an operation's
*success*: a provider may decline for ever, a scan fails as often as its bound allows.

## 4. Runs

### Passing

| run | what it shows | bounds, and why they are enough |
|---|---|---|
| `notif_overlap` | two overlapping passes with rollbacks, crashes, deadlocks: `LogIsEarned` | 2 passes, 2 channels of one key (two rows a pass can hold in either order: a lock ring needs two), 4 provider calls per row (one beyond `MaxRetries` = 3), 1 abort. Accounts share nothing |
| `notif_serial` | one pass at a time implements `DeliveryContract` (a duplicate needs a rollback, an outcome is final), and every pending row gets an outcome | 3 keys against a batch of 2, so that older failing rows do fill a batch; 1 abort, 4 attempts = `MaxRetries` + aborts |
| `billing` | a behaviour of the instance either keeps its runs apart, with a crash at any step, one lost answer, the owner's payments, tier changes, region selections, filters and a subscription anew; or lets two runs meet (the daily job, or the owner's button twice) with the owner's payments and nothing else. Apart, billing implements `BillingContract`: who is charged, restricted, reactivated, when a tier applies; in both, the open period is tried at most once more than failures are counted, the account says what its subscription says, a list fits the tier it was checked against, the job charges early only what another run has renewed since it was listed, and every due subscription is settled | a period of 1 tick and `MaxPeriods` 1: the period that is owed and its renewal; a cap of 2 failures, reached and left again, by payment or by subscribing anew, and a third failure that restricts again (with no other request or mishap before it: the theorems have them all); tiers of 1 and 2 regions; one lost answer and one subscription anew, the slack the contract speaks of; a region list does not meet a lost answer, nor two runs a subscription anew, which leaves these to the theorems; two runs are what it takes for one to act on what the other has changed |
| `radar_polls` | two polls of one portal with everything they share: batches, connections, the limiter, the policy, the stored form of a listing | pools of 2 and 3 connections with batches one shorter: two polls exhaust the one and deadlock on rows in the other; values either side of half a cent; three robots.txt files, one per way the rules can be decided; 1 fault |
| `match_ingest` | two polls, maintenance, changes of the filter, a failure at any step: no match without its tender, on other data than the tender's or for another filter than the account's, or new for a closed tender; expired tenders lose their matches, every match is announced | 1 tender and 1 account (the properties are per tender and per account), 2 regions (data that changes), 1 fault |
| `insights` | two predictions and a summary while outcomes, the tender's group and the tier change; the score over tenders and filters of every shape | 5 records of 3 prices against a minimum of 2 and full confidence at 3: every rank interpolates and does not; values at the middle and the ends of a range, deadlines from today to beyond the horizon |
| `jq_contract` | the memory driver, booted in the server's order, and the Redis driver, booted with handlers first: both refine `JobContract`, start nothing after `stop()`, run what is scheduled | 2 jobs of one name (a worker has to choose), 3 attempts, 2 overlapping runs, one exit and restart |
| `dg_scan` | two overlapping, failing scans: each reminder once per key, due reminders enqueued, what is past grace closed | 1 tender with custom (1 day) and default (2 days) offsets, 1 day of grace, 2 days |
| `doc_faults` | uploads, reads, deletions of two accounts, faults at every step: listed rows have blobs, accounts see their own bytes, a confirmed deletion leaves a file only if the delete failed, a file without a row is owed to a failure, expiring documents of accounts with a channel are reminded of although the job fails before or in its expiry scan | 2 documents, 2 requests, 2 faults: one for each request, or two jobs that fail. Accounts are interchangeable: the first document is a1's, the other either account's, and a1 is the one that changes its channels |
| `access` | registrations, logins and two requests of one session, with logout, failures, billing; or three calls on two pool clients, with failing statements and a break: idle and refused sessions do not get in, accounts have owners, restrictions hold, rows stay with their account, nothing of a rejected call is stored | inactivity of 1 tick, 3 ticks: used and idle again; 2 addresses and accounts: a race for one, the other in peace; 3 calls on 2 clients: one client serves two accounts and none. The two halves meet in the account of the session only, so a behaviour explores one of them (`layer`) |
| `rt_news` | drops, crashes, lost events, changes without an event, the end of the session, overlapping fetches: a quiet page has shown what there was when the hub last sent to it, and every match; each match is shown in the end; a page whose session has ended signs out | 3 sockets = two reconnects; 2 changes, one with an event and one without in either order; 2 fetches under way, so that an answer overtakes another; 2 polls between commit and event. The theorem has any numbers |

Tier limits (5, 20, 100 regions), reminder offsets (7 and 1 days) and the session and
grace periods are scaled to the smallest values that keep their order. Clocks, attempts,
faults and aborts are bounded in guards; each bound is a CONSTANT whose comment says
"bound". Deadlock is checked except where a bound on time, periods, sockets or the life
of the process ends every behaviour of the instance.

### Violations: where the code and what is said of it part

This run checks one statement of the repository, and TLC finds a behaviour of the code
against it. The quotation is in PROJECT.json.

| run | what happens |
|---|---|
| `jq_server_redis` | the server starts its queue before it registers handlers; the Redis driver makes workers for none, so no job ever runs |

### What the properties leave room for

The models also have the following behaviours, each found by TLC as a counterexample to a
stronger property. The property that is kept excludes exactly these, by a ghost variable
or a bound in its formula, so that it fails on anything else.

| component | behaviour | how the property allows for it |
|---|---|---|
| Notifications | two overlapping passes of the memory queue both read a pending row and both send it; counts computed from the older snapshot are written over newer ones | `DeliversAsPromised`, and with it `DuplicatesNeedRollback` and `SettledForGood`, is checked with one pass and proved under `[]OneAtATime`, `LogIsEarned` for passes that overlap |
| Billing | a charge whose answer is lost counts as failed; the next attempt has a new idempotency key and captures the period again | `+ lost` in `OneCapturePerPeriod` and `RestrictedAfterRetries` |
| Billing | two overlapping runs (`POST /pay` twice, or once while the daily job is at work) read the same retry count, share a key, and each counts the one declined charge; of the runs that follow, one reads the count between the two and one after them, so that they have different keys, and both capture the period. No answer is lost and no process dies | `met` in `MoneyIsRight`, `RowsAgree` and `ChangesArePaid`, `void` in `BillingContract`: they speak of what is before two runs have met; `OneKeyPerFailure` is what is left of the money after it: attempts beyond the first need a failure that is counted |
| Billing | a stale listing charges a subscription the owner has just paid | `EarlyOnlyAfterRenewal` permits it where a run has renewed the row since it was listed |
| Billing | subscribing anew makes a restricted account active without a charge, changes the tier within a cycle, and makes the open key be refused for its new price, after which the period may be captured twice | `Subscribe` in `ChangesArePaid`, `anew` in `OneCapturePerPeriod` and `RestrictedAfterRetries` |
| Billing | a region list is checked when a downgrade is requested, or a filter against the tier of a moment ago, and may not fit the tier that is in force then | `ListFitsATier` speaks of the tier the list was checked against |
| Tender Radar | overlapping polls of one portal go together; the first request of a process may follow the last one of the process before | `overtaken`, `asked` in `Spaced` |
| Smart Match | T2 has committed when T1 rolls back, so its match speaks of data that never came | `undone` in `MatchAgreesWithTender` |
| Smart Match | matches stay when the account's filter changes; a tender that expires between closing and pruning loses its match before anyone is told | `drifted` in `MatchAgreesWithFilter`; no property forbids the other |
| Bid Brain | a downgrade comes after the tier was read; an older prediction is stored last | `without` in `EntitledOnce` follows the whole request; `PredictionIsEarned` asks for some moment of the history, not the last |
| Job queue | the memory driver starts a repeating job whose last run is still at work | `live` counts up to `MaxOverlap` |
| Deadline Guard | the dedupe key does not name the deadline: after it moves, nobody is reminded of the new one; a closed pursuit that is saved again keeps `closed_at` | `RemindedOnce` is per key, `Due` asks for a pursuit that is not closed |
| Documents | a failed delete of the file is swallowed and the deletion confirmed; a deletion between lookup and read ends the retrieval in a storage error | `stuck` in `RemovedIsGone`; `OwnBytesOnly` speaks of answers with bytes |
| Documents | an account with every channel disabled is not reminded of its documents | `muted` in `Expires` |
| Documents | an upload whose row is not inserted, or a deletion that dies before the file's, leaves a file nothing collects | `cut` in `OrphansAccounted` |
| Sessions | a request that read the session before another one refreshed it revokes a session in use | `OnlyLivePass` forbids the converse |
| Access | an account restricted after `requireWrite` looked is written to once more by each request past it | `locked` in `RestrictionHolds` |
| Transactions | a connection breaks between a COMMIT and its answer: the call is told that it failed, and its rows are stored | `unheard` in `RejectedLeavesNothing` |
| Realtime | a socket outlives its session and goes on receiving events | `EndIsNoticed` starts at such an event |
| Realtime | a socket that closes during validation is subscribed afterwards and never removed | `Publish` skips it as the hub does |
| Realtime | two answers arrive out of order, and the page goes back to the older one | `QuietIsCurrent` speaks of `newest`, what the page has shown |
| Realtime | a change has no event after it: the deleted match of an account that is not eligible any more, the tender's columns that T1 commits after the event of T2, what maintenance prunes after its event. A page at rest shows the old state until something else makes it fetch | `told` and `matched` in `QuietIsCurrent`: what there was when the hub last sent, and matches; `NewsArrives` speaks of matches only |

## 5. Proofs

### Notifications

`NotificationsProofs` proves, for any numbers of accounts, keys, channels and passes,
any `MaxRetries` and any bounds, from `NotificationsAssumption` alone:

* `LogIsEarnedAlways`: `Spec => []LogIsEarned`, from `TypeCorrect`, `OutcomesAreEarned` and
  `RetriesAreRealAlways`, one for each of its parts.

`OutcomeIsEarned` speaks of committed rows only and is not inductive: a commit publishes
what a pass has in `view`, and that was computed from a snapshot another pass may have
overtaken. The inductive invariant is

    IInv == TypeOK /\ RowsEarned /\ ViewsEarned /\ WorkInHand

* `RowsEarned`: every committed row is earned;
* `ViewsEarned`: so is every row a pass has in its snapshot or has written;
* `WorkInHand`: the rows a pass has still to do are pending in its snapshot, and between
  `Send` and `Write` the call in hand is already counted: among `sent` if it was
  delivered, in `attempts` beyond the retries of the view if not.

`attempts` and `sent` only grow, so a stale view stays earned while other passes work;
that is why overlap, which does send twice, cannot break these. There is one lemma per
action, each with one step per conjunct the action can disturb.

Overlap does break the other two properties, so their hypothesis is that no two passes are
in progress at once, whatever the set of passes; `OneAtATime` says so of a state and is
what the server's interval gives as long as a pass ends before the next one starts:

* `DuplicatesArePaidFor`: `Spec /\ []OneAtATime => []DuplicatesNeedRollback`;
* `SettledIsFinal`: `Spec /\ []OneAtATime => SettledForGood`;
* `KeepsDeliveryContract`: `Spec /\ []OneAtATime => DeliversAsPromised`, the refinement.

`Serial` strengthens `IInv` with what only an undisturbed pass can rely on: a row the
pass has not written yet is in its view as it is committed, and for every row the calls
made are at most those its row tells of and one per abort (`Accounted`). `Untouched` rows
are so at any time; `PassFits` says it of what a pass has written so far.

The refinement rests on the same invariant. `TriesAsPromised`: a row that is sent is still
pending in the committed log, as the pass is alone, and `Accounted` gives that it was got
and tried no more often than the losses allow. `SettlesAsPromised`: by `PassFits` a commit
changes only rows that are pending, and by `ViewsEarned` what it makes of them is earned.
Enqueueing is `EnqueuesAsPromised`, and every way of rolling back is `Lose`.

### The job queue and its contract

`QueueProofs` proves, from `JobQueueAssumption` alone (which leaves the boot sequence
open: any calls in any order, per driver), for any jobs, names and bounds:

* `TypeCorrect`: `Spec => []TypeOK`;
* `KeepsContract`: `Spec => ImplementsContract`, the refinement of `JobContract`;
* `StopIsFinal`: `Spec => NothingStartsAfterStop`.

Types are not enough for the refinement: `Fail` of the contract requires an attempt to be
left, and a durable job that is handed out again must not look like one that failed. The
inductive invariant is

    IInv == TypeOK /\ JobsFit

where `JobsFit` says of every job that its attempts agree with its state (`AttemptsFit`):
a waiting job has an attempt left, the attempt of a running job is one of those it asked
for. The argument goes by the size of the change: `OneJobFits`, `OneJobSeen` and
`BecomeSeen` treat an action that changes one job (`Enqueue`, `Begin`, `Succeed`, `Fail`),
`InterruptedJobs` one that loses some jobs and hands others out again (`Drop`, `Stop`,
`Exit`); `EveryStep` combines them with the stutters. `StopIsFinal` rests on a second,
independent invariant: a process that is not up has cleared its running flag.

### Radar

`QueueProofs` proves, from `RadarAssumption` alone, for any portals, rates, vocabularies,
listings, robots files of any length, pool sizes, finite sets of polls and failures:

* `DataAlwaysSound`: `RadarSpec => []DataIsSound`, that is types, `ConnectionsAccounted`,
  `RoundTrips` and `KnownIsPositive`;
* `BatchAlwaysAtomic`: `RadarSpec => BatchIsAtomic`;
* `AlwaysSpaced`: `RadarSpec => Spaced`;
* `ExclusionAlwaysRespected`: `RadarSpec => ExclusionRespected`.

The inductive invariant is

    RadarIInv == RadarTypeOK /\ ConnectionsAccounted /\ LimiterFits /\ RowsSound /\ \A p \in Polls : PollFits(p)

* `ConnectionsAccounted` counts pairs of a poll and a connection; `Shares` and
  `AccountNext` show once what the count becomes when one poll takes or gives back some;
* `RowsSound`: a row is known exactly if its value is positive, in the committed rows and
  in what every open T1 sees, as a commit publishes the latter;
* `LimiterFits`: what the limiter remembers of a portal is when it was last asked, and a
  portal this process has asked is remembered. `PollFits` adds that a waiting poll which
  nobody overtook has to wait for the rest of the interval at least; `Spaced` follows;
* `PollFits` also has that a poll at work is under a policy that allows it, and that a
  listing about to be written is in normal form (`Normal`: a value of whole hundredths),
  without which it would not survive being stored.

`isAllowed` is a loop over the rules, so that `ExclusionRespected` needs induction on
their number. The induction theorems of the library take the predicate as an operator
parameter, which the provers cannot instantiate; `Induction` states it of a *set* of
numbers instead (one that contains zero and the successor of each of its members) and is
proved by a least element of the complement, from the well-foundedness of `<`. With it
`DecisionExists` and `DecisionIs` show that the recursive function `Decision` is what its
equation says, and `LongestMatch` that what it has decided after each rule is the longest
match so far, an Allow among equals.

### Billing

`BillingProofs` proves, from `BillingAssumption` alone, for any tiers and limits, number
of retries, periods, requests under way and failures, and however runs overlap:

* `AccountAlwaysMirrors`: `Spec => [](TypeOK /\ AccountMirrorsSubscription)`;
* `ListAlwaysFits`: `Spec => ListFitsATier`;
* `AttemptsAlwaysCounted`: `Spec => []OneKeyPerFailure`, which is what a charge under the
  key of an uncounted failure costs at most;
* `EarlyIsRenewed`: `Spec => EarlyOnlyAfterRenewal`.

The invariant is `AnyRuns == TypeOK /\ AccountMirrorsSubscription /\ FiltersFit /\
RestrictedAtCap`. `RestrictedAtCap` is needed as a stale run may record a failure on a
subscription that is restricted already: only because its retries are used up does the row
stay `read_only` with its account's. The last two have invariants of their own.
`OneKeyPerFailure` takes two. `KeysPaid`: the payments of a period are as many as its
captured keys. `KeysBehind`: no key is used, or about to be, that the row has not come to,
as a run reads its key from the row and the row never goes back to an earlier period or
count (`RowGoesOn`), so that even a run that has slept through a renewal holds a key of the
past. The keys of the open period are then among `{period} \X 0..retry`, which
`KeysOfPeriod` counts. `ListedFits` has that a row a
job still has to do was due when it was listed and that the subscription's period has not
gone back since, so that a row found not due any more has a later period.

And until two runs (the daily job or the owner's button) have been in progress at once,
which is what the ghost `met` in these properties says:

* `RowsAlwaysAgree`: `Spec => []RowsAgree`;
* `MoneyAlwaysRight`: `Spec => []MoneyIsRight`, that is `OneCapturePerPeriod` and
  `RestrictedAfterRetries`;
* `ChangesAreAlwaysPaid`: `Spec => ChangesArePaid`, which the contract implies;
* `KeepsBillingContract`: `Spec => ChargesAsPromised`, the refinement.

The exception is needed: overlapping failures of one key count twice, and section 4 says
what may become of the payments. `OneCapturePerPeriod` counts captured keys of a period,
and what bounds them is how keys come about, one per count of failures. The invariant is
`StillSerial == met \/ (Serial /\ OneAtATime)`, as a step after which two runs are in
progress sets `met` for good, and `Serial` adds to `AnyRuns`:

* `KeysInOrder`, `KeysCounted`: no key beyond the current period and count of failures
  was used, and the failures of the open period are no more than its captures and declined
  keys together;
* `OpenFits`: the open period has been captured at most as often as lost answers and
  subscribing anew account for (`Slack`), or once more with a key that repeats its outcome;
* `RunsFit`: what the run in progress has read of the subscription is still so where it
  relies on it. This is where a second run would break the argument;
* `Money`, `NotYet`: the properties themselves, and that periods to come have no payment.

The refinement takes `Serial` as its invariant and goes by the contract's actions.
`ChargesStepPromised`: a charge belongs to the open period, and what it captures stays
within the mishaps (`OpenFits`). `RenewsAsPromised`: a run that records a success has read
the open period and a captured key of it (`RunsFit`). `RestrictsAsPromised`: the failure
that reaches the cap is one more than `KeysCounted` allows without a refusal or a mishap.
`SubscribesAsPromised` and `AsksAsPromised` are the owner's steps. A failure below the cap,
the region list and the steps that only read are stutters.

### Smart Match

`SmartMatchProofs` proves, from `SmartMatchAssumption` alone, for any accounts, tenders,
regions, polls at once and faults:

* `MatchesAlwaysFounded`: `Spec => []MatchesAreFounded`;
* `ClosedGetNoMatch`: `Spec => NoMatchForClosed`.

T2 commits matches computed from rows T1 has not committed, so that a match need not agree
with the committed tender at the moment it is made. The inductive invariant relates it to
the row its holder is going to commit:

    IInv == MatchesAreFounded /\ RowsApart /\ \A p \in Polls : PollHolds(p) /\ HitsEligible(p) /\ HeldAgrees(p)

* `RowsApart`: a row is held by one T1 at most (the row lock);
* `PollHolds`: the row a poll works on is held, and T1's copy is open exactly if the
  committed row is, as maintenance waits for held rows. `ClosedGetNoMatch` follows from it;
* `HitsEligible`: what T2 is about to write was eligible when it read the filters, or the
  filter has moved since;
* `HeldAgrees`: the matches of a held tender agree with the row that will be committed,
  unless they are being decided or the tender was rolled back before.

Before it was proved, the invariant was checked by TLC: exhaustively with one tender, by
simulation with two.

### Deadline Guard

`DeadlineGuardProofs` proves, from `DeadlineGuardAssumption` alone, for any offsets, grace
period, overlapping scans and failures:

* `RemindersAlwaysSound`: `Spec => []RemindersAreSound`, that is, a pursuit is reminded
  once per offset.

`RemindedOnce` counts committed rows. The inductive invariant `TypeOK /\
HoldsWhileReminding /\ KeysApart /\ Counted` says what the unique index does to rows that
are not committed: none of them has the key of a committed row or of another scan's
(`KeysApart`), and a scan that is not going through its list holds none. `Counted` ties the
number of rows of a key to there being a reminder with it.

### Documents

`DocumentsProofs` proves, from `DocumentsAssumption` alone, for any accounts, documents,
requests and failures:

* `StoresAlwaysAgree`: `Spec => []StoresAgree`;
* `BytesAreOwn`: `Spec => []OwnBytesOnly`.

No lock spans the steps of a request, so the invariant has what a request relies on all
the same (`RequestsFit`: from `Find` on the document is the account's, between `Mark` and
`Unlink` its row is deleted), and that the storage key of an upload is nobody else's
(`UploadsApart`); without it another request could remove the file between `Put` and
`Insert`.

### Realtime

`DashboardProofs` proves, from `RealtimeAssumption` alone, for any numbers of sockets,
changes and fetches that overlap:

* `PageAlwaysSound`: `Spec => []PageIsSound`.

A page is quiet when nothing is under way; the invariant has to say of every other state
that something is:

    NewsComing == /\ newest >= told \/ Coming(told)
                  /\ matched <= told \/ unsaid > 0 \/ ws \notin subscribed

`Coming(v)` lists what makes the page show version v or a later one: no subscribed socket,
an event on its way, a reload that is set, a fetch that has not read yet or has read such a
version. The second conjunct says of the changes that have events what silent changes break
for the others: a match that a subscribed page has not been told of is yet to be published.
A poll that publishes while others have still to is no exception, as `told` is the version
of the moment, not of the match. It rests on `VersionsFit` (nothing shown or told is from
the future) and on `SocketsFit`: the page's socket is open, no other is, and none is
subscribed twice, so that what the hub sends reaches the page or nobody.

### Scoring

`DashboardProofs` proves, from `ScoringAssumption` alone:

* `ScoresAlwaysSound`: `CapHolds`, `InRange` and `NeverGains` for any regions, categories,
  tender, filter, cap and times, whether values and bounds are known, ordered or negative.

and, from `InsightsAssumption` and `BidBrainAssumption` besides:

* `ScoringAlwaysSound`: `BidSpec => []ScoringIsSound`, the property the run checks, for any
  tenders, filters, caps and times instead of the samples of `MCInsights`.

The parts of the score are quotients with a divisor that depends on the filter, which is
more than the provers do by themselves. `Quotient` and `QuotientBounds` say once what they
need of `\div`, `Rounding` and `RoundingMonotone` of what is rounded to the nearest, here
and in Bid Brain; `BlendInRange` adds the parts up.

### Bid Brain

`DashboardProofs` proves, from `BidBrainAssumption` alone, for any tiers, groups, prices,
requests that overlap and any number of records:

* `PredictionsAlwaysSound`: `BidSpec => []PredictionsAreSound`;
* `AlwaysEntitled`: `BidSpec => EntitledOnce`.

The inductive invariant `BidIInv` says of a request that is about to store what
`PredictionIsEarned` says of what is stored, that its result passes the checks of the
table, and that no request is under way for an account without Bid Brain ever since.
`Earned` is stable (`StaysEarned`), as the history only grows. What is left is about the
data, for every sample:

* `Rank`: the k-th price in order is at most v exactly if k prices are. `Ascending` picks a
  least price with k prices up to it; that there is one takes a bound of the sample
  (`Bounded`, by `Induction` on the records) and a least element. `InOrder` follows, and so
  does `BandIsInterquartile`: `BelowBand` and `AboveBand` compare the rank of the bounds
  with the places of the quartiles (`Quartiles`);
* `PercentileBetween`: an interpolated percentile lies between its neighbours, and by
  `Rounding` its rounded value does not pass them either;
* `ConfidenceInRange`: with known prices the median is positive, so that the confidence is
  between 0 and 1 without help of the clamp.

### Sessions

`AccessProofs` proves, from `SessionsAssumption` alone, for any sessions, requests that
overlap and inactivity period:

* `TypeCorrect`: `Spec => []TypeOK`;
* `OnlyLiveEverPass`: `Spec => OnlyLivePass`.

The decision is made from what an earlier transaction read, so the invariant ties what a
request remembers to the clock (`RequestFits`): from `Find` to `Check` the remembered
idleness plus the remembered activity is no later than now, and from `Check` to `Touch`
the idleness is within the limit. `LastIsPast` (no session was used in the future) makes
the difference that `Find` computes a natural number. That a request begun after a refusal
never passes follows because what is refused is revoked and `Touch`, which does not look
at the state, does not change it either.

### Access

`AccessProofs` proves, from `SessionsAssumption` and `AccessAssumption`, for any accounts,
users, sessions and requests that overlap:

* `ImplementsSessions`: `AccessSpec => Spec`, the specification of `Sessions`; with it
  `AccessKeepsSessions`: `AccessSpec => OnlyLivePass`, from the theorem about
  `Sessions`;
* `AccessSound`: `AccessSpec => []AccessInv`, types and owners;
* `RestrictionHoldsAlways`: `AccessSpec => RestrictionHolds`.

The refinement needs no mapping: every step of `AccessNext` is one of `Next` or leaves the
variables of `Sessions` alone. The invariant `AInv` has, besides the types and the owner:

* `RegistrationFits`: a registration under way has no account yet, and the one that has
  inserted its rows is the only one to have its address, which no user has. Without it a
  commit could overwrite the owner of another account;
* `UserHasAccount`, `HolderIsUser`: members belong to accounts there are, and who is
  logged in is a user, so that a request's account is one;
* `CallFits`: `requireAuth` comes before the handler; a request is locked only while its
  account is restricted and is not any more once it has come to its handler, which is what
  `requireWrite` is for.

The argument goes by what a step changes: the record of one request (`OneCallStep`), the
registrations (`RegStep`), one user more (`UserMore`), the status of an account
(`StatusStep`).

### Transactions

`AccessProofs` proves, from `TenancyAssumption` alone, for any accounts, calls, clients of
the pool and connections that break:

* `OwnRowsAlways`: `TenancySpec => []OwnRowsOnly`, the isolation of the accounts (INV1);
* `TenancySound`: `TenancySpec => []TenancyInv`, types and that nothing of a rejected call
  is stored;
* `ResolvedIsCommittedAlways`: `TenancySpec => ResolvedIsCommitted`.

The policy filters by the setting of the database session, not by the call, so the
invariant has to tie the two together across the reuse of clients:

    TenancyIInv == Types /\ breaks \in 0..MaxBreaks /\ Held /\ Apart /\ Served /\ Unused /\ Rows /\ Seen

* `Held`, `Apart`: a call has a client exactly while it is in hand, and no two calls have
  the same one;
* `Served`: the session of a call's client holds no row but that call's, has nothing of
  an earlier call before the setting is made, and has the setting of the call's account
  once it is at work;
* `Unused`: a client in the pool is blank. This is what `ROLLBACK` in the `catch` and the
  transaction-local `set_config` are for;
* `Rows`, `Seen`: what is stored is of a call that resolved or whose answer was lost, and
  what a call has seen is of its account.

A step changes one call and the session of its client; `Moves` shows once that such a step
leaves the others fitting, and each action has a lemma that gives its record and session.
`Breaks` is the step without a call. `MCAccess` runs both specifications side by side, one
per behaviour, so that the two sets of properties share a run.

### Only model-checked

* Everything under fairness: liveness and `ENABLED` are beyond the provers.
* `AscendingSorts`, as the sort it compares with is an operator of TLC's own.

Every other property of the passing runs is stated by a theorem. None of the modules declares a RECURSIVE operator, so each can be proved about as it is.

## 6. Not modelled

* Encryption at rest and password hashing: library calls whose results are opaque here.
* The other figures of the dashboard. Each statement of the summary has a snapshot of its
  own (READ COMMITTED), so that a count may differ from the list beside it, and
  `deadlinesThisWeek` counts what is overdue as well; the next fetch replaces all of them.
* Backups: files nothing in the program reads again. `backup.ts` reads its three tables in
  three transactions, so the files are not of one point in time.
* Migrations, seed and setup: run by an operator while the program is down, each in one
  transaction. `migrateDown` goes on after a migration without a DOWN section and reverts
  the ones before it. The constraints the modules rely on (unique indexes, foreign keys,
  row level security) are taken from the migrations.
* HTTP routing, input validation, logging: no state that outlives a request. The guards
  a route puts before a service call are in the action of that call.
* Time that passes in the Deadline Guard and the documents is in days, in the job queue
  and the realtime page it is not there at all: a timer that is set may fire.

## 7. Plan

Done, in this order: the notification service (the most concurrent part), its proofs,
billing, ingest and matching, the job queue with its contract and the proof that it keeps
it, Deadline Guard, documents, sessions with their proofs, realtime; then the radar,
scoring and Bid Brain, access and the transactions under row level security with their
proofs, the session of the page; then the proofs about documents, billing, passes of the
notification service that do not overlap, Smart Match, Deadline Guard, the page, the
radar, scoring and Bid Brain; then the contracts of delivery and of billing with their
refinements, and what billing keeps when its runs overlap.

Left open:

1. Liveness is model-checked only. What it rests on that is not temporal (that the step
   the fairness is about stays enabled as long as the wait lasts) speaks of `ENABLED`,
   which the provers do not handle.
2. Database constraints are taken from the migrations as they stand; that a migration
   keeps the rows of the one before within them is not stated.
