--------------------------- MODULE DeadlineGuard ---------------------------
(***************************************************************************)
(* Deadline Guard for one business account: the users pursue tenders, and  *)
(* the deadline.scan job reminds of deadlines and closes what is past its  *)
(* grace period.  scanReminders is ONE transaction: it lists the active    *)
(* pursuits, then enqueues one notification per due offset under a dedupe  *)
(* key; the unique index makes an insert wait for another transaction that *)
(* has inserted the same key.  Scans may overlap.  Pursuits and reminders  *)
(* of different accounts share nothing.                                    *)
(***************************************************************************)
EXTENDS Integers, FiniteSets

CONSTANTS Tenders,     \* tenders the account may pursue
          OffsetLists, \* the reminder offsets (in days) a request may ask for
          Defaults,    \* DEFAULT_REMINDER_DAYS
          Grace,       \* DEFAULT_GRACE_PERIOD_HOURS, in days
          NoDeadline,  \* tracked_deadline IS NULL
          Scans,       \* scan jobs that may be in progress at once
          MaxTime,     \* bound: days
          MaxPursuits, \* bound: rows inserted
          MaxFaults    \* bound: scans that fail

ASSUME DeadlineGuardAssumption ==
  /\ Defaults \subseteq Nat \ {0}
  /\ OffsetLists \subseteq SUBSET (Nat \ {0})
  /\ Grace \in Nat
  /\ MaxTime \in Nat
  /\ NoDeadline \notin Nat
  /\ MaxPursuits \in Nat /\ MaxFaults \in Nat

Days == 0..MaxTime
\* "watching" stands for the five stages that are not closed.
Stages == {"watching", "closed"}
AllOffsets == Defaults \union UNION OffsetLists
\* The row of a tender; id 0 stands for no row.
Row == [id : 0..MaxPursuits, stage : Stages, closed : BOOLEAN,
        deadline : Days \union {NoDeadline}, offsets : SUBSET AllOffsets]
\* A reminder: its dedupe key is made of the pursuit's id and the offset.
DedupeKeys == (1..MaxPursuits) \X AllOffsets
Reminder == [id : 1..MaxPursuits, offset : AllOffsets, deadline : Days]

VARIABLES now,       \* the day
          pursued,   \* pursued_tender
          lastId,    \* ids given out
          channelOn, \* whether the account has an enabled notification channel
          log,       \* committed reminders in notification_log
          copies,    \* how many rows there are of each dedupe key
          scan,      \* the scan jobs
          wrote,     \* reminders a scan has inserted and not committed
          faults     \* scans that failed

vars == <<now, pursued, lastId, channelOn, log, copies, scan, wrote, faults>>
userVars == <<pursued, lastId, channelOn>>
logVars == <<log, copies>>

NoRow == [id |-> 0, stage |-> "watching", closed |-> FALSE, deadline |-> NoDeadline, offsets |-> {}]
IdleScan == [pc |-> "idle", todo |-> {}]

TypeOK ==
  /\ now \in Days
  /\ pursued \in [Tenders -> Row]
  /\ lastId \in 0..MaxPursuits
  /\ channelOn \in BOOLEAN
  /\ log \subseteq Reminder
  /\ copies \in [DedupeKeys -> Nat]
  /\ scan \in [Scans -> [pc : {"idle", "remind", "close"}, todo : SUBSET Reminder]]
  /\ wrote \in [Scans -> SUBSET Reminder]
  /\ faults \in 0..MaxFaults

Init ==
  /\ now = 0
  /\ pursued = [t \in Tenders |-> NoRow]
  /\ lastId = 0
  /\ channelOn = TRUE
  /\ log = {}
  /\ copies = [k \in DedupeKeys |-> 0]
  /\ scan = [s \in Scans |-> IdleScan]
  /\ wrote = [s \in Scans |-> {}]
  /\ faults = 0

Tick ==
  /\ now < MaxTime
  /\ now' = now + 1
  /\ UNCHANGED <<userVars, logVars, scan, wrote, faults>>

-----------------------------------------------------------------------------
(* The users' requests, each one committed transaction. *)

Exists(t) == pursued[t].id # 0

\* pursueTender: the upsert replaces deadline and offsets; "keep" stands for a
\* request without a stage.  closed_at is left alone.
Pursue(t, d, offsets, stage) ==
  /\ Exists(t) \/ lastId < MaxPursuits
  /\ lastId' = IF Exists(t) THEN lastId ELSE lastId + 1
  /\ pursued' = [pursued EXCEPT ![t] =
       [id |-> IF Exists(t) THEN @.id ELSE lastId + 1,
        stage |-> IF stage = "keep" THEN @.stage ELSE stage,
        closed |-> @.closed, deadline |-> d, offsets |-> offsets]]
  /\ UNCHANGED <<now, channelOn, logVars, scan, wrote, faults>>

Unpursue(t) ==
  /\ Exists(t)
  /\ pursued' = [pursued EXCEPT ![t] = NoRow]
  /\ UNCHANGED <<now, lastId, channelOn, logVars, scan, wrote, faults>>

SetStage(t, stage) ==
  /\ Exists(t)
  /\ pursued' = [pursued EXCEPT ![t].stage = stage]
  /\ UNCHANGED <<now, lastId, channelOn, logVars, scan, wrote, faults>>

ConfigureReminders(t, offsets) ==
  /\ Exists(t)
  /\ pursued' = [pursued EXCEPT ![t].offsets = offsets]
  /\ UNCHANGED <<now, lastId, channelOn, logVars, scan, wrote, faults>>

\* upsertNotificationPref, for an account that uses one channel.
SetChannel(on) ==
  /\ channelOn' = on
  /\ UNCHANGED <<now, pursued, lastId, logVars, scan, wrote, faults>>

-----------------------------------------------------------------------------
(* A scan. *)

\* listActivePursuedWithDeadline.
Active(t) ==
  Exists(t) /\ ~pursued[t].closed /\ pursued[t].stage # "closed" /\ pursued[t].deadline # NoDeadline

\* Mutant: a reminder is due only on the very day of its offset.
DueOffsetsOnTheDay(deadline, offsets, at) == {d \in offsets : deadline - at = d}

\* computeDueReminders.
DueOffsets(deadline, offsets, at) ==
  {d \in offsets : deadline - at > 0 /\ deadline - at <= d}

\* The scan reads the clock and the active pursuits; nothing below looks at
\* either again.
ScanList(s) ==
  /\ scan[s].pc = "idle"
  /\ scan' = [scan EXCEPT ![s] =
       [pc |-> "remind",
        todo |-> UNION {{[id |-> pursued[t].id, offset |-> o, deadline |-> pursued[t].deadline]
                           : o \in DueOffsets(pursued[t].deadline, pursued[t].offsets, now)}
                         : t \in {u \in Tenders : Active(u)}}]]
  /\ UNCHANGED <<now, userVars, logVars, wrote, faults>>

SameKey(r, q) == r.id = q.id /\ r.offset = q.offset
\* The other scans that have inserted r's key and not committed yet.
Holders(s, r) == {x \in Scans \ {s} : \E q \in wrote[x] : SameKey(r, q)}
Taken(s, r) == \E q \in log \union wrote[s] : SameKey(r, q)

\* The order of the loop: any pursuit, its offsets from the largest down.
MayTake(s, r) ==
  r \in scan[s].todo /\ \A q \in scan[s].todo : q.id = r.id => q.offset <= r.offset

\* Mutant: the insert has no ON CONFLICT DO NOTHING and no unique index behind it.
ScanNotifyTwice(s, r) ==
  /\ scan[s].pc = "remind"
  /\ MayTake(s, r)
  /\ scan' = [scan EXCEPT ![s].todo = @ \ {r}]
  /\ wrote' = [wrote EXCEPT ![s] = @ \union {r}]
  /\ UNCHANGED <<now, userVars, logVars, faults>>

\* notifyAccount: nothing is inserted without a channel, nor for a key that is
\* there; a key another scan has just inserted is waited for.
ScanNotify(s, r) ==
  /\ scan[s].pc = "remind"
  /\ MayTake(s, r)
  /\ channelOn => Holders(s, r) = {}
  /\ scan' = [scan EXCEPT ![s].todo = @ \ {r}]
  /\ wrote' = [wrote EXCEPT ![s] = IF channelOn /\ ~Taken(s, r) THEN @ \union {r} ELSE @]
  /\ UNCHANGED <<now, userVars, logVars, faults>>

ScanCommit(s) ==
  /\ scan[s].pc = "remind"
  /\ scan[s].todo = {}
  /\ log' = log \union wrote[s]
  /\ copies' = [k \in DedupeKeys |-> copies[k] + Cardinality({r \in wrote[s] : <<r.id, r.offset>> = k})]
  /\ wrote' = [wrote EXCEPT ![s] = {}]
  /\ scan' = [scan EXCEPT ![s].pc = "close"]
  /\ UNCHANGED <<now, userVars, faults>>

\* Mutant: rows whose closed_at is set are not left out, rows without are.
PastGraceClosed(row) == row.closed /\ row.deadline # NoDeadline /\ row.deadline + Grace < now
PastGrace(row) == ~row.closed /\ row.deadline # NoDeadline /\ row.deadline + Grace < now

\* scanGraceClosures, one UPDATE, whatever stage the row is in; the scan of the
\* expiring documents that follows does not touch this state.
ScanClose(s) ==
  /\ scan[s].pc = "close"
  /\ pursued' = [t \in Tenders |->
       IF Exists(t) /\ PastGrace(pursued[t])
       THEN [pursued[t] EXCEPT !.stage = "closed", !.closed = TRUE] ELSE pursued[t]]
  /\ scan' = [scan EXCEPT ![s] = IdleScan]
  /\ UNCHANGED <<now, lastId, channelOn, logVars, wrote, faults>>

Rollback(S) ==
  /\ scan' = [s \in Scans |-> IF s \in S THEN IdleScan ELSE scan[s]]
  /\ wrote' = [s \in Scans |-> IF s \in S THEN {} ELSE wrote[s]]
  /\ UNCHANGED <<now, userVars, logVars>>

\* A statement fails, PostgreSQL breaks a ring of scans that wait for each other's
\* keys, or the process dies; safeJob logs it and the rest of the scan, the
\* closures included, is skipped until the next tick.
ScanAbort(S) ==
  /\ faults < MaxFaults
  /\ \A s \in S : scan[s].pc # "idle"
  /\ faults' = faults + 1
  /\ Rollback(S)

-----------------------------------------------------------------------------
ScanStep(s) ==
  \/ ScanList(s)
  \/ \E r \in scan[s].todo : ScanNotify(s, r)
  \/ ScanCommit(s)
  \/ ScanClose(s)

Request(t) ==
  \/ \E d \in Days \union {NoDeadline}, o \in OffsetLists \union {Defaults}, g \in Stages \union {"keep"} :
       Pursue(t, d, o, g)
  \/ Unpursue(t)
  \/ \E g \in Stages : SetStage(t, g)
  \/ \E o \in OffsetLists : ConfigureReminders(t, o)

Next ==
  \/ Tick
  \/ \E t \in Tenders : Request(t)
  \/ \E on \in BOOLEAN : SetChannel(on)
  \/ \E s \in Scans : ScanStep(s)
  \/ \E S \in SUBSET Scans \ {{}} : ScanAbort(S)

Spec == Init /\ [][Next]_vars

\* The timer starts scans again and again, and a scan that can go on does.
FairSpec == Spec /\ \A s \in Scans : WF_vars(ScanStep(s))

-----------------------------------------------------------------------------
(* Properties. *)

\* ID3 (service.ts:93): one reminder per pursuit and offset, also when scans
\* overlap, fail and run again.
RemindedOnce == \A k \in DedupeKeys : copies[k] <= 1

\* REQ 8.2, 8.3: a reminder that is due, for an account that can be reached, is
\* enqueued although scans are skipped or fail, unless it stops being due.
Due(t, id, o) ==
  /\ Active(t) /\ pursued[t].id = id
  /\ o \in pursued[t].offsets
  /\ pursued[t].deadline \in now + 1..now + o
  /\ channelOn
DueIsReminded ==
  \A t \in Tenders, id \in 1..MaxPursuits, o \in AllOffsets :
    Due(t, id, o) ~> (~Due(t, id, o) \/ \E r \in log : r.id = id /\ r.offset = o)

\* REQ 8.5: a pursuit past its deadline and grace period is closed in the end,
\* whatever stage it is in and whatever else the scan has to do.
Overdue(t) ==
  /\ Exists(t) /\ ~pursued[t].closed
  /\ pursued[t].deadline \in 0..now - Grace - 1
PastGraceIsClosed == \A t \in Tenders : Overdue(t) ~> ~Overdue(t)

\* The rows have their types, and no reminder is there twice (service.ts:93).
RemindersAreSound == TypeOK /\ RemindedOnce
=============================================================================
