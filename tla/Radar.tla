------------------------------- MODULE Radar -------------------------------
(***************************************************************************)
(* A poll of a portal from the timer to the record of its outcome:         *)
(* robots.txt, the rate limiter, the fetch, normalisation, the ingest      *)
(* transaction T1 with a second connection for each tender's evaluation,   *)
(* and recordPortalPollResult.  Polls of all portals share the limiter and *)
(* the privileged connection pool, whose connect() gives up after a        *)
(* timeout.  What the evaluation writes is SmartMatch's subject.           *)
(***************************************************************************)
EXTENDS Integers, Sequences, FiniteSets, SequencesExt

CONSTANTS Polls,        \* polls that may be in progress at once
          Portals,      \* configured portals
          Rpm,          \* rateLimitRpm of each portal, as configured
          MinRpm,       \* RADAR_MIN_RATE_LIMIT_RPM
          Minute,       \* a minute, in ticks of the clock
          Identifiers,  \* sourceIdentifier values
          Aliases,      \* REGION_ALIASES
          Vocabulary,   \* REGION_VOCABULARY
          RawListings,  \* listings the portals publish; values in thousandths
          RobotsFiles,  \* robots.txt files: sequences of groups of rules
          Absent,       \* a field that is missing or cannot be parsed
          PoolSizes,    \* values of PG_POOL_MAX
          MaxBatch,     \* bound: listings of one answer, for each pool size
          MaxFaults     \* bound: failed statements and crashes

\* robots.txt: rules allow or disallow a prefix of the listings path, or another path.
Rule == [allow : BOOLEAN, prefix : BOOLEAN, len : Nat]
Group == [agents : SUBSET STRING, rules : Seq(Rule)]

ASSUME RadarAssumption ==
  /\ IsFiniteSet(Polls)
  /\ Rpm \in [Portals -> Int]
  /\ MinRpm \in Nat \ {0} /\ Minute \in Nat \ {0}
  /\ Absent \notin Int \union Portals
  /\ \A raw \in RawListings : raw.id \in Identifiers /\ raw.value \in Int \union {Absent}
  /\ RobotsFiles \subseteq Seq(Group)
  /\ PoolSizes \subseteq Nat \ {0} /\ MaxBatch \in [PoolSizes -> Nat] /\ MaxFaults \in Nat

-----------------------------------------------------------------------------
(* normalizeListing and the stored form. *)

Canonical == {Aliases[k] : k \in DOMAIN Aliases} \union {Vocabulary[k] : k \in DOMAIN Vocabulary}

\* Aliases first, then the vocabulary, else null.
NormalizeRegion(raw) ==
  IF raw \in DOMAIN Aliases THEN Aliases[raw]
  ELSE IF raw \in DOMAIN Vocabulary THEN Vocabulary[raw] ELSE Absent

\* Math.round(v * 100) / 100: to the precision of numeric(18,2), halves upwards.
Quantize(v) == 10 * ((v + 5) \div 10)

Normalize(raw) ==
  LET known == raw.value # Absent /\ Quantize(raw.value) > 0 IN
  [id |-> raw.id,
   region |-> NormalizeRegion(raw.region),
   value |-> IF known THEN Quantize(raw.value) ELSE Absent,
   status |-> IF known THEN "known" ELSE "unknown"]

\* The row holds hundredths.
ToStored(t) == [t EXCEPT !.value = IF @ = Absent THEN Absent ELSE @ \div 10]
FromStored(s) == [s EXCEPT !.value = IF @ = Absent THEN Absent ELSE @ * 10]

NoRow == [region |-> Absent, value |-> Absent, status |-> "none"]

\* Mutant: the value is written whatever its status, the status is kept.
MergeHalf(row, s) ==
  [region |-> IF s.region = Absent THEN row.region ELSE s.region,
   value |-> s.value,
   status |-> IF s.status # "known" /\ row.status # "none" THEN row.status ELSE s.status]

\* upsertTender: what the listing leaves out keeps its value.
Merge(row, s) ==
  LET keeps == s.status # "known" /\ row.status # "none" IN
  [region |-> IF s.region = Absent THEN row.region ELSE s.region,
   value |-> IF keeps THEN row.value ELSE s.value,
   status |-> IF keeps THEN row.status ELSE s.status]

-----------------------------------------------------------------------------
(* robots.txt.  A rule names a prefix of the listings path, by its length,  *)
(* or another path.                                                         *)

\* The first group that names the agent "*".
RulesFor(file) ==
  LET g == SelectInSeq(file, LAMBDA group : "*" \in group.agents)
  IN  IF g = 0 THEN <<>> ELSE file[g].rules

Undecided == [allow |-> TRUE, len |-> 0]

\* Mutant: the last rule that matches wins, whatever its length.
WeighLastWins(d, rule) ==
  IF rule.len > 0 /\ rule.prefix
  THEN [allow |-> rule.allow, len |-> rule.len] ELSE d

\* One step of isAllowed's loop: the longest match wins, Allow at equal length.
Weigh(d, rule) ==
  IF /\ rule.len > 0 /\ rule.prefix
     /\ rule.len > d.len \/ (rule.len = d.len /\ rule.allow)
  THEN [allow |-> rule.allow, len |-> rule.len] ELSE d

\* What the loop has decided after each rule.
Decision(rules) ==
  LET d[n \in 0..Len(rules)] == IF n = 0 THEN Undecided ELSE Weigh(d[n - 1], rules[n]) IN d

IsAllowed(rules) == Decision(rules)[Len(rules)].allow

\* normalizePortal: a rate that is not positive is replaced; acquire's interval.
Interval(s) == Minute \div (IF Rpm[s] > 0 THEN Rpm[s] ELSE MinRpm)

-----------------------------------------------------------------------------
VARIABLES poolMax,  \* PG_POOL_MAX of this process
          limiter,  \* ticks since RateLimiter's lastAt, up to the interval; Absent: no entry
          poll,     \* the polls
          stored,   \* committed tender rows
          view,     \* rows as a poll's T1 has written them
          wrote,    \* the rows a T1 has written and holds locked
          inUse,    \* connections of the privileged pool that are taken
          status,   \* last_status of each portal
          since,    \* ghost: ticks since the last listings request, up to the interval
          asked,    \* ghost: portals asked for listings since the process started
          faults    \* failed statements and crashes so far

radarVars == <<poolMax, limiter, poll, stored, view, wrote, inUse, status, since, asked, faults>>
clockVars == <<poolMax, limiter, since, asked>>
dataVars == <<stored, view, wrote, status>>

Keys == Portals \X Identifiers
Listing == [id : Identifiers, region : Canonical \union {Absent},
            value : Int \union {Absent}, status : {"known", "unknown"}]
Row == [region : Canonical \union {Absent}, value : Int \union {Absent},
        status : {"known", "unknown", "none"}]

Batch == {"next", "upsert", "hook", "evaluate"}  \* T1 is open
\* The policies a poll may come to work by.
Policies == {RulesFor(f) : f \in RobotsFiles} \union {<<>>}

Poll == [pc : {"idle", "acquire", "wait", "fetch", "connect", "report"} \union Batch,
         portal : Portals \union {Absent}, rules : Policies, wait : Nat, overtaken : BOOLEAN,
         left : Nat, cur : Listing \union {Absent}, outcome : {"none", "ok", "failed"}]
Idle == [pc |-> "idle", portal |-> Absent, rules |-> <<>>, wait |-> 0, overtaken |-> FALSE,
         left |-> 0, cur |-> Absent, outcome |-> "none"]

RadarTypeOK ==
  /\ poolMax \in PoolSizes
  /\ limiter \in [Portals -> Nat \union {Absent}] /\ since \in [Portals -> Nat]
  /\ \A s \in Portals : limiter[s] \in (0..Interval(s)) \union {Absent} /\ since[s] \in 0..Interval(s)
  /\ poll \in [Polls -> Poll]
  /\ \A p \in Polls :
       /\ poll[p].pc # "idle" => poll[p].portal # Absent
       /\ poll[p].pc = "upsert" => poll[p].cur \in Listing
       /\ poll[p].left <= MaxBatch[poolMax]
  /\ stored \in [Keys -> Row] /\ view \in [Polls -> [Keys -> Row]]
  /\ wrote \in [Polls -> SUBSET Keys]
  /\ inUse \in Nat
  /\ status \in [Portals -> {"none", "ok", "failed"}]
  /\ asked \subseteq Portals
  /\ faults \in 0..MaxFaults

NoRows == [k \in Keys |-> NoRow]

RadarInit ==
  /\ poolMax \in PoolSizes
  /\ limiter = [s \in Portals |-> Absent]
  /\ poll = [p \in Polls |-> Idle]
  /\ stored = NoRows
  /\ view = [p \in Polls |-> NoRows]
  /\ wrote = [p \in Polls |-> {}]
  /\ inUse = 0
  /\ status = [s \in Portals |-> "none"]
  /\ since = [s \in Portals |-> Interval(s)]
  /\ asked = {}
  /\ faults = 0

\* Poll p goes on to pc; its other fields stay as they are.
Goto(p, pc) == poll' = [poll EXCEPT ![p].pc = pc]
\* Poll p is over but for the record of its outcome; nothing else of it matters.
Report(p, outcome) ==
  poll' = [poll EXCEPT ![p] = [Idle EXCEPT !.pc = "report", !.portal = poll[p].portal, !.outcome = outcome]]
Free == inUse < poolMax

Tick ==
  /\ limiter' = [s \in Portals |-> IF limiter[s] \in 0..(Interval(s) - 1) THEN limiter[s] + 1 ELSE limiter[s]]
  /\ since' = [s \in Portals |-> IF since[s] < Interval(s) THEN since[s] + 1 ELSE since[s]]
  /\ poll' = [p \in Polls |-> IF poll[p].wait > 0 THEN [poll[p] EXCEPT !.wait = @ - 1] ELSE poll[p]]
  /\ UNCHANGED <<poolMax, dataVars, inUse, asked, faults>>

\* The queue runs a radar.poll job.  loadPolicy: the file's rules, or none when it
\* cannot be had; a path that is disallowed makes an empty batch.
StartPoll(p, s) ==
  /\ poll[p].pc = "idle"
  /\ \E rules \in Policies :
       poll' = [poll EXCEPT ![p] = [Idle EXCEPT
                 !.pc = IF IsAllowed(rules) THEN "acquire" ELSE "connect",
                 !.portal = s,
                 !.rules = IF IsAllowed(rules) THEN rules ELSE <<>>]]
  /\ UNCHANGED <<clockVars, dataVars, inUse, faults>>

\* acquire's last line and the request for the listings that follows it.
Request(p) ==
  LET s == poll[p].portal IN
  /\ UNCHANGED poolMax
  /\ limiter' = [limiter EXCEPT ![s] = 0]
  /\ since' = [since EXCEPT ![s] = 0]
  /\ asked' = asked \union {s}
  /\ poll' = [q \in Polls |->
       IF q = p THEN [poll[p] EXCEPT !.pc = "fetch", !.rules = <<>>, !.overtaken = FALSE]
       ELSE IF poll[q].pc = "wait" /\ poll[q].portal = s THEN [poll[q] EXCEPT !.overtaken = TRUE]
       ELSE poll[q]]

\* Mutant: nobody ever waits.
WaitTimeZero(s) == 0

\* The time acquire finds it has to wait.
WaitTime(s) == IF limiter[s] = Absent THEN 0 ELSE Interval(s) - limiter[s]

\* acquire: lastAt is read once, before the wait.
Acquire(p) ==
  /\ poll[p].pc = "acquire"
  /\ LET s == poll[p].portal IN
     IF WaitTime(s) = 0 THEN Request(p)
     ELSE /\ poll' = [poll EXCEPT ![p].pc = "wait", ![p].wait = WaitTime(s)]
          /\ UNCHANGED clockVars
  /\ UNCHANGED <<dataVars, inUse, faults>>

Resume(p) ==
  /\ poll[p].pc = "wait"
  /\ poll[p].wait = 0
  /\ Request(p)
  /\ UNCHANGED <<dataVars, inUse, faults>>

\* The answer: some listings, those that the schema rejects left out ...
FetchOk(p) ==
  /\ poll[p].pc = "fetch"
  /\ \E n \in 0..MaxBatch[poolMax] : poll' = [poll EXCEPT ![p].pc = "connect", ![p].left = n]
  /\ UNCHANGED <<clockVars, dataVars, inUse, faults>>

\* ... or an error or the 15 s timeout.
FetchFails(p) ==
  /\ poll[p].pc = "fetch"
  /\ Report(p, "failed")
  /\ UNCHANGED <<clockVars, dataVars, inUse, faults>>

-----------------------------------------------------------------------------
(* ingestListings. *)

BeginBatch(p) ==
  /\ poll[p].pc = "connect"
  /\ Free
  /\ inUse' = inUse + 1
  /\ Goto(p, "next")
  /\ UNCHANGED <<clockVars, dataVars, faults>>

NextListing(p, raw) ==
  /\ poll[p].pc = "next"
  /\ poll[p].left > 0
  /\ poll' = [poll EXCEPT ![p].pc = "upsert", ![p].left = @ - 1, ![p].cur = Normalize(raw)]
  /\ UNCHANGED <<clockVars, dataVars, inUse, faults>>

Key(p) == <<poll[p].portal, poll[p].cur.id>>
Holders(k) == {p \in Polls : k \in wrote[p]}

\* The upsert waits while another T1 holds the row.
Upsert(p) ==
  /\ poll[p].pc = "upsert"
  /\ Holders(Key(p)) \subseteq {p}
  /\ view' = [view EXCEPT ![p][Key(p)] =
       Merge(IF Key(p) \in wrote[p] THEN @ ELSE stored[Key(p)], ToStored(poll[p].cur))]
  /\ wrote' = [wrote EXCEPT ![p] = @ \union {Key(p)}]
  /\ poll' = [poll EXCEPT ![p].pc = "hook", ![p].cur = Absent]
  /\ UNCHANGED <<clockVars, stored, inUse, status, faults>>

\* evaluateTender takes a connection of its own while T1 keeps the first.
BeginEvaluation(p) ==
  /\ poll[p].pc = "hook"
  /\ Free
  /\ inUse' = inUse + 1
  /\ Goto(p, "evaluate")
  /\ UNCHANGED <<clockVars, dataVars, faults>>

EndEvaluation(p) ==
  /\ poll[p].pc = "evaluate"
  /\ inUse' = inUse - 1
  /\ Goto(p, "next")
  /\ UNCHANGED <<clockVars, dataVars, faults>>

\* Connections poll p has taken.
Held(p) == IF poll[p].pc \notin Batch THEN 0 ELSE IF poll[p].pc = "evaluate" THEN 2 ELSE 1

\* What every end of T1 does: release its connection and its locks.
EndBatch(p, outcome) ==
  /\ inUse' = inUse - Held(p)
  /\ view' = [view EXCEPT ![p] = NoRows]
  /\ wrote' = [wrote EXCEPT ![p] = {}]
  /\ Report(p, outcome)

Commit(p) ==
  /\ poll[p].pc = "next"
  /\ poll[p].left = 0
  /\ stored' = [k \in Keys |-> IF k \in wrote[p] THEN view[p][k] ELSE stored[k]]
  /\ EndBatch(p, "ok")
  /\ UNCHANGED <<clockVars, status, faults>>

Rollback(p) == EndBatch(p, "failed") /\ UNCHANGED <<clockVars, stored, status>>

\* The evaluation of a tender that only T1 knows breaks the batch when it matches.
Reject(p) ==
  /\ poll[p].pc = "evaluate"
  /\ \E k \in wrote[p] : stored[k] = NoRow
  /\ Rollback(p)
  /\ UNCHANGED faults

\* Mutant: the error is swallowed and the poll counted as a success.
StatementFailsSilently(p) ==
  /\ poll[p].pc \in Batch
  /\ faults < MaxFaults
  /\ faults' = faults + 1
  /\ EndBatch(p, "ok")
  /\ UNCHANGED <<clockVars, stored, status>>

\* Any other statement of T1 or T2 fails.
StatementFails(p) ==
  /\ poll[p].pc \in Batch
  /\ faults < MaxFaults
  /\ faults' = faults + 1
  /\ Rollback(p)

\* Mutant: connect() waits without a limit.
ConnectTimeoutNever(p) == FALSE /\ UNCHANGED radarVars

\* connectionTimeoutMillis: connect() rejects while the pool has no connection.
ConnectTimeout(p) ==
  /\ ~Free
  /\ \/ /\ poll[p].pc = "connect"
        /\ Report(p, "failed")
        /\ UNCHANGED <<stored, view, wrote, inUse, status>>
        /\ UNCHANGED clockVars
     \/ poll[p].pc = "hook" /\ Rollback(p)
  /\ UNCHANGED faults

WaitsFor(p, q) == poll[p].pc = "upsert" /\ p # q /\ Key(p) \in wrote[q]

\* PostgreSQL aborts one of the batches that wait for rows in a ring.
DeadlockAbort(p) ==
  /\ \E ring \in SUBSET Polls : p \in ring /\ \A q \in ring : \E r \in ring : WaitsFor(q, r)
  /\ Rollback(p)
  /\ UNCHANGED faults

-----------------------------------------------------------------------------
(* recordPortalPollResult, a transaction of its own. *)

Record(p) ==
  /\ poll[p].pc = "report"
  /\ Free
  /\ status' = [status EXCEPT ![poll[p].portal] = poll[p].outcome]
  /\ poll' = [poll EXCEPT ![p] = Idle]
  /\ UNCHANGED <<clockVars, stored, view, wrote, inUse, faults>>

\* The record of a success fails: pollPortal's catch records a failure, although
\* the batch has been committed.  That record's own failure is swallowed.
RecordFails(p) ==
  /\ poll[p].pc = "report"
  /\ \/ ~Free /\ UNCHANGED faults
     \/ faults < MaxFaults /\ faults' = faults + 1
  /\ IF poll[p].outcome = "ok" THEN Report(p, "failed") ELSE poll' = [poll EXCEPT ![p] = Idle]
  /\ UNCHANGED <<clockVars, dataVars, inUse>>

\* The process dies and starts again: the limiter's map is empty.
Crash ==
  /\ faults < MaxFaults
  /\ faults' = faults + 1
  /\ limiter' = [s \in Portals |-> Absent]
  /\ asked' = {}
  /\ poll' = [p \in Polls |-> Idle]
  /\ view' = [p \in Polls |-> NoRows]
  /\ wrote' = [p \in Polls |-> {}]
  /\ inUse' = 0
  /\ UNCHANGED <<poolMax, stored, status, since>>

-----------------------------------------------------------------------------
PollStep(p) ==
  \/ Acquire(p) \/ Resume(p) \/ FetchOk(p) \/ FetchFails(p)
  \/ BeginBatch(p) \/ (\E raw \in RawListings : NextListing(p, raw)) \/ Upsert(p)
  \/ BeginEvaluation(p) \/ EndEvaluation(p) \/ Reject(p) \/ Commit(p)
  \/ ConnectTimeout(p) \/ DeadlockAbort(p) \/ Record(p) \/ RecordFails(p)

RadarNext ==
  \/ Tick
  \/ \E p \in Polls : PollStep(p) \/ StatementFails(p)
  \/ \E p \in Polls, s \in Portals : StartPoll(p, s)
  \/ Crash

RadarSpec == RadarInit /\ [][RadarNext]_radarVars

\* Time passes, and every await of a poll settles: a fetch has its timeout,
\* connect() its own, PostgreSQL detects deadlocks and grants row locks in the
\* order in which they were asked for.
RadarFairSpec == RadarSpec /\ WF_radarVars(Tick)
                 /\ \A p \in Polls : WF_radarVars(PollStep(p)) /\ SF_radarVars(Upsert(p))

-----------------------------------------------------------------------------
(* Properties. *)

\* db/pool.ts: every connection that is taken belongs to a transaction that is
\* open, and the pool never exceeds its size, whichever way transactions end.
ConnectionsAccounted ==
  /\ inUse <= poolMax
  /\ inUse = Cardinality({c \in Polls \X (1..2) : c[2] <= Held(c[1])})

\* RT1: a listing comes back from its stored form as it was normalised.
RoundTrips == \A p \in Polls : poll[p].pc = "upsert" => FromStored(ToStored(poll[p].cur)) = poll[p].cur

\* REQ 3.5: a row's value is positive exactly when it is marked known, after any
\* sequence of complete and incomplete listings.
KnownIsPositive ==
  \A k \in Keys : stored[k].status = "known" <=> stored[k].value \in Nat \ {0}

\* aggregation.ts:22: a portal's batch is atomic.  The step in which a poll becomes
\* a success commits all it wrote, with no listing left, and no other step of any
\* poll, record or failure changes a tender.
BatchIsAtomic ==
  [][LET succeeds == {p \in Polls : poll'[p].outcome = "ok" /\ poll[p].outcome # "ok"} IN
     /\ \A p \in succeeds : poll[p].left = 0 /\ \A k \in wrote[p] : stored'[k] = view[p][k]
     /\ \A k \in Keys : stored'[k] # stored[k] => \E p \in succeeds : k \in wrote[p]]_radarVars

Requests(p) == poll[p].pc \in {"acquire", "wait"} /\ poll'[p].pc = "fetch"

\* REQ 4.2: two requests for the listings of a portal are an interval apart,
\* unless the second waited while the first was made (acquire reads lastAt before
\* it waits) or is the first one of the process.
Spaced ==
  [][\A p \in Polls : Requests(p) =>
       LET s == poll[p].portal IN
       since[s] = Interval(s) \/ poll[p].overtaken \/ s \notin asked]_radarVars

\* REQ 4.3: listings are requested only if every rule of the policy that
\* disallows their path is answered by one that allows it and is as specific.
ExclusionRespected ==
  [][\A p \in Polls : Requests(p) =>
       LET matching == {r \in ToSet(poll[p].rules) : r.prefix /\ r.len > 0} IN
       \A d \in matching : ~d.allow => \E a \in matching : a.allow /\ a.len >= d.len]_radarVars

\* REQ 17.2: every poll comes to an end, although batches wait for each other's
\* rows and connections: none waits for ever.
PollEnds == \A p \in Polls : poll[p].pc # "idle" ~> poll[p].pc = "idle"

\* The data has its types and survives normalising, storing and merging; the
\* connections add up.
DataIsSound == RadarTypeOK /\ ConnectionsAccounted /\ RoundTrips /\ KnownIsPositive
=============================================================================
