----------------------------- MODULE SmartMatch -----------------------------
(***************************************************************************)
(* Tender Radar ingestion, Smart Match evaluation and match maintenance.   *)
(*                                                                         *)
(* ingestListings runs a portal's whole batch in ONE transaction, here T1; *)
(* after each upsert its hook calls evaluateTender, which opens a SECOND   *)
(* transaction on another connection, T2, commits it and publishes to the  *)
(* dashboards, all while T1 is still open.  The match.maintenance job      *)
(* closes expired tenders, announces that and prunes matches, each in its  *)
(* own transaction.  Isolation is READ COMMITTED with row locks.           *)
(***************************************************************************)
EXTENDS Integers, FiniteSets

CONSTANTS Accounts,   \* accounts that have configured a match filter
          Tenders,    \* tender identities (source portal, source identifier)
          Regions,    \* canonical regions
          Unknown,    \* a field the listing left out
          Polls,      \* polls of the portal that may be in progress at once
          MaxBatch,   \* bound: listings of one batch
          MaxTime,    \* bound: the clock
          MaxFaults   \* bound: failed batches and crashes

ASSUME SmartMatchAssumption ==
  /\ Unknown \notin Regions /\ Unknown \notin Nat
  /\ MaxBatch \in Nat \ {0}
  /\ MaxTime \in Nat
  /\ MaxFaults \in Nat

Row == [stored : BOOLEAN, open : BOOLEAN,
        region : Regions \union {Unknown}, deadline : Nat \union {Unknown}]
Listing == [region : Regions \union {Unknown}, deadline : (0..MaxTime) \union {Unknown}]

VARIABLES now,        \* the clock
          filters,    \* the regions each account may match in
          tender,     \* committed tender rows
          match,      \* committed matches; the value stands for the score
          poll,       \* the polls
          view,       \* the tender rows as a poll's T1 has written them
          wrote,      \* the tender rows a T1 has written and holds locked
          maint,      \* the maintenance job
          announced,  \* match events pushed to dashboards
          told,       \* status events pushed to dashboards
          moved,      \* ghost: accounts whose filter has changed since T2 of a poll read it
          drifted,    \* ghost: matches whose filter has changed since their evaluation read it
          undone,     \* tenders some T1 had written when it was rolled back
          faults      \* failed batches and crashes so far

vars == <<now, filters, tender, match, poll, view, wrote, maint, announced, told, moved, drifted,
          undone, faults>>
failVars == <<undone, faults>>
pollVars == <<poll, view, wrote>>
driftVars == <<moved, drifted>>

NoRow == [stored |-> FALSE, open |-> TRUE, region |-> Unknown, deadline |-> Unknown]
IdlePoll == [pc |-> "idle", left |-> 0, cur |-> Unknown, hits |-> {}]
IdleMaint == [pc |-> "idle", closed |-> {}]

TypeOK ==
  /\ now \in 0..MaxTime
  /\ filters \in [Accounts -> SUBSET Regions]
  /\ tender \in [Tenders -> Row]
  /\ match \in [Accounts -> [Tenders -> Regions \union {Unknown}]]
  /\ poll \in [Polls -> [pc : {"idle", "next", "evaluate", "write", "publish"},
                         left : 0..MaxBatch, cur : Tenders \union {Unknown},
                         hits : SUBSET Accounts]]
  /\ view \in [Polls -> [Tenders -> Row]]
  /\ wrote \in [Polls -> SUBSET Tenders]
  /\ maint \in [pc : {"idle", "tell"}, closed : SUBSET Tenders]
  /\ announced \subseteq Accounts \X Tenders
  /\ told \subseteq Accounts \X Tenders
  /\ moved \in [Polls -> SUBSET Accounts]
  /\ drifted \subseteq Accounts \X Tenders
  /\ undone \subseteq Tenders
  /\ faults \in 0..MaxFaults

Init ==
  /\ now = 0
  /\ filters \in [Accounts -> SUBSET Regions]
  /\ tender = [t \in Tenders |-> NoRow]
  /\ match = [a \in Accounts |-> [t \in Tenders |-> Unknown]]
  /\ poll = [p \in Polls |-> IdlePoll]
  /\ view = [p \in Polls |-> tender]
  /\ wrote = [p \in Polls |-> {}]
  /\ maint = IdleMaint
  /\ announced = {}
  /\ told = {}
  /\ moved = [p \in Polls |-> {}]
  /\ drifted = {}
  /\ undone = {}
  /\ faults = 0

Tick ==
  /\ now < MaxTime
  /\ now' = now + 1
  /\ UNCHANGED <<filters, tender, match, pollVars, maint, announced, told, driftVars, failVars>>

\* configureFilters, or a tier change that moves the cap permittedRegions cuts
\* the list at: nothing re-evaluates the matches the account already has.
SetFilter(a, R) ==
  /\ R # filters[a]
  /\ filters' = [filters EXCEPT ![a] = R]
  /\ moved' = [p \in Polls |-> IF poll[p].pc = "write" THEN moved[p] \union {a} ELSE moved[p]]
  /\ drifted' = drifted \union ({a} \X {t \in Tenders : match[a][t] # Unknown})
  /\ UNCHANGED <<now, tender, match, pollVars, maint, announced, told, failVars>>

-----------------------------------------------------------------------------
(* A poll of the portal. *)

Holders(t) == {p \in Polls : t \in wrote[p]}
\* A row as transaction T1 of poll p sees it: its own write or what is committed.
Seen(p, t) == IF t \in wrote[p] THEN view[p][t] ELSE tender[t]

StartPoll(p) ==
  /\ poll[p].pc = "idle"
  /\ poll' = [poll EXCEPT ![p] = [IdlePoll EXCEPT !.pc = "next", !.left = MaxBatch]]
  /\ UNCHANGED <<now, filters, tender, match, view, wrote, maint, announced, told, driftVars, failVars>>

\* upsertTender: fields the listing leaves out keep their value, and the status
\* of a tender that exists is not touched, whatever its new deadline.
Merge(row, l) ==
  [stored |-> TRUE,
   open |-> row.open,
   region |-> IF l.region = Unknown THEN row.region ELSE l.region,
   deadline |-> IF l.deadline = Unknown THEN row.deadline ELSE l.deadline]

\* The upsert waits while another T1 holds the row.
Upsert(p, t, l) ==
  /\ poll[p].pc = "next"
  /\ poll[p].left > 0
  /\ Holders(t) \subseteq {p}
  /\ view' = [view EXCEPT ![p][t] = Merge(Seen(p, t), l)]
  /\ wrote' = [wrote EXCEPT ![p] = @ \union {t}]
  /\ poll' = [poll EXCEPT ![p].pc = "evaluate", ![p].left = @ - 1, ![p].cur = t]
  /\ UNCHANGED <<now, filters, tender, match, maint, announced, told, driftVars, failVars>>

Expired(row) == row.deadline # Unknown /\ row.deadline < now

\* evaluateMatch, as far as time and regions decide it.
Eligible(row, R) == row.open /\ ~Expired(row) /\ row.region \in R

\* evaluateTender, T2: read every account's filter and score the row that T1's
\* upsert returned ...
EvalRead(p) ==
  /\ poll[p].pc = "evaluate"
  /\ poll' = [poll EXCEPT ![p].pc = "write",
                          ![p].hits = {a \in Accounts : Eligible(view[p][poll[p].cur], filters[a])}]
  /\ UNCHANGED <<now, filters, tender, match, view, wrote, maint, announced, told, driftVars, failVars>>

\* For the ghosts: the matches poll p writes stand for the filters its T2 has read.
Evaluated(p) ==
  LET t == poll[p].cur IN
  /\ drifted' = (drifted \ (Accounts \X {t})) \union ((moved[p] \intersect poll[p].hits) \X {t})
  /\ moved' = [moved EXCEPT ![p] = {}]

\* Mutant: a match that stopped being eligible is left in place.
EvalWriteKeepingStale(p) ==
  LET t == poll[p].cur IN
  /\ poll[p].pc = "write"
  /\ poll[p].hits # {} => tender[t].stored
  /\ match' = [a \in Accounts |->
                 IF a \in poll[p].hits THEN [match[a] EXCEPT ![t] = view[p][t].region] ELSE match[a]]
  /\ poll' = [poll EXCEPT ![p].pc = "publish"]
  /\ Evaluated(p)
  /\ UNCHANGED <<now, filters, tender, view, wrote, maint, announced, told, failVars>>

\* ... then upsert the match of each eligible account and delete the others.
\* The foreign key sees committed tenders only.
EvalWrite(p) ==
  LET t == poll[p].cur IN
  /\ poll[p].pc = "write"
  /\ poll[p].hits # {} => tender[t].stored
  /\ match' = [a \in Accounts |->
                 [match[a] EXCEPT ![t] = IF a \in poll[p].hits THEN view[p][t].region ELSE Unknown]]
  /\ poll' = [poll EXCEPT ![p].pc = "publish"]
  /\ Evaluated(p)
  /\ UNCHANGED <<now, filters, tender, view, wrote, maint, announced, told, failVars>>

\* Mutant: the matches are published to nobody.
PublishNothing(p) ==
  /\ poll[p].pc = "publish"
  /\ poll' = [poll EXCEPT ![p].pc = "next", ![p].cur = Unknown, ![p].hits = {}]
  /\ UNCHANGED <<now, filters, tender, match, view, wrote, maint, announced, told, driftVars, failVars>>

\* onMatched after T2's commit: hub.publish to every account that matches.
Publish(p) ==
  /\ poll[p].pc = "publish"
  /\ announced' = announced \union (poll[p].hits \X {poll[p].cur})
  /\ poll' = [poll EXCEPT ![p].pc = "next", ![p].cur = Unknown, ![p].hits = {}]
  /\ UNCHANGED <<now, filters, tender, match, view, wrote, maint, told, driftVars, failVars>>

EndPoll(p) ==
  /\ moved' = [moved EXCEPT ![p] = {}]
  /\ poll' = [poll EXCEPT ![p] = IdlePoll]
  /\ view' = [view EXCEPT ![p] = [t \in Tenders |-> NoRow]]
  /\ wrote' = [wrote EXCEPT ![p] = {}]

\* COMMIT of T1 at the end of the batch.
CommitPoll(p) ==
  /\ poll[p].pc = "next"
  /\ tender' = [t \in Tenders |-> Seen(p, t)]
  /\ EndPoll(p)
  /\ UNCHANGED <<now, filters, match, maint, announced, told, drifted, failVars>>

\* The match of a tender that only T1 knows violates the foreign key: T2 and,
\* since the hook throws, T1 roll back and the poll is recorded as failed.
RejectPoll(p) ==
  /\ poll[p].pc = "write"
  /\ poll[p].hits # {}
  /\ ~tender[poll[p].cur].stored
  /\ undone' = undone \union wrote[p]
  /\ EndPoll(p)
  /\ UNCHANGED <<now, filters, tender, match, maint, announced, told, drifted, faults>>

\* Any other failure of the batch: a bad listing, a lost connection.
AbortPoll(p) ==
  /\ faults < MaxFaults
  /\ poll[p].pc # "idle"
  /\ faults' = faults + 1
  /\ undone' = undone \union wrote[p]
  /\ EndPoll(p)
  /\ UNCHANGED <<now, filters, tender, match, maint, announced, told, drifted>>

-----------------------------------------------------------------------------
(* The match.maintenance job. *)

\* Mutant: the UPDATE does not wait for the rows an ingest transaction holds.
MaintCloseUnlocked ==
  LET expired == {t \in Tenders : tender[t].stored /\ tender[t].open /\ Expired(tender[t])} IN
  /\ maint.pc = "idle"
  /\ tender' = [t \in Tenders |-> IF t \in expired THEN [tender[t] EXCEPT !.open = FALSE] ELSE tender[t]]
  /\ maint' = [pc |-> "tell", closed |-> expired]
  /\ UNCHANGED <<now, filters, match, pollVars, announced, told, driftVars, failVars>>

\* closeExpiredTenders: one UPDATE, which waits for rows that are locked.
MaintClose ==
  LET expired == {t \in Tenders : tender[t].stored /\ tender[t].open /\ Expired(tender[t])} IN
  /\ maint.pc = "idle"
  /\ \A t \in expired : Holders(t) = {}
  /\ tender' = [t \in Tenders |-> IF t \in expired THEN [tender[t] EXCEPT !.open = FALSE] ELSE tender[t]]
  /\ maint' = [pc |-> "tell", closed |-> expired]
  /\ UNCHANGED <<now, filters, match, pollVars, announced, told, driftVars, failVars>>

\* Read the accounts that match a closed tender and publish to them.
MaintTell(t) ==
  /\ t \in maint.closed
  /\ told' = told \union {<<a, t>> : a \in {b \in Accounts : match[b][t] # Unknown}}
  /\ maint' = [maint EXCEPT !.closed = @ \ {t}]
  /\ UNCHANGED <<now, filters, tender, match, pollVars, announced, driftVars, failVars>>

\* Mutant: only open tenders are pruned, although maintenance has just closed them.
PrunableOpenOnly(t) == tender[t].open /\ Expired(tender[t])
Prunable(t) == ~tender[t].open \/ Expired(tender[t])

\* pruneExpiredMatches.
MaintPrune ==
  /\ maint.pc = "tell"
  /\ maint.closed = {}
  /\ match' = [a \in Accounts |-> [t \in Tenders |-> IF Prunable(t) THEN Unknown ELSE match[a][t]]]
  /\ drifted' = {x \in drifted : ~Prunable(x[2])}
  /\ maint' = IdleMaint
  /\ UNCHANGED <<now, filters, tender, pollVars, announced, told, moved, failVars>>

\* The process dies: every open transaction rolls back.
Crash ==
  /\ faults < MaxFaults
  /\ faults' = faults + 1
  /\ undone' = undone \union UNION {wrote[p] : p \in Polls}
  /\ poll' = [p \in Polls |-> IdlePoll]
  /\ view' = [p \in Polls |-> [t \in Tenders |-> NoRow]]
  /\ wrote' = [p \in Polls |-> {}]
  /\ moved' = [p \in Polls |-> {}]
  /\ maint' = IdleMaint
  /\ UNCHANGED <<now, filters, tender, match, announced, told, drifted>>

-----------------------------------------------------------------------------
PollStep(p) ==
  EvalRead(p) \/ EvalWrite(p) \/ Publish(p) \/ CommitPoll(p) \/ RejectPoll(p)

MaintStep == MaintClose \/ (\E t \in Tenders : MaintTell(t)) \/ MaintPrune

Next ==
  \/ Tick
  \/ \E a \in Accounts, R \in SUBSET Regions : SetFilter(a, R)
  \/ \E p \in Polls : StartPoll(p) \/ PollStep(p) \/ AbortPoll(p)
  \/ \E p \in Polls, t \in Tenders, l \in Listing : Upsert(p, t, l)
  \/ MaintStep
  \/ Crash

Spec == Init /\ [][Next]_vars

\* A batch is finite and its steps go on; the queue keeps running maintenance,
\* whose UPDATE gets the row locks it waits for once the batches let go of them.
FairSpec == Spec /\ SF_vars(MaintClose) /\ WF_vars(MaintStep)
                 /\ \A p \in Polls : WF_vars(PollStep(p))

-----------------------------------------------------------------------------
(* Properties. *)

\* REQ 5.6: a tender that maintenance has closed gets no new match, although the
\* evaluation decides on a row read earlier and in another transaction.
NoMatchForClosed ==
  [][\A a \in Accounts, t \in Tenders :
       match[a][t] = Unknown /\ match'[a][t] # Unknown => tender[t].open]_vars

\* No match refers to a tender that is not committed (ID1, the foreign key): a
\* rolled back batch leaves no match without its tender behind.
MatchHasTender ==
  \A a \in Accounts, t \in Tenders : match[a][t] # Unknown => tender[t].stored

\* A match stems from tender data the database has, and so agrees with it once
\* no batch holds the tender, unless a batch that held it was rolled back: that
\* is the only gap T2's own commit leaves in "a portal's batch is atomic"
\* (aggregation.ts:22).
MatchAgreesWithTender ==
  \A a \in Accounts, t \in Tenders :
    match[a][t] # Unknown /\ Holders(t) = {} /\ t \notin undone =>
      match[a][t] = tender[t].region

\* A match stands for a filter its account had when the tender was last
\* evaluated: filters that change meanwhile, or another poll's evaluation of the
\* tender, make it deviate no further.  (Nothing re-evaluates a match when the
\* filter changes, match/service.ts:52.)
MatchAgreesWithFilter ==
  \A a \in Accounts, t \in Tenders :
    match[a][t] # Unknown /\ <<a, t>> \notin drifted => match[a][t] \in filters[a]

\* REQ 5.6: the match of an expired tender eventually goes away, unless a later
\* listing extends the deadline of the tender in time.
ExpiredIsPruned ==
  \A a \in Accounts, t \in Tenders :
    (tender[t].stored /\ Expired(tender[t]) /\ match[a][t] # Unknown)
      ~> (match[a][t] = Unknown \/ ~Expired(tender[t]))

\* REQ 11.1: a match that is stored is eventually pushed to the dashboards, unless
\* the batch it came from was rolled back before it was.
MatchIsAnnounced ==
  \A a \in Accounts, t \in Tenders :
    match[a][t] # Unknown ~> <<a, t>> \in announced \/ t \in undone

\* The rows have their types, and every match has its reasons: a tender there
\* is, the data of that tender, a filter of the account.
MatchesAreFounded == TypeOK /\ MatchHasTender /\ MatchAgreesWithTender /\ MatchAgreesWithFilter
=============================================================================
