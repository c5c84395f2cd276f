-------------------------- MODULE SmartMatchProofs --------------------------
(***************************************************************************)
(* Proofs about SmartMatch, for any numbers of accounts, tenders, regions, *)
(* concurrent polls and listings of a batch, and any bound on the faults:  *)
(* every match has its reasons, and a closed tender gets no new match.     *)
(*                                                                         *)
(* The ingest transaction T1 of a poll holds the rows it wrote, and T2     *)
(* commits matches of those rows while T1 may still roll back.  So the     *)
(* invariant relates a match to the row its holder is going to commit, as  *)
(* long as there is a holder, and to the committed row otherwise.          *)
(***************************************************************************)
EXTENDS SmartMatch, TLAPS

-----------------------------------------------------------------------------
(* The inductive invariant. *)

\* A row is held by one T1 at most.
RowsApart ==
  \A p, q \in Polls : p # q => wrote[p] \intersect wrote[q] = {}

\* The row poll p is working on is one its T1 holds; an idle poll holds none.
\* Maintenance cannot close a row that is held, so T1's copy of it is open
\* exactly if the committed row is.
PollHolds(p) ==
  /\ poll[p].pc = "idle" => wrote[p] = {}
  /\ poll[p].pc \in {"evaluate", "write", "publish"} => poll[p].cur \in wrote[p]
  /\ \A t \in wrote[p] : view[p][t].stored /\ (view[p][t].open <=> tender[t].open)

\* What T2 is about to write was eligible when it read the filters.
HitsEligible(p) ==
  poll[p].pc = "write" =>
    \A a \in poll[p].hits :
      /\ view[p][poll[p].cur].open
      /\ a \in moved[p] \/ view[p][poll[p].cur].region \in filters[a]

\* Poll p has yet to write the matches of tender t.
Deciding(p, t) == poll[p].pc \in {"evaluate", "write"} /\ poll[p].cur = t

\* The matches of a tender T1 of poll p holds agree with the row it will commit.
HeldAgrees(p) ==
  \A a \in Accounts, t \in wrote[p] :
    match[a][t] # Unknown /\ t \notin undone /\ ~Deciding(p, t) =>
      match[a][t] = view[p][t].region

IInv ==
  /\ MatchesAreFounded
  /\ RowsApart
  /\ \A p \in Polls : PollHolds(p) /\ HitsEligible(p) /\ HeldAgrees(p)

-----------------------------------------------------------------------------
(* Types. *)

Phases == {"idle", "next", "evaluate", "write", "publish"}
PollRecord == [pc : Phases, left : 0..MaxBatch, cur : Tenders \union {Unknown}, hits : SUBSET Accounts]
AnyRegion == Regions \union {Unknown}

LEMMA BlankTypes == NoRow \in Row /\ IdlePoll \in PollRecord /\ ~NoRow.stored /\ NoRow.open
BY SmartMatchAssumption DEF SmartMatchAssumption, NoRow, Row, IdlePoll, PollRecord, Phases

LEMMA RecordTypes ==
  ASSUME TypeOK, NEW p \in Polls
  PROVE  poll[p] \in PollRecord /\ view[p] \in [Tenders -> Row] /\ wrote[p] \subseteq Tenders
BY DEF TypeOK, PollRecord, Phases

LEMMA PollUpdate ==
  ASSUME TypeOK, NEW p \in Polls, NEW r \in PollRecord, poll' = [poll EXCEPT ![p] = r]
  PROVE  poll' \in [Polls -> PollRecord] /\ poll'[p] = r /\ \A q \in Polls \ {p} : poll'[q] = poll[q]
BY DEF TypeOK, PollRecord, Phases

LEMMA SeenType ==
  ASSUME TypeOK, NEW p \in Polls, NEW t \in Tenders
  PROVE  Seen(p, t) \in Row
BY DEF TypeOK, Seen

LEMMA MergeType ==
  ASSUME NEW row \in Row, NEW l \in Listing
  PROVE  Merge(row, l) \in Row /\ Merge(row, l).stored /\ (Merge(row, l).open <=> row.open)
BY SmartMatchAssumption DEF SmartMatchAssumption, Merge, Row, Listing

\* The tender in hand is one of the tenders.
LEMMA InHand ==
  ASSUME TypeOK, NEW p \in Polls, PollHolds(p), poll[p].pc \in {"evaluate", "write", "publish"}
  PROVE  poll[p].cur \in wrote[p] /\ poll[p].cur \in Tenders
BY RecordTypes DEF PollHolds

LEMMA EndPollTypes ==
  ASSUME TypeOK, NEW p \in Polls, EndPoll(p)
  PROVE  /\ moved' \in [Polls -> SUBSET Accounts]
         /\ poll' \in [Polls -> PollRecord]
         /\ view' \in [Polls -> [Tenders -> Row]]
         /\ wrote' \in [Polls -> SUBSET Tenders]
BY BlankTypes DEF TypeOK, EndPoll, PollRecord, Phases

LEMMA PollTypes ==
  ASSUME TypeOK, NEW p \in Polls, PollHolds(p), StartPoll(p) \/ PollStep(p) \/ AbortPoll(p)
  PROVE  TypeOK'
<1> USE DEF pollVars, driftVars, failVars
<1>1. CASE StartPoll(p)
  <2>1. poll' \in [Polls -> PollRecord]
    <3> DEFINE r == [IdlePoll EXCEPT !.pc = "next", !.left = MaxBatch]
    <3>1. MaxBatch \in 0..MaxBatch
      BY SmartMatchAssumption DEF SmartMatchAssumption
    <3>2. r \in PollRecord
      BY <3>1, BlankTypes DEF PollRecord, Phases
    <3>3. poll' = [poll EXCEPT ![p] = r]
      BY <1>1 DEF StartPoll
    <3> HIDE DEF r
    <3> QED BY <3>2, <3>3, PollUpdate
  <2> QED BY <1>1, <2>1 DEF StartPoll, TypeOK, PollRecord, Phases
<1>2. CASE EvalRead(p)
  <2>1. poll' \in [Polls -> PollRecord]
    <3> DEFINE H == {a \in Accounts : Eligible(view[p][poll[p].cur], filters[a])}
    <3> DEFINE r == [poll[p] EXCEPT !.pc = "write", !.hits = H]
    <3>0. H \in SUBSET Accounts
      OBVIOUS
    <3>1. r \in PollRecord
      <4> HIDE DEF H
      <4> QED BY <3>0, RecordTypes DEF PollRecord, Phases
    <3>2. poll' = [poll EXCEPT ![p] = r]
      BY <1>2 DEF EvalRead, TypeOK
    <3> HIDE DEF r
    <3> QED BY <3>1, <3>2, PollUpdate
  <2> QED BY <1>2, <2>1 DEF EvalRead, TypeOK, PollRecord, Phases
<1>3. CASE EvalWrite(p)
  <2> DEFINE t == poll[p].cur
  <2>1. t \in Tenders /\ view[p][t].region \in AnyRegion
    BY <1>3, InHand, RecordTypes DEF EvalWrite, Row, AnyRegion
  <2>2. match' \in [Accounts -> [Tenders -> AnyRegion]]
    BY <1>3, <2>1 DEF EvalWrite, TypeOK, AnyRegion
  <2>3. poll' \in [Polls -> PollRecord]
    <3> DEFINE r == [poll[p] EXCEPT !.pc = "publish"]
    <3>1. r \in PollRecord
      BY RecordTypes DEF PollRecord, Phases
    <3>2. poll' = [poll EXCEPT ![p] = r]
      BY <1>3 DEF EvalWrite, TypeOK
    <3> HIDE DEF r
    <3> QED BY <3>1, <3>2, PollUpdate
  <2>4. moved' \in [Polls -> SUBSET Accounts] /\ drifted' \subseteq Accounts \X Tenders
    BY <1>3, <2>1 DEF EvalWrite, Evaluated, TypeOK
  <2> QED BY <1>3, <2>2, <2>3, <2>4 DEF EvalWrite, TypeOK, PollRecord, Phases, AnyRegion
<1>4. CASE Publish(p)
  <2>1. poll[p].cur \in Tenders /\ poll[p].hits \subseteq Accounts
    BY <1>4, InHand, RecordTypes DEF Publish, PollRecord, Phases
  <2>2. announced' \subseteq Accounts \X Tenders
    BY <1>4, <2>1 DEF Publish, TypeOK
  <2>3. poll' \in [Polls -> PollRecord]
    <3> DEFINE r == [poll[p] EXCEPT !.pc = "next", !.cur = Unknown, !.hits = {}]
    <3>1. r \in PollRecord
      BY RecordTypes DEF PollRecord, Phases
    <3>2. poll' = [poll EXCEPT ![p] = r]
      BY <1>4 DEF Publish, TypeOK
    <3> HIDE DEF r
    <3> QED BY <3>1, <3>2, PollUpdate
  <2> QED BY <1>4, <2>2, <2>3 DEF Publish, TypeOK, PollRecord, Phases
<1>5. CASE CommitPoll(p)
  <2>1. tender' \in [Tenders -> Row]
    BY <1>5, SeenType DEF CommitPoll
  <2> QED BY <1>5, <2>1, EndPollTypes DEF CommitPoll, TypeOK, PollRecord, Phases
<1>6. CASE RejectPoll(p)
  BY <1>6, EndPollTypes, RecordTypes DEF RejectPoll, TypeOK, PollRecord, Phases
<1>7. CASE AbortPoll(p)
  <2>1. faults' \in 0..MaxFaults
    BY <1>7, SmartMatchAssumption DEF AbortPoll, TypeOK, SmartMatchAssumption
  <2> QED BY <1>7, <2>1, EndPollTypes, RecordTypes DEF AbortPoll, TypeOK, PollRecord, Phases
<1> QED BY <1>1, <1>2, <1>3, <1>4, <1>5, <1>6, <1>7 DEF PollStep

LEMMA UpsertTypes ==
  ASSUME TypeOK, NEW p \in Polls, NEW t \in Tenders, NEW l \in Listing, Upsert(p, t, l)
  PROVE  TypeOK'
<1> USE DEF pollVars, driftVars, failVars
<1>1. Merge(Seen(p, t), l) \in Row
  BY SeenType, MergeType
<1>2. view' \in [Polls -> [Tenders -> Row]]
  BY <1>1 DEF Upsert, TypeOK
<1>3. wrote' \in [Polls -> SUBSET Tenders]
  BY DEF Upsert, TypeOK
<1>4. poll[p].left - 1 \in 0..MaxBatch
  BY RecordTypes, SmartMatchAssumption DEF Upsert, PollRecord, SmartMatchAssumption
<1>5. poll' \in [Polls -> PollRecord]
  <2> DEFINE r == [poll[p] EXCEPT !.pc = "evaluate", !.left = poll[p].left - 1, !.cur = t]
  <2>1. r \in PollRecord
    BY <1>4, RecordTypes DEF PollRecord, Phases
  <2>2. poll' = [poll EXCEPT ![p] = r]
    BY DEF Upsert, TypeOK
  <2> HIDE DEF r
  <2> QED BY <2>1, <2>2, PollUpdate
<1> QED BY <1>2, <1>3, <1>5 DEF Upsert, TypeOK, PollRecord, Phases

LEMMA OtherTypes ==
  ASSUME TypeOK,
         \/ Tick \/ MaintStep \/ Crash \/ UNCHANGED vars
         \/ \E a \in Accounts, R \in SUBSET Regions : SetFilter(a, R)
  PROVE  TypeOK'
<1> USE DEF pollVars, driftVars, failVars
<1>1. CASE Tick
  BY <1>1, SmartMatchAssumption DEF Tick, TypeOK, SmartMatchAssumption
<1>2. ASSUME NEW a \in Accounts, NEW R \in SUBSET Regions, SetFilter(a, R) PROVE TypeOK'
  BY <1>2 DEF SetFilter, TypeOK
<1>3. CASE MaintClose
  <2>1. ASSUME NEW t \in Tenders PROVE [tender[t] EXCEPT !.open = FALSE] \in Row
    <3>1. tender[t] \in Row
      BY DEF TypeOK
    <3> QED BY <3>1 DEF Row
  <2>2. tender' \in [Tenders -> Row]
    BY <1>3, <2>1 DEF MaintClose, TypeOK
  <2> QED BY <1>3, <2>2 DEF MaintClose, TypeOK
<1>4. ASSUME NEW t \in Tenders, MaintTell(t) PROVE TypeOK'
  BY <1>4 DEF MaintTell, TypeOK
<1>5. CASE MaintPrune
  BY <1>5 DEF MaintPrune, TypeOK, IdleMaint
<1>6. CASE Crash
  <2>1. poll' \in [Polls -> PollRecord] /\ view' \in [Polls -> [Tenders -> Row]]
    BY <1>6, BlankTypes DEF Crash
  <2>2. faults' \in 0..MaxFaults
    BY <1>6, SmartMatchAssumption DEF Crash, TypeOK, SmartMatchAssumption
  <2>3. undone' \subseteq Tenders
    BY <1>6 DEF Crash, TypeOK
  <2>4. wrote' \in [Polls -> SUBSET Tenders] /\ moved' \in [Polls -> SUBSET Accounts]
    BY <1>6 DEF Crash
  <2> QED BY <1>6, <2>1, <2>2, <2>3, <2>4 DEF Crash, TypeOK, PollRecord, Phases, IdleMaint
<1>7. CASE UNCHANGED vars
  BY <1>7 DEF vars, TypeOK
<1> QED BY <1>1, <1>2, <1>3, <1>4, <1>5, <1>6, <1>7 DEF MaintStep

-----------------------------------------------------------------------------
(* What a step leaves of a poll it is not about. *)

PollFits(p) == PollHolds(p) /\ HitsEligible(p) /\ HeldAgrees(p)

LEMMA Undisturbed ==
  ASSUME NEW q \in Polls, PollFits(q), wrote[q] \subseteq Tenders,
         poll'[q] = poll[q], view'[q] = view[q], wrote'[q] = wrote[q], moved[q] \subseteq moved'[q],
         \A a \in Accounts : filters'[a] = filters[a] \/ (poll[q].pc = "write" => a \in moved'[q]),
         \A t \in wrote[q] : tender'[t].open <=> tender[t].open,
         \A a \in Accounts, t \in wrote[q] : match'[a][t] \in {match[a][t], Unknown},
         undone \subseteq undone', poll[q].hits \subseteq Accounts
  PROVE  PollFits(q)'
<1>1. PollHolds(q)'
  BY DEF PollFits, PollHolds
<1>2. HitsEligible(q)'
  BY DEF PollFits, HitsEligible
<1>3. HeldAgrees(q)'
  BY DEF PollFits, HeldAgrees, Deciding
<1> QED BY <1>1, <1>2, <1>3 DEF PollFits

\* The facts of the invariant, for the steps that need one of them at a time.
LEMMA Facts ==
  ASSUME IInv
  PROVE  /\ TypeOK /\ MatchHasTender /\ MatchAgreesWithTender /\ MatchAgreesWithFilter
         /\ RowsApart /\ \A p \in Polls : PollFits(p)
         /\ \A p \in Polls : PollHolds(p) /\ HitsEligible(p) /\ HeldAgrees(p)
         /\ \A p \in Polls : wrote[p] \subseteq Tenders /\ poll[p].hits \subseteq Accounts
BY RecordTypes DEF IInv, MatchesAreFounded, PollFits, PollRecord

-----------------------------------------------------------------------------
(* The end of a batch. *)

LEMMA EndPollKeeps ==
  ASSUME TypeOK, NEW p \in Polls, EndPoll(p)
  PROVE  /\ poll'[p].pc = "idle" /\ wrote'[p] = {} /\ moved'[p] = {}
         /\ \A q \in Polls \ {p} : /\ poll'[q] = poll[q] /\ view'[q] = view[q]
                                   /\ wrote'[q] = wrote[q] /\ moved'[q] = moved[q]
BY DEF TypeOK, EndPoll, IdlePoll

LEMMA EndPollFits ==
  ASSUME IInv, NEW p \in Polls, EndPoll(p), filters' = filters, match' = match, undone \subseteq undone',
         \A q \in Polls \ {p} : \A t \in wrote[q] : tender'[t] = tender[t]
  PROVE  RowsApart' /\ \A q \in Polls : PollFits(q)'
<1>1. RowsApart'
  BY Facts, EndPollKeeps DEF RowsApart
<1>2. PollFits(p)'
  BY Facts, EndPollKeeps DEF PollFits, PollHolds, HitsEligible, HeldAgrees
<1>3. ASSUME NEW q \in Polls \ {p} PROVE PollFits(q)'
  BY <1>3, Facts, EndPollKeeps, Undisturbed
<1> QED BY <1>1, <1>2, <1>3

LEMMA CommitPollStep ==
  ASSUME IInv, NEW p \in Polls, CommitPoll(p)
  PROVE  IInv'
<1> USE DEF CommitPoll, failVars
<1>1. TypeOK'
  BY Facts, PollTypes DEF PollStep
<1>2. \A t \in Tenders : tender'[t] = Seen(p, t)
  BY DEF CommitPoll
<1>3. \A q \in Polls \ {p} : \A t \in wrote[q] : t \notin wrote[p] /\ t \in Tenders
  BY Facts DEF RowsApart
<1>4. RowsApart' /\ \A q \in Polls : PollFits(q)'
  BY <1>2, <1>3, Facts, EndPollFits DEF Seen
<1>5. MatchHasTender'
  BY <1>2, Facts DEF MatchHasTender, Seen, PollHolds
<1>6. MatchAgreesWithTender'
  <2> SUFFICES ASSUME NEW a \in Accounts, NEW t \in Tenders, match'[a][t] # Unknown,
                      Holders(t)' = {}, t \notin undone'
               PROVE  match'[a][t] = tender'[t].region
    BY DEF MatchAgreesWithTender
  <2>1. CASE t \in wrote[p]
    BY <2>1, <1>2, Facts DEF HeldAgrees, Deciding, Seen
  <2>2. CASE t \notin wrote[p]
    <3>1. Holders(t) = {}
      BY <2>2, Facts, EndPollKeeps DEF Holders
    <3> QED BY <3>1, <2>2, <1>2, Facts DEF MatchAgreesWithTender, Seen
  <2> QED BY <2>1, <2>2
<1>7. MatchAgreesWithFilter'
  BY Facts DEF MatchAgreesWithFilter
<1> QED BY <1>1, <1>4, <1>5, <1>6, <1>7 DEF IInv, MatchesAreFounded, PollFits

\* A batch that is rolled back puts the tenders it held among the undone.
LEMMA RollbackStep ==
  ASSUME IInv, NEW p \in Polls, RejectPoll(p) \/ AbortPoll(p)
  PROVE  IInv'
<1>0. /\ EndPoll(p) /\ undone' = undone \union wrote[p]
      /\ UNCHANGED <<filters, tender, match, drifted>>
  BY DEF RejectPoll, AbortPoll
<1>1. TypeOK'
  BY Facts, PollTypes DEF PollStep
<1>2. RowsApart' /\ \A q \in Polls : PollFits(q)'
  BY <1>0, Facts, EndPollFits
<1>3. MatchHasTender' /\ MatchAgreesWithFilter'
  BY <1>0, Facts DEF MatchHasTender, MatchAgreesWithFilter
<1>4. MatchAgreesWithTender'
  <2> SUFFICES ASSUME NEW a \in Accounts, NEW t \in Tenders, match'[a][t] # Unknown,
                      Holders(t)' = {}, t \notin undone'
               PROVE  match'[a][t] = tender'[t].region
    BY DEF MatchAgreesWithTender
  <2>1. Holders(t) = {}
    BY <1>0, Facts, EndPollKeeps DEF Holders
  <2> QED BY <2>1, <1>0, Facts DEF MatchAgreesWithTender
<1> QED BY <1>1, <1>2, <1>3, <1>4 DEF IInv, MatchesAreFounded, PollFits

LEMMA CrashStep ==
  ASSUME IInv, Crash
  PROVE  IInv'
<1> USE DEF Crash
<1>1. TypeOK'
  BY Facts, OtherTypes
<1>2. \A p \in Polls : poll'[p].pc = "idle" /\ wrote'[p] = {}
  BY DEF IdlePoll
<1>3. RowsApart' /\ \A p \in Polls : PollFits(p)'
  BY <1>2 DEF RowsApart, PollFits, PollHolds, HitsEligible, HeldAgrees
<1>4. MatchHasTender' /\ MatchAgreesWithFilter'
  BY Facts DEF MatchHasTender, MatchAgreesWithFilter
<1>5. MatchAgreesWithTender'
  <2> SUFFICES ASSUME NEW a \in Accounts, NEW t \in Tenders, match'[a][t] # Unknown, t \notin undone'
               PROVE  match'[a][t] = tender'[t].region
    BY DEF MatchAgreesWithTender
  <2>1. Holders(t) = {} /\ t \notin undone
    BY DEF Holders
  <2> QED BY <2>1, Facts DEF MatchAgreesWithTender
<1> QED BY <1>1, <1>3, <1>4, <1>5 DEF IInv, MatchesAreFounded, PollFits

-----------------------------------------------------------------------------
(* The steps of a batch. *)

\* A step that moves the record of poll p and leaves the rows alone.
LEMMA PollMoves ==
  ASSUME IInv, NEW p \in Polls, NEW r, poll' = [poll EXCEPT ![p] = r],
         UNCHANGED <<filters, tender, view, wrote, undone>>,
         \A q \in Polls \ {p} : moved'[q] = moved[q],
         \A q \in Polls \ {p} : \A a \in Accounts, t \in wrote[q] : match'[a][t] = match[a][t],
         PollFits(p)'
  PROVE  RowsApart' /\ \A q \in Polls : PollFits(q)'
<1>1. RowsApart'
  BY Facts DEF RowsApart
<1>2. \A q \in Polls \ {p} : poll'[q] = poll[q]
  BY Facts DEF TypeOK
<1>3. ASSUME NEW q \in Polls \ {p} PROVE PollFits(q)'
  BY <1>2, <1>3, Facts, Undisturbed
<1> QED BY <1>1, <1>3

\* A step that does not touch the matches, nor the rows they are measured against.
LEMMA MatchesKept ==
  ASSUME IInv, UNCHANGED <<filters, tender, match, wrote, undone, drifted>>
  PROVE  MatchHasTender' /\ MatchAgreesWithTender' /\ MatchAgreesWithFilter'
BY Facts DEF MatchHasTender, MatchAgreesWithTender, MatchAgreesWithFilter, Holders

LEMMA StartPollStep ==
  ASSUME IInv, NEW p \in Polls, StartPoll(p)
  PROVE  IInv'
<1> USE DEF StartPoll, driftVars, failVars
<1>1. TypeOK'
  BY Facts, PollTypes
<1>2. poll'[p].pc = "next"
  BY Facts DEF TypeOK, IdlePoll
<1>3. PollFits(p)'
  BY <1>2, Facts DEF PollFits, PollHolds, HitsEligible, HeldAgrees, Deciding
<1>4. RowsApart' /\ \A q \in Polls : PollFits(q)'
  BY <1>3, PollMoves
<1> QED BY <1>1, <1>4, MatchesKept DEF IInv, MatchesAreFounded, PollFits

LEMMA EvalReadStep ==
  ASSUME IInv, NEW p \in Polls, EvalRead(p)
  PROVE  IInv'
<1> USE DEF EvalRead, driftVars, failVars
<1>1. TypeOK'
  BY Facts, PollTypes DEF PollStep
<1> DEFINE t == poll[p].cur
<1> DEFINE H == {a \in Accounts : Eligible(view[p][t], filters[a])}
<1>2. poll' = [poll EXCEPT ![p] = [poll[p] EXCEPT !.pc = "write", !.hits = H]]
  BY Facts DEF TypeOK
<1>3. poll'[p].pc = "write" /\ poll'[p].cur = t /\ poll'[p].hits = H
  <2> HIDE DEF H
  <2> QED BY <1>2, Facts DEF TypeOK
<1> HIDE DEF H
<1>4. PollHolds(p)' /\ HeldAgrees(p)'
  <2>1. PollHolds(p)'
    BY <1>3, Facts DEF PollHolds
  <2>2. HeldAgrees(p)'
    BY <1>3, Facts DEF HeldAgrees, Deciding
  <2> QED BY <2>1, <2>2
<1>5. HitsEligible(p)'
  BY <1>3 DEF HitsEligible, Eligible, H
<1>6. RowsApart' /\ \A q \in Polls : PollFits(q)'
  BY <1>2, <1>4, <1>5, PollMoves DEF PollFits
<1> QED BY <1>1, <1>6, MatchesKept DEF IInv, MatchesAreFounded, PollFits

LEMMA PublishStep ==
  ASSUME IInv, NEW p \in Polls, Publish(p)
  PROVE  IInv'
<1> USE DEF Publish, driftVars, failVars
<1>1. TypeOK'
  BY Facts, PollTypes DEF PollStep
<1>2. poll' = [poll EXCEPT ![p] = [poll[p] EXCEPT !.pc = "next", !.cur = Unknown, !.hits = {}]]
  BY Facts DEF TypeOK
<1>3. poll'[p].pc = "next"
  BY <1>2, Facts DEF TypeOK
<1>4. PollFits(p)'
  BY <1>3, Facts DEF PollFits, PollHolds, HitsEligible, HeldAgrees, Deciding
<1>5. RowsApart' /\ \A q \in Polls : PollFits(q)'
  BY <1>2, <1>4, PollMoves
<1> QED BY <1>1, <1>5, MatchesKept DEF IInv, MatchesAreFounded, PollFits

\* The upsert copies whether the row is open from the row it finds, and waits for
\* the row as long as another T1 holds it.
LEMMA UpsertStep ==
  ASSUME IInv, NEW p \in Polls, NEW t \in Tenders, NEW l \in Listing, Upsert(p, t, l)
  PROVE  IInv'
<1> USE DEF Upsert, driftVars, failVars
<1> DEFINE row == Merge(Seen(p, t), l)
<1>1. TypeOK'
  BY Facts, UpsertTypes
<1>2. row.stored /\ (row.open <=> tender[t].open)
  BY Facts, SeenType, MergeType DEF Seen, PollHolds
<1>3. /\ poll'[p].pc = "evaluate" /\ poll'[p].cur = t
      /\ \A q \in Polls \ {p} : poll'[q] = poll[q]
  BY Facts DEF TypeOK
<1>4. /\ wrote'[p] = wrote[p] \union {t}
      /\ \A q \in Polls \ {p} : wrote'[q] = wrote[q] /\ t \notin wrote[q]
  BY Facts DEF TypeOK, Holders
<1>5. /\ view'[p][t] = row
      /\ \A u \in Tenders \ {t} : view'[p][u] = view[p][u]
      /\ \A q \in Polls \ {p} : view'[q] = view[q]
  BY Facts DEF TypeOK
<1> HIDE DEF row
<1>6. RowsApart'
  BY <1>4, Facts DEF RowsApart
<1>7. PollHolds(p)'
  BY <1>2, <1>3, <1>4, <1>5, Facts DEF PollHolds
<1>8. HitsEligible(p)'
  BY <1>3 DEF HitsEligible
<1>9. HeldAgrees(p)'
  BY <1>3, <1>4, <1>5, Facts DEF HeldAgrees, Deciding
<1>10. ASSUME NEW q \in Polls \ {p} PROVE PollFits(q)'
  BY <1>3, <1>4, <1>5, <1>10, Facts, Undisturbed
<1>11. MatchHasTender' /\ MatchAgreesWithFilter'
  BY Facts DEF MatchHasTender, MatchAgreesWithFilter
<1>12. \A u \in Tenders : Holders(u)' = {} => Holders(u) = {}
  BY <1>4 DEF Holders
<1>13. MatchAgreesWithTender'
  BY <1>12, Facts DEF MatchAgreesWithTender
<1> QED BY <1>1, <1>6, <1>7, <1>8, <1>9, <1>10, <1>11, <1>13 DEF IInv, MatchesAreFounded, PollFits

\* T2 writes what it decided: an account it found eligible gets the region of the
\* row T1 has written, the others lose their match.
LEMMA Written ==
  ASSUME IInv, NEW p \in Polls, EvalWrite(p), NEW a \in Accounts
  PROVE  /\ match'[a][poll[p].cur] =
              IF a \in poll[p].hits THEN view[p][poll[p].cur].region ELSE Unknown
         /\ \A u \in Tenders \ {poll[p].cur} : match'[a][u] = match[a][u]
<1>1. poll[p].cur \in Tenders
  BY Facts, InHand DEF EvalWrite
<1> QED BY <1>1, Facts DEF EvalWrite, TypeOK

LEMMA EvalWriteStep ==
  ASSUME IInv, NEW p \in Polls, EvalWrite(p)
  PROVE  IInv'
<1> USE DEF failVars
<1> DEFINE t == poll[p].cur
<1>1. TypeOK'
  BY Facts, PollTypes DEF PollStep
<1>2. t \in wrote[p] /\ t \in Tenders /\ poll[p].pc = "write"
  BY Facts, InHand DEF EvalWrite
<1>3. /\ \A a \in poll[p].hits : match'[a][t] = view[p][t].region
      /\ \A a \in Accounts \ poll[p].hits : match'[a][t] = Unknown
      /\ \A a \in Accounts, u \in Tenders \ {t} : match'[a][u] = match[a][u]
  BY Written, Facts
<1>4. /\ UNCHANGED <<filters, tender, view, wrote, undone>>
      /\ poll[p].hits # {} => tender[t].stored
  BY DEF EvalWrite
<1>5. poll' = [poll EXCEPT ![p] = [poll[p] EXCEPT !.pc = "publish"]]
  BY Facts DEF EvalWrite, TypeOK
<1>6. poll'[p].pc = "publish" /\ poll'[p].cur = t
  BY <1>5, Facts DEF TypeOK
<1>7. /\ \A q \in Polls \ {p} : moved'[q] = moved[q]
      /\ drifted' = (drifted \ (Accounts \X {t})) \union ((moved[p] \intersect poll[p].hits) \X {t})
  BY Facts DEF EvalWrite, Evaluated, TypeOK
<1>8. PollFits(p)'
  <2>1. PollHolds(p)' /\ HitsEligible(p)'
    BY <1>2, <1>4, <1>6, Facts DEF PollHolds, HitsEligible
  <2>2. HeldAgrees(p)'
    BY <1>2, <1>3, <1>4, Facts DEF HeldAgrees, Deciding
  <2> QED BY <2>1, <2>2 DEF PollFits
<1>9. RowsApart' /\ \A q \in Polls : PollFits(q)'
  <2>1. \A q \in Polls \ {p} : \A u \in wrote[q] : u \in Tenders \ {t}
    BY <1>2, Facts DEF RowsApart
  <2> QED BY <2>1, <1>3, <1>4, <1>5, <1>7, <1>8, PollMoves
<1>10. MatchHasTender'
  BY <1>3, <1>4, Facts DEF MatchHasTender
<1>11. MatchAgreesWithTender'
  BY <1>2, <1>3, <1>4, Facts DEF MatchAgreesWithTender, Holders
<1>12. MatchAgreesWithFilter'
  <2> SUFFICES ASSUME NEW a \in Accounts, NEW u \in Tenders, match'[a][u] # Unknown, <<a, u>> \notin drifted'
               PROVE  match'[a][u] \in filters[a]
    BY <1>4 DEF MatchAgreesWithFilter
  <2>1. CASE u = t
    <3>1. a \in poll[p].hits
      BY <2>1, <1>3
    <3>2. a \notin moved[p]
      BY <3>1, <2>1, <1>7
    <3> QED BY <3>1, <3>2, <2>1, <1>2, <1>3, Facts DEF HitsEligible
  <2>2. CASE u # t
    <3>1. <<a, u>> \notin drifted
      BY <2>2, <1>7
    <3> QED BY <3>1, <2>2, <1>3, Facts DEF MatchAgreesWithFilter
  <2> QED BY <2>1, <2>2
<1> QED BY <1>1, <1>9, <1>10, <1>11, <1>12 DEF IInv, MatchesAreFounded, PollFits

-----------------------------------------------------------------------------
(* The filters, the clock and the maintenance job. *)

LEMMA SetFilterStep ==
  ASSUME IInv, NEW a \in Accounts, NEW R \in SUBSET Regions, SetFilter(a, R)
  PROVE  IInv'
<1> USE DEF SetFilter, pollVars, failVars
<1>1. TypeOK'
  BY Facts, OtherTypes
<1>2. \A b \in Accounts : b # a => filters'[b] = filters[b]
  BY Facts DEF TypeOK
<1>3. \A q \in Polls : moved[q] \subseteq moved'[q] /\ (poll[q].pc = "write" => a \in moved'[q])
  OBVIOUS
<1>4. ASSUME NEW q \in Polls PROVE PollFits(q)'
  <2>1. \A b \in Accounts : filters'[b] = filters[b] \/ (poll[q].pc = "write" => b \in moved'[q])
    BY <1>2, <1>3, <1>4
  <2> QED BY <2>1, <1>3, <1>4, Facts, Undisturbed
<1>5. RowsApart' /\ MatchHasTender'
  BY Facts DEF RowsApart, MatchHasTender
<1>6. MatchAgreesWithTender'
  BY Facts DEF MatchAgreesWithTender, Holders
<1>7. MatchAgreesWithFilter'
  BY <1>2, Facts DEF MatchAgreesWithFilter
<1> QED BY <1>1, <1>4, <1>5, <1>6, <1>7 DEF IInv, MatchesAreFounded, PollFits

\* Closing a tender leaves its region alone, and waits for whoever holds the row.
LEMMA MaintCloseStep ==
  ASSUME IInv, MaintClose
  PROVE  IInv'
<1> USE DEF pollVars, driftVars, failVars
<1>1. TypeOK'
  BY Facts, OtherTypes DEF MaintStep
<1>2. \A t \in Tenders : /\ (tender'[t].stored <=> tender[t].stored)
                         /\ tender'[t].region = tender[t].region
                         /\ tender'[t] # tender[t] => Holders(t) = {}
  BY Facts DEF MaintClose, TypeOK, Row
<1>3. UNCHANGED <<filters, match, poll, view, wrote, moved, drifted, undone>>
  BY DEF MaintClose
<1>4. ASSUME NEW q \in Polls PROVE PollFits(q)'
  <2>1. \A t \in wrote[q] : tender'[t].open <=> tender[t].open
    BY <1>2, <1>4, Facts DEF Holders
  <2> QED BY <2>1, <1>3, <1>4, Facts, Undisturbed
<1>5. RowsApart' /\ MatchHasTender' /\ MatchAgreesWithFilter'
  BY <1>2, <1>3, Facts DEF RowsApart, MatchHasTender, MatchAgreesWithFilter
<1>6. MatchAgreesWithTender'
  BY <1>2, <1>3, Facts DEF MatchAgreesWithTender, Holders
<1> QED BY <1>1, <1>4, <1>5, <1>6 DEF IInv, MatchesAreFounded, PollFits

LEMMA MaintPruneStep ==
  ASSUME IInv, MaintPrune
  PROVE  IInv'
<1> USE DEF pollVars, failVars
<1>1. TypeOK'
  BY Facts, OtherTypes DEF MaintStep
<1>2. \A a \in Accounts, t \in Tenders :
        match'[a][t] # Unknown => match'[a][t] = match[a][t] /\ ~Prunable(t)
  BY DEF MaintPrune
<1>3. \A a \in Accounts, t \in Tenders : match'[a][t] \in {match[a][t], Unknown}
  BY DEF MaintPrune
<1>4. UNCHANGED <<filters, tender, poll, view, wrote, moved, undone>>
  BY DEF MaintPrune
<1>5. ASSUME NEW q \in Polls PROVE PollFits(q)'
  BY <1>3, <1>4, <1>5, Facts, Undisturbed
<1>6. RowsApart' /\ MatchHasTender'
  BY <1>2, <1>4, Facts DEF RowsApart, MatchHasTender
<1>7. MatchAgreesWithTender'
  BY <1>2, <1>4, Facts DEF MatchAgreesWithTender, Holders
<1>8. MatchAgreesWithFilter'
  <2>1. \A a \in Accounts, t \in Tenders : <<a, t>> \in drifted /\ ~Prunable(t) => <<a, t>> \in drifted'
    BY DEF MaintPrune
  <2> QED BY <2>1, <1>2, <1>4, Facts DEF MatchAgreesWithFilter
<1> QED BY <1>1, <1>5, <1>6, <1>7, <1>8 DEF IInv, MatchesAreFounded, PollFits

LEMMA OtherStep ==
  ASSUME IInv, Tick \/ (\E t \in Tenders : MaintTell(t)) \/ UNCHANGED vars
  PROVE  IInv'
<1>1. TypeOK'
  BY Facts, OtherTypes DEF MaintStep
<1>2. UNCHANGED <<filters, tender, match, poll, view, wrote, moved, drifted, undone>>
  BY DEF Tick, MaintTell, vars, pollVars, driftVars, failVars
<1>3. RowsApart' /\ \A q \in Polls : PollFits(q)'
  BY <1>2, Facts, Undisturbed DEF RowsApart
<1> QED BY <1>1, <1>2, <1>3, MatchesKept DEF IInv, MatchesAreFounded, PollFits

-----------------------------------------------------------------------------
LEMMA Start == Init => IInv
<1> SUFFICES ASSUME Init PROVE IInv OBVIOUS
<1>1. TypeOK
  BY BlankTypes, SmartMatchAssumption
     DEF Init, TypeOK, PollRecord, Phases, IdleMaint, SmartMatchAssumption
<1>2. RowsApart /\ \A p \in Polls : PollFits(p)
  BY DEF Init, RowsApart, PollFits, PollHolds, HitsEligible, HeldAgrees, IdlePoll
<1>3. MatchHasTender /\ MatchAgreesWithTender /\ MatchAgreesWithFilter
  BY DEF Init, MatchHasTender, MatchAgreesWithTender, MatchAgreesWithFilter
<1> QED BY <1>1, <1>2, <1>3 DEF IInv, MatchesAreFounded, PollFits

LEMMA Invariance == IInv /\ [Next]_vars => IInv'
<1> SUFFICES ASSUME IInv, [Next]_vars PROVE IInv' OBVIOUS
<1>1. ASSUME NEW a \in Accounts, NEW R \in SUBSET Regions, SetFilter(a, R) PROVE IInv'
  BY <1>1, SetFilterStep
<1>2. ASSUME NEW p \in Polls, StartPoll(p) \/ PollStep(p) \/ AbortPoll(p) PROVE IInv'
  BY <1>2, StartPollStep, EvalReadStep, EvalWriteStep, PublishStep, CommitPollStep, RollbackStep DEF PollStep
<1>3. ASSUME NEW p \in Polls, NEW t \in Tenders, NEW l \in Listing, Upsert(p, t, l) PROVE IInv'
  BY <1>3, UpsertStep
<1>4. CASE MaintClose \/ MaintPrune
  BY <1>4, MaintCloseStep, MaintPruneStep
<1>5. CASE Tick \/ (\E t \in Tenders : MaintTell(t)) \/ UNCHANGED vars
  BY <1>5, OtherStep
<1>6. CASE Crash
  BY <1>6, CrashStep
<1> QED BY <1>1, <1>2, <1>3, <1>4, <1>5, <1>6 DEF Next, MaintStep

LEMMA Inductive == Spec => []IInv
<1>1. Init => IInv
  BY Start
<1>2. IInv /\ [Next]_vars => IInv'
  BY Invariance
<1> QED BY <1>1, <1>2, PTL DEF Spec

\* REQ 5.3, 5.6: every match has a committed tender (evaluateTender's own transaction
\* and the foreign key), agrees with that tender's data once no batch holds it and
\* none that held it was rolled back, and stands for a filter of its account
\* unless the filter has changed since; for any interleaving of polls, filter
\* changes, maintenance, failed batches and crashes.
THEOREM MatchesAlwaysFounded == Spec => []MatchesAreFounded
<1>1. IInv => MatchesAreFounded
  BY DEF IInv
<1> QED BY <1>1, Inductive, PTL

\* Only T2 creates a match, of a row its T1 still holds.
LEMMA OpenWhenMatched ==
  ASSUME IInv, [Next]_vars, NEW a \in Accounts, NEW t \in Tenders,
         match[a][t] = Unknown, match'[a][t] # Unknown
  PROVE  tender[t].open
<1>1. PICK p \in Polls : EvalWrite(p)
  <2>1. (\E p \in Polls : EvalWrite(p)) \/ MaintPrune \/ match' = match
    BY DEF Next, PollStep, MaintStep, Tick, SetFilter, StartPoll, EvalRead, Publish, CommitPoll,
           RejectPoll, AbortPoll, Upsert, MaintClose, MaintTell, Crash, vars
  <2>2. MaintPrune => match'[a][t] = Unknown
    BY DEF MaintPrune
  <2> QED BY <2>1, <2>2
<1>2. poll[p].cur = t /\ a \in poll[p].hits
  BY <1>1, Written
<1>3. t \in wrote[p] /\ poll[p].pc = "write"
  BY <1>1, <1>2, Facts, InHand DEF EvalWrite
<1> QED BY <1>2, <1>3, Facts DEF HitsEligible, PollHolds

\* REQ 5.6: the evaluation of a tender (evaluateTender) decides on a row the ingest
\* transaction read, and closeExpiredTenders may run in between; still no closed
\* tender gets a new match.
THEOREM ClosedGetNoMatch == Spec => NoMatchForClosed
<1>1. IInv /\ [Next]_vars =>
        [\A a \in Accounts, t \in Tenders :
           match[a][t] = Unknown /\ match'[a][t] # Unknown => tender[t].open]_vars
  BY OpenWhenMatched
<1> QED BY <1>1, Inductive, PTL DEF Spec, NoMatchForClosed
=============================================================================
