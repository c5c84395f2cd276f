------------------------- MODULE DeadlineGuardProofs -------------------------
(***************************************************************************)
(* Proofs about DeadlineGuard, for any tenders, offsets, grace period,     *)
(* numbers of overlapping scans, of pursuits and of failures: a pursuit is *)
(* reminded once per offset.                                               *)
(***************************************************************************)
EXTENDS DeadlineGuard, FiniteSetTheorems, TLAPS

ScanRecord == [pc : {"idle", "remind", "close"}, todo : SUBSET Reminder]
Key(r) == <<r.id, r.offset>>

-----------------------------------------------------------------------------
(* The inductive invariant. *)

\* A scan holds uncommitted reminders only while it is going through the list.
HoldsWhileReminding == \A s \in Scans : scan[s].pc # "remind" => wrote[s] = {}

\* The unique index: no key is in two uncommitted rows, whoever inserted them,
\* and none of them is committed yet.
KeysApart ==
  /\ \A s, x \in Scans : \A r \in wrote[s], q \in wrote[x] : SameKey(r, q) => s = x /\ r = q
  /\ \A s \in Scans : \A r \in wrote[s], q \in log : ~SameKey(r, q)

\* There is a row of a key exactly if a reminder with that key is committed.
Counted ==
  \A k \in DedupeKeys : copies[k] = IF \E r \in log : Key(r) = k THEN 1 ELSE 0

IInv == TypeOK /\ HoldsWhileReminding /\ KeysApart /\ Counted

-----------------------------------------------------------------------------
(* Types. *)

LEMMA Constants ==
  /\ Grace \in Nat /\ MaxTime \in Nat /\ MaxPursuits \in Nat /\ MaxFaults \in Nat
  /\ NoDeadline \notin Nat /\ AllOffsets \subseteq Nat \ {0}
  /\ Defaults \subseteq AllOffsets /\ \A o \in OffsetLists : o \subseteq AllOffsets
BY DeadlineGuardAssumption DEF DeadlineGuardAssumption, AllOffsets

LEMMA RowType ==
  ASSUME TypeOK, NEW t \in Tenders
  PROVE  /\ pursued[t] \in Row
         /\ pursued[t].id \in 0..MaxPursuits
         /\ pursued[t].stage \in Stages /\ pursued[t].closed \in BOOLEAN
         /\ pursued[t].deadline \in Days \union {NoDeadline} /\ pursued[t].offsets \subseteq AllOffsets
BY DEF TypeOK, Row

LEMMA NoRowType == NoRow \in Row
BY Constants DEF NoRow, Row, Stages

\* Whatever the users ask for, a row remains a row.
LEMMA RequestTypes ==
  ASSUME TypeOK, NEW t \in Tenders, Request(t)
  PROVE  TypeOK'
<1> USE DEF logVars
<1>1. ASSUME NEW d \in Days \union {NoDeadline}, NEW o \in OffsetLists \union {Defaults},
             NEW g \in Stages \union {"keep"}, Pursue(t, d, o, g)
      PROVE  TypeOK'
  <2> DEFINE id == IF Exists(t) THEN pursued[t].id ELSE lastId + 1
  <2> DEFINE stage == IF g = "keep" THEN pursued[t].stage ELSE g
  <2> DEFINE row == [id |-> id, stage |-> stage, closed |-> pursued[t].closed, deadline |-> d, offsets |-> o]
  <2>1. id \in 0..MaxPursuits /\ lastId' \in 0..MaxPursuits
    BY <1>1, RowType, Constants DEF Pursue, TypeOK
  <2>2. stage \in Stages
    BY <1>1, RowType
  <2>3. pursued' = [pursued EXCEPT ![t] = row]
    BY <1>1 DEF Pursue, TypeOK
  <2> HIDE DEF id, stage
  <2>4. row \in Row
    BY <2>1, <2>2, <1>1, RowType, Constants DEF Row
  <2> HIDE DEF row
  <2> QED BY <1>1, <2>1, <2>3, <2>4 DEF Pursue, TypeOK
<1>2. CASE Unpursue(t)
  BY <1>2, NoRowType DEF Unpursue, TypeOK
<1>3. ASSUME NEW g \in Stages, SetStage(t, g) PROVE TypeOK'
  <2>1. [pursued[t] EXCEPT !.stage = g] \in Row
    BY <1>3, RowType DEF Row
  <2> QED BY <1>3, <2>1 DEF SetStage, TypeOK
<1>4. ASSUME NEW o \in OffsetLists, ConfigureReminders(t, o) PROVE TypeOK'
  <2>1. [pursued[t] EXCEPT !.offsets = o] \in Row
    BY <1>4, RowType, Constants DEF Row
  <2> QED BY <1>4, <2>1 DEF ConfigureReminders, TypeOK
<1> QED BY <1>1, <1>2, <1>3, <1>4 DEF Request

\* What is due is a reminder of a row that is there.
LEMMA DueReminders ==
  ASSUME TypeOK, NEW t \in Tenders, Active(t),
         NEW o \in DueOffsets(pursued[t].deadline, pursued[t].offsets, now)
  PROVE  [id |-> pursued[t].id, offset |-> o, deadline |-> pursued[t].deadline] \in Reminder
<1>1. pursued[t].id \in 1..MaxPursuits
  BY RowType, Constants DEF Active, Exists
<1>2. o \in AllOffsets /\ pursued[t].deadline \in Days
  BY RowType DEF DueOffsets, Active
<1> QED BY <1>1, <1>2 DEF Reminder

LEMMA ScanUpdate ==
  ASSUME TypeOK, NEW s \in Scans, NEW r \in ScanRecord, scan' = [scan EXCEPT ![s] = r]
  PROVE  /\ scan' \in [Scans -> ScanRecord]
         /\ scan'[s] = r /\ \A x \in Scans \ {s} : scan'[x] = scan[x]
BY DEF TypeOK, ScanRecord

LEMMA ScanType ==
  ASSUME TypeOK, NEW s \in Scans
  PROVE  scan[s] \in ScanRecord /\ scan[s].todo \subseteq Reminder /\ wrote[s] \subseteq Reminder
BY DEF TypeOK, ScanRecord

-----------------------------------------------------------------------------
(* Steps. *)

LEMMA Start == Init => IInv
<1> SUFFICES ASSUME Init PROVE IInv OBVIOUS
<1> USE DEF Init
<1>1. TypeOK
  BY NoRowType, Constants DEF TypeOK, Days, IdleScan
<1>2. HoldsWhileReminding /\ KeysApart /\ Counted
  BY DEF HoldsWhileReminding, KeysApart, Counted
<1> QED BY <1>1, <1>2 DEF IInv

\* Keys do not change with what is not a reminder.
LEMMA RemindersKept ==
  ASSUME IInv, UNCHANGED <<log, copies, wrote>>,
         \A s \in Scans : scan'[s].pc = scan[s].pc \/ wrote[s] = {} \/ scan'[s].pc = "remind"
  PROVE  HoldsWhileReminding' /\ KeysApart' /\ Counted'
BY DEF IInv, HoldsWhileReminding, KeysApart, Counted, SameKey, Key

LEMMA UserStep ==
  ASSUME IInv,
         \/ Tick \/ UNCHANGED vars
         \/ \E t \in Tenders : Request(t)
         \/ \E on \in BOOLEAN : SetChannel(on)
  PROVE  IInv'
<1>1. UNCHANGED <<log, copies, scan, wrote>>
  BY DEF Tick, Request, Pursue, Unpursue, SetStage, ConfigureReminders, SetChannel, vars, logVars
<1>2. TypeOK'
  <2>1. CASE Tick \/ UNCHANGED vars
    BY <2>1, Constants DEF Tick, vars, userVars, logVars, IInv, TypeOK, Days
  <2>2. CASE \E t \in Tenders : Request(t)
    BY <2>2, RequestTypes DEF IInv
  <2>3. CASE \E on \in BOOLEAN : SetChannel(on)
    BY <2>3 DEF SetChannel, logVars, IInv, TypeOK
  <2> QED BY <2>1, <2>2, <2>3
<1> QED BY <1>1, <1>2, RemindersKept DEF IInv

LEMMA ScanListStep ==
  ASSUME IInv, NEW s \in Scans, ScanList(s)
  PROVE  IInv'
<1> USE DEF ScanList, userVars, logVars
<1> DEFINE due == UNION {{[id |-> pursued[t].id, offset |-> o, deadline |-> pursued[t].deadline]
                            : o \in DueOffsets(pursued[t].deadline, pursued[t].offsets, now)}
                          : t \in {u \in Tenders : Active(u)}}
<1>1. due \subseteq Reminder
  BY DueReminders DEF IInv
<1>2. scan' = [scan EXCEPT ![s] = [pc |-> "remind", todo |-> due]]
  OBVIOUS
<1> HIDE DEF due
<1>3. [pc |-> "remind", todo |-> due] \in ScanRecord
  BY <1>1 DEF ScanRecord
<1>4. /\ scan' \in [Scans -> ScanRecord]
      /\ scan'[s].pc = "remind" /\ \A x \in Scans \ {s} : scan'[x] = scan[x]
  BY <1>2, <1>3, ScanUpdate DEF IInv
<1>5. TypeOK'
  BY <1>4 DEF IInv, TypeOK, ScanRecord
<1> QED BY <1>4, <1>5, RemindersKept DEF IInv

\* The insert: nobody else holds the key, and neither the table nor this scan has it.
LEMMA ScanNotifyStep ==
  ASSUME IInv, NEW s \in Scans, NEW r \in scan[s].todo, ScanNotify(s, r)
  PROVE  IInv'
<1> USE DEF ScanNotify, userVars, logVars
<1> DEFINE inserted == channelOn /\ ~Taken(s, r)
<1>1. r \in Reminder /\ scan[s].todo \ {r} \subseteq Reminder /\ scan[s].pc = "remind"
  BY ScanType DEF IInv
<1>2. [scan[s] EXCEPT !.todo = scan[s].todo \ {r}] \in ScanRecord
  BY <1>1, ScanType DEF IInv, ScanRecord
<1>3. scan' = [scan EXCEPT ![s] = [scan[s] EXCEPT !.todo = scan[s].todo \ {r}]]
  BY DEF IInv, TypeOK
<1>4. /\ scan' \in [Scans -> ScanRecord]
      /\ scan'[s].pc = "remind" /\ \A x \in Scans \ {s} : scan'[x] = scan[x]
  <2> DEFINE new == [scan[s] EXCEPT !.todo = scan[s].todo \ {r}]
  <2>1. new.pc = "remind"
    BY <1>1, ScanType DEF IInv, ScanRecord
  <2> HIDE DEF new
  <2> QED BY <1>2, <1>3, <2>1, ScanUpdate DEF IInv, new
<1>5. /\ wrote'[s] = IF inserted THEN wrote[s] \union {r} ELSE wrote[s]
      /\ \A x \in Scans \ {s} : wrote'[x] = wrote[x]
  BY DEF IInv, TypeOK
<1>6. TypeOK'
  <2>1. wrote' \in [Scans -> SUBSET Reminder]
    BY <1>1 DEF IInv, TypeOK
  <2> QED BY <1>4, <2>1 DEF IInv, TypeOK, ScanRecord
<1>7. HoldsWhileReminding'
  BY <1>4, <1>5 DEF IInv, HoldsWhileReminding
<1>8. Counted'
  BY DEF IInv, Counted
<1>9. inserted => /\ \A x \in Scans \ {s} : \A q \in wrote[x] : ~SameKey(r, q)
                  /\ \A q \in log \union wrote[s] : ~SameKey(r, q)
  BY DEF Holders, Taken
<1>10. KeysApart'
  <2> HIDE DEF ScanNotify, inserted
  <2>1. log' = log
    BY DEF ScanNotify
  <2>2. CASE ~inserted
    <3>1. \A x \in Scans : wrote'[x] = wrote[x]
      BY <1>5, <2>2
    <3> QED BY <2>1, <3>1 DEF IInv, KeysApart, SameKey
  <2>3. CASE inserted
    <3>1. \A x \in Scans : \A q \in wrote'[x] : (x = s /\ q = r) \/ (q \in wrote[x] /\ ~SameKey(r, q))
      BY <1>5, <1>9, <2>3
    <3>2. \A q : SameKey(q, r) <=> SameKey(r, q)
      BY DEF SameKey
    <3>3. ASSUME NEW x \in Scans, NEW y \in Scans, NEW p \in wrote'[x], NEW q \in wrote'[y], SameKey(p, q)
          PROVE  x = y /\ p = q
      BY <3>1, <3>2, <3>3 DEF IInv, KeysApart
    <3>4. ASSUME NEW x \in Scans, NEW p \in wrote'[x], NEW q \in log
          PROVE  ~SameKey(p, q)
      BY <3>1, <1>9, <2>3 DEF IInv, KeysApart
    <3> QED BY <2>1, <3>3, <3>4 DEF KeysApart, SameKey
  <2> QED BY <2>2, <2>3
<1> QED BY <1>6, <1>7, <1>8, <1>10 DEF IInv

\* The rows of one key a scan commits: none, or one of a key that was free.
LEMMA OneRowPerKey ==
  ASSUME IInv, NEW s \in Scans, NEW k \in DedupeKeys
  PROVE  Cardinality({r \in wrote[s] : <<r.id, r.offset>> = k}) =
           IF \E r \in wrote[s] : Key(r) = k THEN 1 ELSE 0
<1> DEFINE R == {r \in wrote[s] : <<r.id, r.offset>> = k}
<1>1. CASE \E r \in wrote[s] : Key(r) = k
  <2>1. PICK r \in wrote[s] : Key(r) = k
    BY <1>1
  <2>2. \A q \in wrote[s] : Key(q) = k => q = r
    BY <2>1 DEF IInv, KeysApart, SameKey, Key
  <2>3. R = {r}
    BY <2>1, <2>2 DEF Key
  <2> QED BY <1>1, <2>3, FS_Singleton
<1>2. CASE ~ \E r \in wrote[s] : Key(r) = k
  <2>1. R = {}
    BY <1>2 DEF Key
  <2> QED BY <1>2, <2>1, FS_EmptySet
<1> QED BY <1>1, <1>2

LEMMA ScanCommitStep ==
  ASSUME IInv, NEW s \in Scans, ScanCommit(s)
  PROVE  IInv'
<1> USE DEF userVars
<1>1. [scan[s] EXCEPT !.pc = "close"] \in ScanRecord
  BY ScanType DEF IInv, ScanRecord
<1>2. scan' = [scan EXCEPT ![s] = [scan[s] EXCEPT !.pc = "close"]]
  BY DEF ScanCommit, IInv, TypeOK
<1>3. scan' \in [Scans -> ScanRecord] /\ \A x \in Scans \ {s} : scan'[x] = scan[x]
  <2> DEFINE new == [scan[s] EXCEPT !.pc = "close"]
  <2> HIDE DEF new
  <2> QED BY <1>1, <1>2, ScanUpdate DEF IInv, new
<1>4. wrote'[s] = {} /\ \A x \in Scans \ {s} : wrote'[x] = wrote[x]
  BY DEF ScanCommit, IInv, TypeOK
<1>5. log' = log \union wrote[s]
  BY DEF ScanCommit
<1>6. Counted' /\ \A k \in DedupeKeys : copies'[k] \in Nat
  <2> SUFFICES ASSUME NEW k \in DedupeKeys
               PROVE  copies'[k] = (IF \E r \in log' : Key(r) = k THEN 1 ELSE 0) /\ copies'[k] \in Nat
    BY DEF Counted, Key
  <2>1. copies'[k] = copies[k] + (IF \E r \in wrote[s] : Key(r) = k THEN 1 ELSE 0)
    BY OneRowPerKey DEF ScanCommit
  <2>2. copies[k] = IF \E r \in log : Key(r) = k THEN 1 ELSE 0
    BY DEF IInv, Counted
  <2>3. ~((\E r \in wrote[s] : Key(r) = k) /\ (\E r \in log : Key(r) = k))
    BY DEF IInv, KeysApart, SameKey, Key
  <2>4. (\E r \in log' : Key(r) = k) <=> (\E r \in log : Key(r) = k) \/ (\E r \in wrote[s] : Key(r) = k)
    BY <1>5
  <2> QED BY <2>1, <2>2, <2>3, <2>4
<1>7. TypeOK'
  <2>1. copies' \in [DedupeKeys -> Nat]
    BY <1>6 DEF ScanCommit
  <2>2. log' \subseteq Reminder /\ wrote' \in [Scans -> SUBSET Reminder]
    BY <1>5, ScanType DEF ScanCommit, IInv, TypeOK
  <2> QED BY <1>3, <2>1, <2>2 DEF ScanCommit, IInv, TypeOK, ScanRecord
<1>8. HoldsWhileReminding'
  BY <1>3, <1>4 DEF IInv, HoldsWhileReminding
<1>9. KeysApart'
  BY <1>4, <1>5 DEF IInv, KeysApart, SameKey
<1> QED BY <1>6, <1>7, <1>8, <1>9 DEF IInv

LEMMA ScanCloseStep ==
  ASSUME IInv, NEW s \in Scans, ScanClose(s)
  PROVE  IInv'
<1> USE DEF ScanClose, logVars
<1>1. IdleScan \in ScanRecord
  BY DEF IdleScan, ScanRecord
<1>2. scan' \in [Scans -> ScanRecord] /\ \A x \in Scans \ {s} : scan'[x] = scan[x]
  BY <1>1, ScanUpdate DEF IInv
<1>3. ASSUME NEW t \in Tenders PROVE [pursued[t] EXCEPT !.stage = "closed", !.closed = TRUE] \in Row
  BY <1>3, RowType DEF IInv, Row, Stages
<1>4. pursued' \in [Tenders -> Row]
  BY <1>3, RowType DEF IInv
<1>5. TypeOK'
  BY <1>2, <1>4 DEF IInv, TypeOK, ScanRecord
<1>6. wrote[s] = {}
  BY DEF IInv, HoldsWhileReminding
<1> QED BY <1>2, <1>5, <1>6, RemindersKept DEF IInv

LEMMA ScanAbortStep ==
  ASSUME IInv, NEW S \in SUBSET Scans, ScanAbort(S)
  PROVE  IInv'
<1> USE DEF ScanAbort, Rollback, userVars, logVars
<1>1. IdleScan \in ScanRecord
  BY DEF IdleScan, ScanRecord
<1>2. scan' \in [Scans -> ScanRecord]
  BY <1>1, ScanType DEF IInv
<1>3. \A s \in Scans : (wrote'[s] = {}) \/ (wrote'[s] = wrote[s] /\ scan'[s] = scan[s])
  OBVIOUS
<1>4. TypeOK'
  <2>1. faults' \in 0..MaxFaults
    BY Constants DEF IInv, TypeOK
  <2>2. wrote' \in [Scans -> SUBSET Reminder]
    BY ScanType DEF IInv
  <2> QED BY <1>2, <2>1, <2>2 DEF IInv, TypeOK, ScanRecord
<1>5. HoldsWhileReminding'
  BY <1>3 DEF IInv, HoldsWhileReminding
<1>6. Counted'
  BY DEF IInv, Counted
<1>7. \A s \in Scans : wrote'[s] \subseteq wrote[s]
  BY <1>3
<1>8. KeysApart'
  BY <1>7 DEF IInv, KeysApart, SameKey
<1> QED BY <1>4, <1>5, <1>6, <1>8 DEF IInv

-----------------------------------------------------------------------------
LEMMA Invariance == IInv /\ [Next]_vars => IInv'
<1> SUFFICES ASSUME IInv, [Next]_vars PROVE IInv' OBVIOUS
<1>1. CASE \/ Tick \/ UNCHANGED vars
           \/ \E t \in Tenders : Request(t)
           \/ \E on \in BOOLEAN : SetChannel(on)
  BY <1>1, UserStep
<1>2. ASSUME NEW s \in Scans, ScanStep(s) PROVE IInv'
  BY <1>2, ScanListStep, ScanNotifyStep, ScanCommitStep, ScanCloseStep DEF ScanStep
<1>3. ASSUME NEW S \in SUBSET Scans \ {{}}, ScanAbort(S) PROVE IInv'
  BY <1>3, ScanAbortStep
<1> QED BY <1>1, <1>2, <1>3 DEF Next

LEMMA Inductive == Spec => []IInv
<1>1. Init => IInv
  BY Start
<1>2. IInv /\ [Next]_vars => IInv'
  BY Invariance
<1> QED BY <1>1, <1>2, PTL DEF Spec

\* ID3: there is at most one reminder per pursuit and offset (notifyAccount's dedupe
\* key and its unique index), however scans overlap, fail, roll back and run again
\* and whatever the users do to the pursuits meanwhile.
THEOREM RemindersAlwaysSound == Spec => []RemindersAreSound
<1>1. IInv => RemindersAreSound
  BY DEF IInv, Counted, RemindersAreSound, RemindedOnce
<1> QED BY <1>1, Inductive, PTL
=============================================================================
