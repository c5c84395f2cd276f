------------------------ MODULE NotificationsProofs ------------------------
(***************************************************************************)
(* Proofs about Notifications, for any number of overlapping passes, any   *)
(* crashes and any values of the bounds.                                   *)
(***************************************************************************)
EXTENDS Notifications, TLAPS

\* What makes a row, committed or not, truthful about the notification n.
Earned(row, n) ==
  /\ row.retry <= attempts[n]
  /\ row.status = "pending" => row.retry < MaxRetries
  /\ row.status = "delivered" => sent[n] > 0
  /\ row.status = "failed" => row.retry = MaxRetries

RowsEarned == \A n \in Notes : Earned(rows[n], n)
ViewsEarned == \A p \in Passes, n \in Notes : Earned(view[p][n], n)

\* A pass only works on rows that were pending in its snapshot, and between the
\* provider call and the update the call is already counted.
WorkInHand ==
  \A p \in Passes :
    /\ \A n \in todo[p] : view[p][n].status = "pending"
    /\ pc[p] = "write" =>
         /\ cur[p] \in todo[p]
         /\ ok[p] => sent[cur[p]] > 0
         /\ ~ok[p] => view[p][cur[p]].retry < attempts[cur[p]]

IInv == TypeOK /\ RowsEarned /\ ViewsEarned /\ WorkInHand

LEMMA InitIInv == Init => IInv
<1> SUFFICES ASSUME Init PROVE IInv
  OBVIOUS
<1> USE NotificationsAssumption
<1>1. Absent \in Row
  BY DEF Absent, Row
<1>2. NoRows \in [Notes -> Row]
  BY <1>1 DEF NoRows
<1>3. TypeOK
  BY <1>2 DEF Init, TypeOK, Pref
<1>4. \A n \in Notes : Earned(NoRows[n], n)
  BY DEF NoRows, Absent, Earned, Init
<1>5. QED
  BY <1>3, <1>4 DEF Init, IInv, RowsEarned, ViewsEarned, WorkInHand

\* The update a pass computes from an earned pending row is itself earned.
LEMMA SettledIsEarned ==
  ASSUME NEW n \in Notes, NEW row \in Row, NEW d \in BOOLEAN,
         attempts[n] \in Nat, sent[n] \in Nat,
         row.status = "pending", Earned(row, n),
         d => sent[n] > 0, ~d => row.retry < attempts[n]
  PROVE  Settled(row, d) \in Row /\ Earned(Settled(row, d), n)
<1> USE NotificationsAssumption
<1>1. row.retry \in 0..MaxRetries /\ row.retry < MaxRetries /\ row.born \in Nat
  BY DEF Row, Earned
<1>2. CASE d
  <2>1. Settled(row, d) = [status |-> "delivered", retry |-> row.retry, born |-> row.born]
    BY <1>2 DEF Settled, Row
  <2>2. Settled(row, d) \in Row
    BY <1>1, <2>1 DEF Row
  <2>3. row.retry <= attempts[n] /\ sent[n] > 0
    BY <1>2 DEF Earned
  <2>4. QED
    BY <2>1, <2>2, <2>3 DEF Earned
<1>3. CASE ~d
  <2>1. Settled(row, d) = [status |-> IF row.retry + 1 >= MaxRetries THEN "failed" ELSE "pending",
                           retry |-> row.retry + 1, born |-> row.born]
    BY <1>3 DEF Settled, Row
  <2>2. Settled(row, d) \in Row
    BY <1>1, <2>1 DEF Row
  <2>3. QED
    BY <1>1, <1>3, <2>1, <2>2 DEF Earned
<1>4. QED
  BY <1>2, <1>3

LEMMA SendIInv ==
  ASSUME IInv, NEW p \in Passes, NEW n \in Notes, NEW delivered \in BOOLEAN,
         Send(p, n, delivered)
  PROVE  IInv'
<1> USE NotificationsAssumption DEF Send
<1>1. TypeOK'
  BY DEF IInv, TypeOK
<1>2. \A m \in Notes : /\ attempts[m] \in Nat /\ attempts'[m] \in Nat
                        /\ sent[m] \in Nat /\ sent'[m] \in Nat
                        /\ attempts[m] <= attempts'[m] /\ sent[m] <= sent'[m]
  BY DEF IInv, TypeOK
<1>3. RowsEarned'
  <2> SUFFICES ASSUME NEW m \in Notes PROVE Earned(rows[m], m)'
    BY DEF RowsEarned
  <2>1. rows[m] \in Row /\ Earned(rows[m], m)
    BY DEF IInv, TypeOK, RowsEarned
  <2>2. QED
    BY <1>2, <2>1 DEF Earned, Row
<1>4. ViewsEarned'
  <2> SUFFICES ASSUME NEW q \in Passes, NEW m \in Notes PROVE Earned(view[q][m], m)'
    BY DEF ViewsEarned
  <2>1. view[q][m] \in Row /\ Earned(view[q][m], m)
    BY DEF IInv, TypeOK, ViewsEarned
  <2>2. QED
    BY <1>2, <2>1 DEF Earned, Row
<1>5. WorkInHand'
  <2> SUFFICES ASSUME NEW q \in Passes
               PROVE  /\ \A m \in todo'[q] : view'[q][m].status = "pending"
                      /\ pc'[q] = "write" =>
                           /\ cur'[q] \in todo'[q]
                           /\ ok'[q] => sent'[cur'[q]] > 0
                           /\ ~ok'[q] => view'[q][cur'[q]].retry < attempts'[cur'[q]]
    BY DEF WorkInHand
  <2>1. \A m \in todo'[q] : view'[q][m].status = "pending"
    BY DEF IInv, WorkInHand
  <2>2. CASE q = p
    <3>1. cur'[q] = n /\ ok'[q] = delivered /\ n \in todo'[q]
      BY <2>2 DEF IInv, TypeOK
    <3>2. attempts'[n] = attempts[n] + 1 /\ (delivered => sent'[n] = sent[n] + 1)
      BY DEF IInv, TypeOK
    <3>3. view[q][n] \in Row /\ view[q][n].retry <= attempts[n]
      BY DEF IInv, TypeOK, ViewsEarned, Earned
    <3>4. QED
      BY <1>2, <2>1, <3>1, <3>2, <3>3 DEF Row
  <2>3. CASE q # p
    <3>1. /\ cur'[q] = cur[q] /\ ok'[q] = ok[q] /\ pc'[q] = pc[q]
          /\ todo'[q] = todo[q] /\ view'[q] = view[q]
      BY <2>3 DEF IInv, TypeOK
    <3>2. ASSUME pc[q] = "write"
          PROVE  /\ cur[q] \in todo[q] /\ cur[q] \in Notes
                 /\ ok[q] => sent[cur[q]] > 0
                 /\ ~ok[q] => view[q][cur[q]].retry < attempts[cur[q]]
                 /\ view[q][cur[q]].retry \in Nat
      BY <3>2 DEF IInv, TypeOK, WorkInHand, Row
    <3>3. QED
      BY <1>2, <2>1, <3>1, <3>2
  <2>4. QED
    BY <2>2, <2>3
<1>6. QED
  BY <1>1, <1>3, <1>4, <1>5 DEF IInv

LEMMA WriteIInv ==
  ASSUME IInv, NEW p \in Passes, Write(p)
  PROVE  IInv'
<1> USE NotificationsAssumption
<1> DEFINE n == cur[p]
           upd == Settled(view[p][n], ok[p])
<1>1. n \in todo[p] /\ n \in Notes /\ ok[p] \in BOOLEAN
  BY DEF IInv, WorkInHand, TypeOK, Write
<1>2. upd \in Row /\ Earned(upd, n)
  <2>1. /\ view[p][n] \in Row /\ view[p][n].status = "pending"
        /\ Earned(view[p][n], n) /\ attempts[n] \in Nat /\ sent[n] \in Nat
    BY <1>1 DEF IInv, WorkInHand, TypeOK, ViewsEarned
  <2>2. (ok[p] => sent[n] > 0) /\ (~ok[p] => view[p][n].retry < attempts[n])
    BY DEF IInv, WorkInHand, Write
  <2>3. QED
    BY <1>1, <2>1, <2>2, SettledIsEarned
<1>3. view' = [view EXCEPT ![p] = [view[p] EXCEPT ![n] = upd]]
  BY DEF Write
<1> HIDE DEF n, upd
<1>4. TypeOK'
  <2>1. view' \in [Passes -> [Notes -> Row]]
    BY <1>1, <1>2, <1>3 DEF IInv, TypeOK
  <2>2. wrote' = [wrote EXCEPT ![p] = @ \union {n}] /\ todo' = [todo EXCEPT ![p] = @ \ {n}]
    BY DEF Write, n
  <2>3. QED
    BY <1>1, <2>1, <2>2 DEF IInv, TypeOK, Write
<1>5. RowsEarned'
  BY DEF IInv, RowsEarned, Earned, Write
<1>6. ViewsEarned'
  BY <1>1, <1>2, <1>3 DEF IInv, TypeOK, ViewsEarned, Earned, Write
<1>7. WorkInHand'
  <2> SUFFICES ASSUME NEW q \in Passes
               PROVE  /\ \A m \in todo'[q] : view'[q][m].status = "pending"
                      /\ pc'[q] = "write" =>
                           /\ cur'[q] \in todo'[q]
                           /\ ok'[q] => sent'[cur'[q]] > 0
                           /\ ~ok'[q] => view'[q][cur'[q]].retry < attempts'[cur'[q]]
    BY DEF WorkInHand
  <2>1. CASE q = p
    <3>1. todo'[p] = todo[p] \ {n} /\ pc'[p] = "next"
      BY DEF Write, IInv, TypeOK, n
    <3>2. \A m \in todo'[p] : view'[p][m] = view[p][m]
      BY <1>3, <3>1 DEF IInv, TypeOK
    <3>3. QED
      BY <2>1, <3>1, <3>2 DEF IInv, WorkInHand
  <2>2. CASE q # p
    BY <1>3, <2>2 DEF IInv, TypeOK, WorkInHand, Write
  <2>3. QED
    BY <2>1, <2>2
<1>8. QED
  BY <1>4, <1>5, <1>6, <1>7 DEF IInv

LEMMA NotifyIInv ==
  ASSUME IInv, NEW a \in Accounts, NEW k \in Keys, Notify(a, k)
  PROVE  IInv'
<1> USE NotificationsAssumption
<1> DEFINE fresh == [status |-> "pending", retry |-> 0, born |-> clock + 1]
<1>1. fresh \in Row
  BY DEF IInv, TypeOK, Row
<1>2. \A n \in Notes : rows'[n] = fresh \/ rows'[n] = rows[n]
  BY DEF Notify
<1>3. \A n \in Notes : Earned(fresh, n)
  BY DEF Earned, IInv, TypeOK
<1>4. rows' \in [Notes -> Row]
  <2>1. rows' = [n \in Notes |-> rows'[n]]
    BY DEF Notify
  <2>2. QED
    BY <1>1, <1>2, <2>1 DEF IInv, TypeOK
<1> HIDE DEF fresh
<1>5. TypeOK'
  BY <1>4 DEF IInv, TypeOK, Notify, passVars
<1>6. RowsEarned'
  BY <1>2, <1>3 DEF IInv, RowsEarned, Earned, Notify
<1>7. ViewsEarned' /\ WorkInHand'
  BY DEF IInv, ViewsEarned, WorkInHand, Earned, Notify, passVars
<1>8. QED
  BY <1>5, <1>6, <1>7 DEF IInv

LEMMA BeginPassIInv ==
  ASSUME IInv, NEW p \in Passes, BeginPass(p)
  PROVE  IInv'
<1> USE NotificationsAssumption
<1>1. PICK S \in SUBSET Notes :
        /\ \A n \in S : rows[n].status = "pending"
        /\ todo' = [todo EXCEPT ![p] = S]
        /\ view' = [view EXCEPT ![p] = [n \in Notes |-> IF n \in S THEN rows[n] ELSE Absent]]
  BY DEF BeginPass, Batch, Selectable
<1>2. Absent \in Row /\ \A n \in Notes : Earned(Absent, n)
  BY DEF Absent, Row, Earned, IInv, TypeOK
<1>3. TypeOK'
  BY <1>1, <1>2 DEF IInv, TypeOK, BeginPass
<1>4. RowsEarned'
  BY DEF IInv, RowsEarned, Earned, BeginPass
<1>5. ViewsEarned'
  BY <1>1, <1>2 DEF IInv, TypeOK, RowsEarned, ViewsEarned, Earned, BeginPass
<1>6. WorkInHand'
  BY <1>1 DEF IInv, TypeOK, WorkInHand, BeginPass
<1>7. QED
  BY <1>3, <1>4, <1>5, <1>6 DEF IInv

LEMMA CommitIInv ==
  ASSUME IInv, NEW p \in Passes, Commit(p)
  PROVE  IInv'
<1> USE NotificationsAssumption
<1>1. NoRows \in [Notes -> Row] /\ \A n \in Notes : Earned(NoRows[n], n)
  BY DEF NoRows, Absent, Row, Earned, IInv, TypeOK
<1>2. TypeOK'
  BY <1>1 DEF IInv, TypeOK, Commit
<1>3. RowsEarned'
  BY DEF IInv, RowsEarned, ViewsEarned, Earned, Commit
<1>4. ViewsEarned'
  BY <1>1 DEF IInv, TypeOK, ViewsEarned, Earned, Commit
<1>5. WorkInHand'
  BY DEF IInv, TypeOK, WorkInHand, Commit
<1>6. QED
  BY <1>2, <1>3, <1>4, <1>5 DEF IInv

LEMMA RollbackIInv ==
  ASSUME IInv, NEW P \in SUBSET Passes, Rollback(P), aborts' \in Nat
  PROVE  IInv'
<1> USE NotificationsAssumption
<1>1. NoRows \in [Notes -> Row] /\ \A n \in Notes : Earned(NoRows[n], n)
  BY DEF NoRows, Absent, Row, Earned, IInv, TypeOK
<1>2. TypeOK'
  BY <1>1 DEF IInv, TypeOK, Rollback
<1>3. RowsEarned' /\ ViewsEarned'
  BY <1>1 DEF IInv, RowsEarned, ViewsEarned, Earned, Rollback
<1>4. WorkInHand'
  BY DEF IInv, WorkInHand, Rollback
<1>5. QED
  BY <1>2, <1>3, <1>4 DEF IInv

LEMMA NextIInv == IInv /\ [Next]_vars => IInv'
<1> SUFFICES ASSUME IInv, [Next]_vars PROVE IInv'
  OBVIOUS
<1>1. ASSUME NEW a \in Accounts, NEW c \in Channels, NEW v \in {"on", "off"}, SetPref(a, c, v)
      PROVE  IInv'
  <2>1. TypeOK'
    BY <1>1 DEF IInv, TypeOK, SetPref, Pref, passVars
  <2>2. RowsEarned' /\ ViewsEarned' /\ WorkInHand'
    BY <1>1 DEF IInv, RowsEarned, ViewsEarned, WorkInHand, Earned, SetPref, passVars
  <2>3. QED
    BY <2>1, <2>2 DEF IInv
<1>2. ASSUME NEW a \in Accounts, NEW k \in Keys, Notify(a, k) PROVE IInv'
  BY <1>2, NotifyIInv
<1>3. ASSUME NEW p \in Passes, PassStep(p) PROVE IInv'
  <2>1. ASSUME DeadlockAbort(p) PROVE IInv'
    BY <2>1, RollbackIInv DEF DeadlockAbort, IInv, TypeOK
  <2>2. QED
    BY <1>3, <2>1, BeginPassIInv, SendIInv, WriteIInv, CommitIInv DEF PassStep
<1>4. ASSUME NEW p \in Passes, AbortPass(p) PROVE IInv'
  BY <1>4, RollbackIInv DEF AbortPass, IInv, TypeOK
<1>5. CASE Crash
  BY <1>5, RollbackIInv DEF Crash, IInv, TypeOK
<1>6. CASE UNCHANGED vars
  BY <1>6 DEF vars, IInv, TypeOK, RowsEarned, ViewsEarned, WorkInHand, Earned
<1>7. QED
  BY <1>1, <1>2, <1>3, <1>4, <1>5, <1>6 DEF Next

THEOREM Invariance == Spec => []IInv
BY InitIInv, NextIInv, PTL DEF Spec

\* Every variable keeps its type; the retries never exceed NOTIFICATION_MAX_RETRIES.
THEOREM TypeCorrect == Spec => []TypeOK
<1>1. IInv => TypeOK
  BY DEF IInv
<1>2. QED
  BY <1>1, Invariance, PTL

\* No overlap of passes and no rollback makes the log claim a delivery that
\* never happened or a failure before every retry was made.
THEOREM OutcomesAreEarned == Spec => []OutcomeIsEarned
<1>1. IInv => OutcomeIsEarned
  BY NotificationsAssumption DEF IInv, RowsEarned, Earned, OutcomeIsEarned, TypeOK, Row
<1>2. QED
  BY <1>1, Invariance, PTL

\* The retry counts, committed or not, are never ahead of the provider calls.
THEOREM RetriesAreRealAlways == Spec => []RetriesAreReal
<1>1. IInv => RetriesAreReal
  BY DEF IInv, RowsEarned, ViewsEarned, Earned, RetriesAreReal, TypeOK
<1>2. QED
  BY <1>1, Invariance, PTL

\* The state has its types and the log claims nothing that was not earned.
THEOREM LogIsEarnedAlways == Spec => []LogIsEarned
BY TypeCorrect, OutcomesAreEarned, RetriesAreRealAlways, PTL DEF LogIsEarned
-----------------------------------------------------------------------------
(* Passes that do not overlap.                                             *)

OneAtATime == \A p, q \in Passes : pc[p] # "idle" /\ pc[q] # "idle" => p = q

Extra(row) == IF row.status = "delivered" THEN 1 ELSE 0

\* What has been done for n beyond what its row tells is paid for by an abort.
Accounted(row, n) ==
  /\ row.status = "delivered" => row.retry < MaxRetries
  /\ attempts[n] <= row.retry + Extra(row) + aborts
  /\ sent[n] <= Extra(row) + aborts

\* The rows pass p has called the provider for.
Called(p) == wrote[p] \union {n \in Notes : pc[p] = "write" /\ n = cur[p]}

Untouched(n) == \A p \in Passes : n \notin Called(p)

\* An idle pass has nothing; the work of the other one is pending in the log, called
\* once since and, if it is written, accounted for by what is written.
PassFits(p) ==
  /\ pc[p] = "idle" => todo[p] = {} /\ wrote[p] = {}
  /\ todo[p] \intersect wrote[p] = {}
  /\ \A n \in todo[p] : view[p][n] = rows[n]
  /\ \A n \in Called(p) :
       /\ rows[n].status = "pending"
       /\ attempts[n] <= rows[n].retry + 1 + aborts
       /\ sent[n] <= 1 + aborts
  /\ \A n \in wrote[p] : view[p][n].status # "absent" /\ Accounted(view[p][n], n)
  /\ pc[p] = "write" /\ ~ok[p] => sent[cur[p]] <= aborts

Serial ==
  /\ IInv
  /\ \A n \in Notes : rows[n].status = "absent" => rows[n].retry = 0
  /\ \A n \in Notes : Untouched(n) => Accounted(rows[n], n)
  /\ \A p \in Passes : PassFits(p)
LEMMA Numbers ==
  ASSUME IInv, NEW n \in Notes
  PROVE  /\ rows[n] \in Row /\ rows[n].retry \in Nat /\ attempts[n] \in Nat /\ sent[n] \in Nat /\ aborts \in Nat
         /\ \A p \in Passes : view[p][n] \in Row /\ view[p][n].retry \in Nat
BY NotificationsAssumption DEF IInv, TypeOK, Row

\* While a pass is at work the others hold nothing.
LEMMA Alone ==
  ASSUME Serial, OneAtATime, NEW p \in Passes, pc[p] # "idle"
  PROVE  /\ \A q \in Passes \ {p} : pc[q] = "idle" /\ todo[q] = {} /\ wrote[q] = {} /\ Called(q) = {}
         /\ \A n \in Notes : n \notin Called(p) => Accounted(rows[n], n)
<1>1. \A q \in Passes \ {p} : pc[q] = "idle" /\ todo[q] = {} /\ wrote[q] = {} /\ Called(q) = {}
  BY DEF OneAtATime, Serial, PassFits, Called
<1> QED BY <1>1 DEF Serial, Untouched

LEMMA IdleFits ==
  ASSUME NEW q \in Passes, pc[q] = "idle", todo[q] = {}, wrote[q] = {}
  PROVE  PassFits(q) /\ Called(q) = {}
BY DEF PassFits, Called

LEMMA SerialStart == Init => Serial
<1> SUFFICES ASSUME Init PROVE Serial OBVIOUS
<1>1. IInv
  BY InitIInv
<1>2. \A n \in Notes : rows[n].retry = 0 /\ Accounted(rows[n], n)
  BY DEF Init, NoRows, Absent, Accounted, Extra
<1>3. \A p \in Passes : PassFits(p)
  BY IdleFits DEF Init
<1> QED BY <1>1, <1>2, <1>3 DEF Serial

LEMMA NotifySerial ==
  ASSUME Serial, IInv', NEW a \in Accounts, NEW k \in Keys, Notify(a, k)
  PROVE  Serial'
<1> USE DEF Notify, passVars
<1>1. \A n \in Notes : \/ rows'[n] = rows[n]
                       \/ rows[n].status = "absent" /\ rows'[n].status = "pending" /\ rows'[n].retry = 0
  OBVIOUS
<1>2. \A n \in Notes : rows'[n].status = "absent" => rows'[n].retry = 0
  BY <1>1 DEF Serial
<1>3. \A n \in Notes : Untouched(n)' => Accounted(rows[n], n)'
  <2> SUFFICES ASSUME NEW n \in Notes, Untouched(n) PROVE Accounted(rows[n], n)'
    BY DEF Untouched, Called
  <2>1. Accounted(rows[n], n) /\ (rows[n].status = "absent" => rows[n].retry = 0)
    BY DEF Serial
  <2>2. CASE rows'[n] = rows[n]
    BY <2>1, <2>2 DEF Accounted, Extra
  <2>3. CASE rows'[n] # rows[n]
    BY <1>1, <2>1, <2>3, NotificationsAssumption DEF Accounted, Extra
  <2> QED BY <2>2, <2>3
<1>4. ASSUME NEW p \in Passes PROVE PassFits(p)'
  <2>1. PassFits(p) /\ \A n \in todo[p] : view[p][n].status = "pending"
    BY DEF Serial, IInv, WorkInHand
  <2>2. todo[p] \subseteq Notes /\ Called(p) \subseteq Notes
    BY DEF Serial, IInv, TypeOK, Called
  <2>3. \A n \in todo[p] \union Called(p) : rows'[n] = rows[n]
    BY <1>1, <2>1, <2>2 DEF PassFits
  <2> QED BY <2>1, <2>3 DEF PassFits, Called, Accounted, Extra
<1> QED BY <1>2, <1>3, <1>4 DEF Serial

LEMMA BeginPassSerial ==
  ASSUME Serial, IInv', NEW p \in Passes, BeginPass(p)
  PROVE  Serial'
<1> USE DEF BeginPass
<1>0. PassFits(p) /\ todo[p] = {} /\ wrote[p] = {} /\ Called(p) = {}
  BY DEF Serial, PassFits, Called
<1>1. PICK S \in SUBSET Notes :
        /\ todo' = [todo EXCEPT ![p] = S]
        /\ view' = [view EXCEPT ![p] = [n \in Notes |-> IF n \in S THEN rows[n] ELSE Absent]]
  OBVIOUS
<1>2. /\ pc'[p] = "next" /\ todo'[p] = S /\ \A n \in S : view'[p][n] = rows[n]
      /\ \A q \in Passes \ {p} : pc'[q] = pc[q] /\ todo'[q] = todo[q] /\ view'[q] = view[q]
  BY <1>1 DEF Serial, IInv, TypeOK
<1>3. \A q \in Passes : Called(q)' = Called(q)
  BY <1>0, <1>2 DEF Called
<1>4. \A n \in Notes : Untouched(n)' => Accounted(rows[n], n)'
  BY <1>3 DEF Serial, Untouched, Accounted, Extra
<1>5. PassFits(p)'
  BY <1>0, <1>2, <1>3 DEF PassFits
<1>6. ASSUME NEW q \in Passes \ {p} PROVE PassFits(q)'
  BY <1>2, <1>3 DEF Serial, PassFits, Accounted, Extra
<1> QED BY <1>4, <1>5, <1>6 DEF Serial

LEMMA SendSerial ==
  ASSUME Serial, OneAtATime, IInv', NEW p \in Passes, NEW n \in Notes, NEW delivered \in BOOLEAN,
         Send(p, n, delivered)
  PROVE  Serial'
<1> USE DEF Send
<1>0. IInv /\ PassFits(p) /\ Called(p) = wrote[p] /\ n \notin Called(p)
  BY DEF Serial, PassFits, Called
<1>1. Accounted(rows[n], n) /\ rows[n].status = "pending"
  BY <1>0, Alone DEF PassFits, IInv, WorkInHand
<1>2. /\ pc'[p] = "write" /\ cur'[p] = n /\ ok'[p] = delivered
      /\ \A q \in Passes \ {p} : pc'[q] = pc[q] /\ cur'[q] = cur[q] /\ ok'[q] = ok[q]
      /\ attempts'[n] = attempts[n] + 1 /\ sent'[n] = (IF delivered THEN sent[n] + 1 ELSE sent[n])
      /\ \A m \in Notes \ {n} : attempts'[m] = attempts[m] /\ sent'[m] = sent[m]
  BY <1>0 DEF IInv, TypeOK
<1>3. Called(p)' = Called(p) \union {n}
  BY <1>0, <1>2 DEF Called
<1>4. attempts'[n] <= rows[n].retry + 1 + aborts /\ sent'[n] <= 1 + aborts /\ (~delivered => sent'[n] <= aborts)
  BY <1>0, <1>1, <1>2, Numbers DEF Accounted, Extra
<1>5. ASSUME NEW m \in Notes, Untouched(m)' PROVE Accounted(rows[m], m)'
  <2>1. m # n /\ m \notin Called(p)
    BY <1>3, <1>5 DEF Untouched
  <2> QED BY <1>2, <2>1, Alone DEF Accounted, Extra
<1>6. PassFits(p)'
  <2>1. \A m \in Called(p)' : /\ rows[m].status = "pending"
                               /\ attempts'[m] <= rows[m].retry + 1 + aborts
                               /\ sent'[m] <= 1 + aborts
    BY <1>0, <1>1, <1>2, <1>3, <1>4 DEF PassFits, Called
  <2>2. \A m \in wrote[p] : view[p][m].status # "absent" /\ Accounted(view[p][m], m)'
    BY <1>0, <1>2 DEF PassFits, Accounted, Extra, Called
  <2> QED BY <1>0, <1>2, <1>4, <2>1, <2>2 DEF PassFits
<1>7. ASSUME NEW q \in Passes \ {p} PROVE PassFits(q)'
  <2>1. pc'[q] = "idle" /\ todo'[q] = {} /\ wrote'[q] = {}
    BY <1>2, Alone
  <2> QED BY <2>1 DEF PassFits, Called
<1> QED BY <1>5, <1>6, <1>7 DEF Serial

LEMMA WriteSerial ==
  ASSUME Serial, OneAtATime, IInv', NEW p \in Passes, Write(p)
  PROVE  Serial'
<1> USE DEF Write
<1> DEFINE n == cur[p]
           upd == Settled(view[p][n], ok[p])
<1>0. IInv /\ PassFits(p) /\ n \in todo[p] /\ n \in Notes /\ ok[p] \in BOOLEAN
  BY DEF Serial, IInv, TypeOK, WorkInHand
<1>1. n \in Called(p) /\ view[p][n] = rows[n] /\ rows[n].status = "pending" /\ rows[n].retry < MaxRetries
  BY <1>0 DEF PassFits, Called, IInv, RowsEarned, Earned
<1>2. /\ upd.status # "absent"
      /\ ok[p] => upd.status = "delivered" /\ upd.retry = rows[n].retry
      /\ ~ok[p] => upd.status \in {"pending", "failed"} /\ upd.retry = rows[n].retry + 1
  BY <1>0, <1>1, Numbers DEF Settled, Row
<1>3. Accounted(upd, n)
  BY <1>0, <1>1, <1>2, Numbers DEF PassFits, Accounted, Extra
<1>4. /\ pc'[p] = "next" /\ todo'[p] = todo[p] \ {n} /\ wrote'[p] = wrote[p] \union {n} /\ view'[p][n] = upd
      /\ \A m \in Notes \ {n} : view'[p][m] = view[p][m]
      /\ \A q \in Passes \ {p} : pc'[q] = pc[q] /\ todo'[q] = todo[q] /\ wrote'[q] = wrote[q]
  BY <1>0 DEF IInv, TypeOK
<1>5. Called(p)' = Called(p)
  BY <1>0, <1>4 DEF Called
<1>6. ASSUME NEW m \in Notes, Untouched(m)' PROVE Accounted(rows[m], m)'
  <2>1. m \notin Called(p)
    BY <1>5, <1>6 DEF Untouched
  <2> QED BY <2>1, Alone DEF Accounted, Extra
<1>7. PassFits(p)'
  <2> HIDE DEF n, upd
  <2>1. \A m \in wrote'[p] : view'[p][m].status # "absent" /\ Accounted(view[p][m], m)'
    <3> SUFFICES ASSUME NEW m \in wrote'[p] PROVE view'[p][m].status # "absent" /\ Accounted(view[p][m], m)'
      OBVIOUS
    <3>1. CASE m = n
      BY <1>2, <1>3, <1>4, <3>1 DEF Accounted, Extra
    <3>2. CASE m # n
      <4>1. m \in wrote[p] /\ m \in Notes
        BY <1>0, <1>4, <3>2 DEF IInv, TypeOK
      <4> QED BY <1>0, <1>4, <3>2, <4>1 DEF PassFits, Accounted, Extra
    <3> QED BY <3>1, <3>2
  <2>2. \A m \in todo'[p] : view'[p][m] = rows'[m] /\ m \notin wrote'[p]
    BY <1>0, <1>4 DEF PassFits, IInv, TypeOK
  <2> QED BY <1>0, <1>4, <1>5, <2>1, <2>2 DEF PassFits
<1>8. ASSUME NEW q \in Passes \ {p} PROVE PassFits(q)'
  <2>1. pc'[q] = "idle" /\ todo'[q] = {} /\ wrote'[q] = {}
    BY <1>4, Alone
  <2> QED BY <2>1 DEF PassFits, Called
<1> QED BY <1>6, <1>7, <1>8 DEF Serial

LEMMA CommitSerial ==
  ASSUME Serial, OneAtATime, IInv', NEW p \in Passes, Commit(p)
  PROVE  Serial'
<1> USE DEF Commit
<1>0. IInv /\ PassFits(p) /\ Called(p) = wrote[p]
  BY DEF Serial, Called
<1>1. \A n \in Notes : /\ Accounted(rows'[n], n)
                       /\ rows'[n].status = "absent" => rows'[n].retry = 0
  BY <1>0, Alone DEF Serial, PassFits
<1>2. \A q \in Passes : pc'[q] = "idle" /\ todo'[q] = {} /\ wrote'[q] = {}
  BY <1>0, Alone DEF IInv, TypeOK
<1>3. \A q \in Passes : PassFits(q)'
  BY <1>2 DEF PassFits, Called
<1>4. \A n \in Notes : Accounted(rows[n], n)'
  BY <1>1 DEF Accounted, Extra
<1> QED BY <1>1, <1>3, <1>4 DEF Serial

\* An abort pays for the calls whose record is rolled back.
LEMMA RollbackSerial ==
  ASSUME Serial, IInv', NEW P \in SUBSET Passes, Rollback(P), aborts' = aborts + 1
  PROVE  Serial'
<1> USE DEF Rollback
<1>0. IInv
  BY DEF Serial
<1>1. \A q \in Passes : /\ q \in P => pc'[q] = "idle" /\ todo'[q] = {} /\ wrote'[q] = {}
                        /\ q \notin P => /\ pc'[q] = pc[q] /\ todo'[q] = todo[q] /\ wrote'[q] = wrote[q]
                                         /\ view'[q] = view[q] /\ cur'[q] = cur[q] /\ ok'[q] = ok[q]
  BY <1>0 DEF IInv, TypeOK
<1>2. \A q \in Passes : Called(q)' = IF q \in P THEN {} ELSE Called(q)
  BY <1>1 DEF Called
<1>3. ASSUME NEW n \in Notes, Untouched(n)' PROVE Accounted(rows[n], n)'
  <2>1. CASE Untouched(n)
    BY <2>1, <1>0, Numbers DEF Serial, Accounted, Extra
  <2>2. CASE ~Untouched(n)
    <3>1. PICK q \in Passes : n \in Called(q)
      BY <2>2 DEF Untouched
    <3>2. rows[n].status = "pending" /\ attempts[n] <= rows[n].retry + 1 + aborts /\ sent[n] <= 1 + aborts
      BY <3>1 DEF Serial, PassFits
    <3> QED BY <1>0, <3>2, Numbers DEF Accounted, Extra
  <2> QED BY <2>1, <2>2
<1>4. ASSUME NEW q \in Passes PROVE PassFits(q)'
  <2>1. CASE q \in P
    BY <1>1, <1>2, <2>1 DEF PassFits
  <2>2. CASE q \notin P
    <3>0. PassFits(q) /\ wrote[q] \subseteq Notes /\ Called(q) \subseteq Notes
          /\ (pc[q] = "write" => cur[q] \in Notes)
      BY <1>0 DEF Serial, IInv, TypeOK, WorkInHand, Called
    <3>1. \A n \in Called(q) : attempts[n] <= rows[n].retry + 1 + (aborts + 1) /\ sent[n] <= 1 + (aborts + 1)
      BY <1>0, <3>0, Numbers DEF PassFits
    <3>2. \A n \in wrote[q] : Accounted(view[q][n], n)'
      BY <1>0, <1>1, <2>2, <3>0, Numbers DEF PassFits, Accounted, Extra
    <3>3. pc[q] = "write" /\ ~ok[q] => sent[cur[q]] <= aborts + 1
      BY <1>0, <3>0, Numbers DEF PassFits
    <3> QED BY <1>1, <1>2, <2>2, <3>0, <3>1, <3>2, <3>3 DEF PassFits
  <2> QED BY <2>1, <2>2
<1> QED BY <1>3, <1>4 DEF Serial

LEMMA NextSerial == Serial /\ OneAtATime /\ [Next]_vars => Serial'
<1> SUFFICES ASSUME Serial, OneAtATime, [Next]_vars PROVE Serial'
  OBVIOUS
<1>0. IInv'
  BY NextIInv DEF Serial
<1>1. CASE UNCHANGED <<rows, passVars, sent, attempts, aborts>>
  <2>1. \A p \in Passes : Called(p)' = Called(p)
    BY <1>1 DEF Called, passVars
  <2>2. \A n \in Notes : Untouched(n)' => Accounted(rows[n], n)'
    BY <1>1, <2>1 DEF Serial, Untouched, Accounted
  <2>3. \A p \in Passes : PassFits(p)'
    BY <1>1, <2>1 DEF Serial, PassFits, Accounted, passVars
  <2> QED BY <1>0, <1>1, <2>2, <2>3 DEF Serial
<1>2. ASSUME NEW a \in Accounts, NEW k \in Keys, Notify(a, k) PROVE Serial'
  BY <1>0, <1>2, NotifySerial
<1>3. ASSUME NEW p \in Passes, PassStep(p) PROVE Serial'
  <2>1. CASE DeadlockAbort(p)
    BY <1>0, <2>1, RollbackSerial DEF DeadlockAbort
  <2> QED BY <1>0, <1>3, <2>1, BeginPassSerial, SendSerial, WriteSerial, CommitSerial DEF PassStep
<1>4. ASSUME NEW p \in Passes, AbortPass(p) PROVE Serial'
  BY <1>0, <1>4, RollbackSerial DEF AbortPass
<1>5. CASE Crash
  BY <1>0, <1>5, RollbackSerial DEF Crash
<1>6. CASE \E a \in Accounts, c \in Channels, v \in {"on", "off"} : SetPref(a, c, v)
  BY <1>1, <1>6 DEF SetPref
<1>7. CASE UNCHANGED vars
  BY <1>1, <1>7 DEF vars, passVars
<1> QED BY <1>2, <1>3, <1>4, <1>5, <1>6, <1>7 DEF Next

LEMMA SerialAlways == Spec /\ []OneAtATime => []Serial
<1>1. Init => Serial
  BY SerialStart
<1>2. Serial /\ OneAtATime /\ [Next]_vars => Serial'
  BY NextSerial
<1> QED BY <1>1, <1>2, PTL DEF Spec

\* ID3, REQ 12.3: as long as no two passes are in progress at once, a recipient gets a
\* notification once, and the provider is called MaxRetries times at most, but for one
\* more per pass that was rolled back (processPendingNotifications).
THEOREM DuplicatesArePaidFor == Spec /\ []OneAtATime => []DuplicatesNeedRollback
<1>1. ASSUME Serial, NEW n \in Notes PROVE sent[n] <= 1 + aborts /\ attempts[n] <= MaxRetries + aborts
  <2>0. IInv /\ (rows[n].status = "pending" => rows[n].retry < MaxRetries) /\ rows[n].retry <= MaxRetries
    BY <1>1, NotificationsAssumption DEF Serial, IInv, TypeOK, Row, RowsEarned, Earned
  <2>1. CASE Untouched(n)
    BY <1>1, <2>0, <2>1, Numbers, NotificationsAssumption DEF Serial, Accounted, Extra
  <2>2. CASE ~Untouched(n)
    <3>1. PICK p \in Passes : n \in Called(p)
      BY <2>2 DEF Untouched
    <3>2. rows[n].status = "pending" /\ attempts[n] <= rows[n].retry + 1 + aborts /\ sent[n] <= 1 + aborts
      BY <1>1, <3>1 DEF Serial, PassFits
    <3> QED BY <2>0, <3>2, Numbers, NotificationsAssumption
  <2> QED BY <2>1, <2>2
<1>2. Serial => DuplicatesNeedRollback
  BY <1>1 DEF DuplicatesNeedRollback
<1> QED BY <1>2, SerialAlways, PTL

\* ID3 (delivery.ts:22): and a settled notification is neither sent again nor changed.
THEOREM SettledIsFinal == Spec /\ []OneAtATime => SettledForGood
<1> DEFINE Final == \A n \in Notes : rows[n].status \in {"delivered", "failed"} =>
                                       rows'[n] = rows[n] /\ attempts'[n] = attempts[n]
<1>1. ASSUME Serial, Next PROVE Final
  <2> SUFFICES ASSUME NEW n \in Notes, rows[n].status \in {"delivered", "failed"}
               PROVE  rows'[n] = rows[n] /\ attempts'[n] = attempts[n]
    OBVIOUS
  <2>1. ASSUME NEW p \in Passes, NEW m \in Notes, NEW d \in BOOLEAN, Send(p, m, d)
        PROVE  m # n
    <3>1. view[p][m] = rows[m] /\ view[p][m].status = "pending"
      BY <1>1, <2>1 DEF Send, Serial, PassFits, IInv, WorkInHand
    <3> QED BY <3>1
  <2>2. ASSUME NEW p \in Passes, Commit(p) PROVE rows'[n] = rows[n]
    <3>1. n \notin wrote[p]
      BY <1>1 DEF Serial, PassFits, Called
    <3> QED BY <2>2, <3>1 DEF Commit
  <2>3. ASSUME NEW a \in Accounts, NEW k \in Keys, Notify(a, k) PROVE rows'[n] = rows[n]
    BY <2>3 DEF Notify
  <2>4. rows' = rows \/ (\E p \in Passes : Commit(p)) \/ \E a \in Accounts, k \in Keys : Notify(a, k)
    BY <1>1 DEF Next, SetPref, PassStep, BeginPass, Send, Write, DeadlockAbort, AbortPass, Crash, Rollback
  <2>5. attempts' = attempts \/ \E p \in Passes, m \in Notes, d \in BOOLEAN : Send(p, m, d)
    BY <1>1 DEF Next, SetPref, Notify, PassStep, BeginPass, Write, Commit, DeadlockAbort, AbortPass, Crash,
                Rollback
  <2>6. rows'[n] = rows[n]
    BY <2>2, <2>3, <2>4
  <2>7. attempts'[n] = attempts[n]
    <3>1. CASE \E p \in Passes, m \in Notes, d \in BOOLEAN : Send(p, m, d)
      <4>1. PICK p \in Passes, m \in Notes, d \in BOOLEAN : Send(p, m, d)
        BY <3>1
      <4>2. m # n /\ attempts' = [attempts EXCEPT ![m] = @ + 1]
        BY <2>1, <4>1 DEF Send
      <4> QED BY <1>1, <4>2 DEF Serial, IInv, TypeOK
    <3> QED BY <2>5, <3>1
  <2> QED BY <2>6, <2>7
<1>2. Serial /\ [Next]_vars => [Final]_vars
  BY <1>1
<1> QED BY <1>2, SerialAlways, PTL DEF Spec, SettledForGood
-----------------------------------------------------------------------------
(* The delivery contract. *)

\* What the contract sees of the log.
Log == [n \in Notes |-> rows[n].status]

LEMMA EnqueuesAsPromised ==
  ASSUME NEW a \in Accounts, NEW k \in Keys, Notify(a, k)
  PROVE  Contract!Next
<1>1. PICK New \in SUBSET Notes : New = {n \in Notes : rows[n].status = "absent" /\ rows'[n].status = "pending"}
  OBVIOUS
<1>2. \A n \in Notes : rows'[n].status = IF n \in New THEN "pending" ELSE rows[n].status
  BY <1>1 DEF Notify
<1>3. Log' = [n \in Notes |-> IF n \in New THEN "pending" ELSE Log[n]]
  BY <1>2 DEF Log
<1>4. Contract!Enqueue(New)
  BY <1>1, <1>3 DEF Log, Notify, Contract!Enqueue
<1> QED BY <1>4 DEF Contract!Next

\* A pass that works alone tries what is pending, and has not spent its tries on it.
LEMMA TriesAsPromised ==
  ASSUME Serial, OneAtATime, NEW p \in Passes, NEW n \in Notes, NEW delivered \in BOOLEAN,
         Send(p, n, delivered)
  PROVE  Contract!Next
<1>0. IInv /\ PassFits(p) /\ n \notin Called(p)
  BY DEF Serial, PassFits, Called, Send
<1>1. rows[n].status = "pending" /\ rows[n].retry < MaxRetries /\ Accounted(rows[n], n)
  BY <1>0, Alone DEF PassFits, IInv, WorkInHand, RowsEarned, Earned, Send
<1>2. sent[n] <= aborts /\ attempts[n] < MaxRetries + aborts
  BY <1>0, <1>1, Numbers, NotificationsAssumption DEF Accounted, Extra
<1>3. Log' = Log /\ Log[n] = "pending"
  BY <1>1 DEF Log, Send
<1>4. sent' = IF delivered THEN [sent EXCEPT ![n] = @ + 1] ELSE sent
  BY <1>0 DEF IInv, TypeOK, Send
<1>5. Contract!Try(n, delivered)
  BY <1>2, <1>3, <1>4 DEF Log, Send, Contract!Try
<1> QED BY <1>5 DEF Contract!Next

\* What it commits it has found pending, and earned.
LEMMA SettlesAsPromised ==
  ASSUME Serial, OneAtATime, NEW p \in Passes, Commit(p)
  PROVE  Contract!Next
<1>0. IInv /\ PassFits(p) /\ wrote[p] \subseteq Called(p) /\ wrote[p] \subseteq Notes
  BY DEF Serial, IInv, TypeOK, Called
<1>1. PICK Good \in SUBSET Notes : Good = {n \in wrote[p] : view[p][n].status = "delivered"}
  BY <1>0
<1>2. PICK Bad \in SUBSET Notes : Bad = {n \in wrote[p] : view[p][n].status = "failed"}
  BY <1>0
<1>3. \A n \in wrote[p] : rows[n].status = "pending" /\ view[p][n].status \in {"pending", "delivered", "failed"}
  BY <1>0, Numbers DEF PassFits, Row
<1>4. (\A n \in Good : sent[n] > 0) /\ \A n \in Bad : attempts[n] >= MaxRetries
  <2>1. \A n \in wrote[p] : Earned(view[p][n], n)
    BY <1>0 DEF IInv, ViewsEarned
  <2> QED BY <1>0, <1>1, <1>2, <2>1, Numbers, NotificationsAssumption DEF Earned
<1>5. Log' = [n \in Notes |-> IF n \in Good THEN "delivered" ELSE IF n \in Bad THEN "failed" ELSE Log[n]]
  <2>1. \A n \in Notes : rows'[n].status =
          IF n \in Good THEN "delivered" ELSE IF n \in Bad THEN "failed" ELSE rows[n].status
    BY <1>1, <1>2, <1>3 DEF Commit
  <2> QED BY <2>1 DEF Log
<1>6. \A n \in Good \union Bad : Log[n] = "pending"
  BY <1>0, <1>1, <1>2, <1>3 DEF Log
<1>7. Contract!Settle(Good, Bad)
  BY <1>4, <1>5, <1>6 DEF Log, Commit, Contract!Settle
<1> QED BY <1>7 DEF Contract!Next

\* REQ 12.3, ID3: passes that do not overlap, of processPendingNotifications, keep the
\* delivery contract of notifyAccount: delivery at least once or MaxRetries tries, a
\* final outcome, and a repetition only for a pass that was rolled back.
THEOREM KeepsDeliveryContract == Spec /\ []OneAtATime => DeliversAsPromised
<1>1. Init => Contract!Init
  BY DEF Init, NoRows, Absent, Contract!Init
<1>2. Serial /\ OneAtATime /\ [Next]_vars => [Contract!Next]_(Contract!vars)
  <2> SUFFICES ASSUME Serial, OneAtATime, [Next]_vars PROVE Contract!Next \/ UNCHANGED Contract!vars
    OBVIOUS
  <2>1. ASSUME NEW P \in SUBSET Passes, Rollback(P), aborts' = aborts + 1 PROVE Contract!Next
    <3>1. Contract!Lose
      BY <2>1 DEF Rollback, Contract!Lose
    <3> QED BY <3>1 DEF Contract!Next
  <2>2. ASSUME NEW p \in Passes, PassStep(p) \/ AbortPass(p) PROVE Contract!Next \/ UNCHANGED Contract!vars
    <3>1. CASE BeginPass(p) \/ Write(p)
      BY <3>1 DEF BeginPass, Write, Contract!vars
    <3>2. CASE DeadlockAbort(p) \/ AbortPass(p)
      BY <2>1, <3>2 DEF DeadlockAbort, AbortPass
    <3> QED BY <2>2, <3>1, <3>2, TriesAsPromised, SettlesAsPromised DEF PassStep
  <2>3. CASE Crash
    BY <2>1, <2>3 DEF Crash
  <2>4. CASE (\E a \in Accounts, c \in Channels, v \in {"on", "off"} : SetPref(a, c, v)) \/ UNCHANGED vars
    BY <2>4 DEF SetPref, vars, passVars, Contract!vars
  <2> QED BY <2>2, <2>3, <2>4, EnqueuesAsPromised DEF Next
<1> QED BY <1>1, <1>2, SerialAlways, PTL DEF Spec, DeliversAsPromised, Contract!Spec
=============================================================================
