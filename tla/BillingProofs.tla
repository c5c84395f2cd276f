--------------------------- MODULE BillingProofs ---------------------------
(***************************************************************************)
(* Proofs about Billing, for any tiers, caps, retries, periods, requests   *)
(* and failures.  That the account mirrors its subscription and that a     *)
(* region list fits a tier holds however runs overlap; the properties of   *)
(* the money hold until two runs have been in progress at once, as such    *)
(* runs count one refused charge twice.                                    *)
(***************************************************************************)
EXTENDS Billing, FiniteSetTheorems, TLAPS

Status == {"active", "past_due", "read_only"}
Glimpse == [tier : Tiers, retry : 0..MaxRetryCount, end : 0..MaxTime + Period, period : Periods]
Run == [pc : {"idle", "read", "charge", "record"}, job : BOOLEAN, at : 0..MaxTime,
        paid : BOOLEAN, sub : Glimpse]
Outcome == [tier : Tiers \union {NoTier}, captured : BOOLEAN]
Half == [op : {"setPending", "filter"}, tier : Tiers, count : Nat]

\* A filter request was checked against the tier it remembers.
FiltersFit == \A f \in inflight : f.op = "filter" => f.count <= MaxRegions[f.tier]

\* A restricted subscription has used up its retries: a failure that is recorded
\* later does not lift the restriction of one row and leave the other's.
RestrictedAtCap == sub.status = "read_only" => sub.retry >= MaxRetries

\* What holds however runs overlap.
AnyRuns == TypeOK /\ AccountMirrorsSubscription /\ FiltersFit /\ RestrictedAtCap

-----------------------------------------------------------------------------
(* Types. *)

LEMMA Constants ==
  /\ MaxTime \in Nat /\ Period \in Nat /\ MaxPeriods \in Nat /\ MaxRetryCount \in Nat
  /\ Basic \in Tiers /\ NoTier \notin Tiers /\ MaxRegions \in [Tiers -> Nat]
  /\ Counts \subseteq Nat /\ MaxRetries \in Nat /\ MaxRetries # 0
BY BillingAssumption DEF BillingAssumption

LEMMA IdleRun == NoSub \in Sub /\ Seen(NoSub) \in Glimpse /\ Idle \in Run
<1>1. NoSub \in Sub
  BY Constants DEF NoSub, Sub, Periods
<1>2. Seen(NoSub) \in Glimpse
  BY Constants DEF NoSub, Seen, Glimpse, Periods
<1>3. Idle \in Run
  BY <1>2, Constants DEF Idle, Run
<1> QED BY <1>1, <1>2, <1>3

LEMMA KeyOfRun ==
  ASSUME NEW run \in Run
  PROVE  ChargeKey(run) \in Keys
BY DEF Run, Glimpse, ChargeKey, Keys

LEMMA TypeStart == Init => AnyRuns
<1> SUFFICES ASSUME Init PROVE AnyRuns OBVIOUS
<1> USE DEF Init
<1>1. TypeOK
  <2>1. now \in 0..MaxTime /\ acct \in [tier : Tiers, status : {"active", "read_only"}] /\ regions \in Nat
    BY Constants
  <2>2. sub \in Sub /\ runs \in [Runs -> Run]
    BY IdleRun
  <2>3. ledger \in [Keys -> Outcome] /\ payments \in [Periods -> Nat]
    BY DEF NoCharge, Outcome
  <2> QED BY <2>1, <2>2, <2>3 DEF TypeOK, Run, Glimpse, Outcome
<1>2. AccountMirrorsSubscription /\ FiltersFit /\ RestrictedAtCap
  BY DEF AccountMirrorsSubscription, FiltersFit, RestrictedAtCap, NoSub
<1> QED BY <1>1, <1>2 DEF AnyRuns

\* The types, one part at a time.
LEMMA Types ==
  TypeOK <=>
    /\ now \in 0..MaxTime
    /\ sub \in Sub
    /\ acct \in [tier : Tiers, status : {"active", "read_only"}]
    /\ regions \in Nat
    /\ inflight \subseteq Half
    /\ runs \in [Runs -> Run]
    /\ ledger \in [Keys -> Outcome]
    /\ payments \in [Periods -> Nat]
    /\ notified \subseteq Periods \X Nat
    /\ faults \in Nat
    /\ lost \in Nat
    /\ anew \in Nat
BY DEF TypeOK, Half, Run, Glimpse, Outcome

LEMMA TypesNext ==
  ASSUME now' \in 0..MaxTime, sub' \in Sub,
         acct' \in [tier : Tiers, status : {"active", "read_only"}],
         regions' \in Nat, inflight' \subseteq Half, runs' \in [Runs -> Run],
         ledger' \in [Keys -> Outcome], payments' \in [Periods -> Nat],
         notified' \subseteq Periods \X Nat, faults' \in Nat, lost' \in Nat, anew' \in Nat
  PROVE  TypeOK'
BY DEF TypeOK, Half, Run, Glimpse, Outcome

-----------------------------------------------------------------------------
(* However runs overlap: the owner's requests. *)

LEMMA SubscribeAny ==
  ASSUME AnyRuns, NEW t \in Tiers, Subscribe(t)
  PROVE  AnyRuns'
<1> USE DEF Subscribe, userVars, moneyVars
<1>1. sub' \in Sub /\ sub'.tier = t /\ sub'.status = "active"
  <2>1. CASE sub.exists
    BY <2>1, Types DEF AnyRuns, Sub
  <2>2. CASE ~sub.exists
    <3>1. now + Period \in 0..MaxTime + Period
      BY Types, Constants DEF AnyRuns
    <3> QED BY <2>2, <3>1, IdleRun DEF Sub, NoSub
  <2> QED BY <2>1, <2>2
<1>2. TypeOK'
  BY <1>1, Types, TypesNext DEF AnyRuns
<1>3. AccountMirrorsSubscription' /\ FiltersFit' /\ RestrictedAtCap'
  BY <1>1 DEF AnyRuns, AccountMirrorsSubscription, FiltersFit, RestrictedAtCap
<1> QED BY <1>2, <1>3 DEF AnyRuns

LEMMA RequestAny ==
  ASSUME AnyRuns, NEW t \in Tiers, NEW n \in Nat,
         ChangeTierCheck(t) \/ SelectRegions(t, n) \/ FilterCheck(n)
  PROVE  AnyRuns'
<1> USE DEF moneyVars
<1>1. UNCHANGED <<now, sub, acct, runs, ledger, payments, lost, notified, faults, anew>>
  BY DEF ChangeTierCheck, SelectRegions, FilterCheck
<1>2. regions' \in Nat
  BY Types, Constants DEF AnyRuns, ChangeTierCheck, SelectRegions, FilterCheck
<1>3. inflight' \subseteq Half
  BY Types, Constants DEF AnyRuns, ChangeTierCheck, SelectRegions, FilterCheck, Half
<1>4. TypeOK'
  BY <1>1, <1>2, <1>3, Types, TypesNext DEF AnyRuns
<1>5. FiltersFit'
  BY DEF AnyRuns, FiltersFit, ChangeTierCheck, SelectRegions, FilterCheck
<1> QED BY <1>1, <1>4, <1>5 DEF AnyRuns, AccountMirrorsSubscription, RestrictedAtCap

LEMMA SecondHalfAny ==
  ASSUME AnyRuns, NEW f \in inflight, SetPending(f) \/ FilterWrite(f)
  PROVE  AnyRuns'
<1> USE DEF moneyVars
<1>0. f \in Half
  BY Types DEF AnyRuns
<1>1. UNCHANGED <<now, acct, runs, ledger, payments, lost, notified, faults, anew>> /\ inflight' \subseteq inflight
  BY DEF SetPending, FilterWrite
<1>2. sub' \in Sub /\ sub'.exists = sub.exists /\ sub'.tier = sub.tier /\ sub'.status = sub.status
     /\ sub'.retry = sub.retry
  BY <1>0, Types DEF AnyRuns, SetPending, FilterWrite, Sub, Half
<1>3. regions' \in Nat
  BY <1>0, Types DEF AnyRuns, SetPending, FilterWrite, Half
<1>4. TypeOK'
  BY <1>1, <1>2, <1>3, Types, TypesNext DEF AnyRuns
<1>5. FiltersFit'
  BY <1>1 DEF AnyRuns, FiltersFit
<1> QED BY <1>1, <1>2, <1>4, <1>5 DEF AnyRuns, AccountMirrorsSubscription, RestrictedAtCap

-----------------------------------------------------------------------------
(* However runs overlap: the runs. *)

\* A step that changes the runs at most, and the counters of what went wrong.
LEMMA RunsOnly ==
  ASSUME AnyRuns, runs' \in [Runs -> Run], inflight' \subseteq inflight, now' \in 0..MaxTime,
         faults' \in Nat, UNCHANGED <<sub, acct, regions, ledger, payments, lost, notified, anew>>
  PROVE  AnyRuns'
<1>1. TypeOK'
  BY Types, TypesNext DEF AnyRuns
<1> QED BY <1>1 DEF AnyRuns, AccountMirrorsSubscription, FiltersFit, RestrictedAtCap

LEMMA OneRun ==
  ASSUME AnyRuns, NEW r \in Runs, NEW run \in Run, runs' = [runs EXCEPT ![r] = run]
  PROVE  runs' \in [Runs -> Run] /\ runs'[r] = run
BY Types DEF AnyRuns

LEMMA BeginAny ==
  ASSUME AnyRuns, NEW r \in Runs, JobList(r) \/ Pay(r)
  PROVE  AnyRuns'
<1> USE DEF userVars, moneyVars
<1>1. runs' \in [Runs -> Run]
  <2>1. now \in 0..MaxTime
    BY Types DEF AnyRuns
  <2>2. [Idle EXCEPT !.pc = "read", !.job = TRUE, !.at = now, !.sub = Seen(sub)] \in Run
    <3>1. Seen(sub) \in Glimpse
      BY Types DEF AnyRuns, Seen, Sub, Glimpse
    <3> QED BY <2>1, <3>1, IdleRun DEF Run
  <2>3. [Idle EXCEPT !.pc = "read", !.at = now] \in Run
    BY <2>1, IdleRun DEF Run
  <2> QED BY <2>2, <2>3, OneRun DEF JobList, Pay
<1>2. UNCHANGED <<now, sub, acct, regions, inflight, ledger, payments, lost, notified, faults, anew>>
  BY DEF JobList, Pay
<1> QED BY <1>1, <1>2, RunsOnly, Types DEF AnyRuns

LEMMA ReadSubAny ==
  ASSUME AnyRuns, NEW r \in Runs, ReadSub(r)
  PROVE  AnyRuns'
<1> USE DEF ReadSub, userVars, moneyVars
<1>1. runs' \in [Runs -> Run]
  <2>1. runs[r] \in Run /\ Seen(sub) \in Glimpse
    BY Types DEF AnyRuns, Seen, Sub, Glimpse
  <2>2. runs' = [runs EXCEPT ![r] = [runs[r] EXCEPT !.pc = "charge", !.sub = Seen(sub)]]
    BY Types DEF AnyRuns
  <2>3. [runs[r] EXCEPT !.pc = "charge", !.sub = Seen(sub)] \in Run
    BY <2>1 DEF Run
  <2> QED BY <2>2, <2>3, OneRun
<1> QED BY <1>1, RunsOnly, Types DEF AnyRuns

LEMMA ChargeAny ==
  ASSUME AnyRuns, NEW r \in Runs, NEW accepted \in BOOLEAN, Charge(r, accepted)
  PROVE  AnyRuns'
<1> DEFINE k == ChargeKey(runs[r])
           new == ledger[k].tier = NoTier
<1> USE DEF userVars
<1>1. runs[r] \in Run /\ k \in Keys /\ runs[r].sub.period \in Periods /\ runs[r].sub.tier \in Tiers
  BY Types, KeyOfRun DEF AnyRuns, Run, Glimpse
<1>2. ledger' \in [Keys -> Outcome]
  BY <1>1, Types DEF AnyRuns, Charge, Outcome
<1>3. payments' \in [Periods -> Nat]
  BY <1>1, Types DEF AnyRuns, Charge
<1>4. runs' \in [Runs -> Run] /\ lost' \in Nat
  BY <1>1, Types DEF AnyRuns, Charge, Run
<1>5. UNCHANGED <<now, sub, acct, regions, inflight, notified, faults, anew>>
  BY DEF Charge
<1>6. TypeOK'
  BY <1>2, <1>3, <1>4, <1>5, Types, TypesNext DEF AnyRuns
<1> QED BY <1>5, <1>6 DEF AnyRuns, AccountMirrorsSubscription, FiltersFit, RestrictedAtCap

LEMMA RecordAny ==
  ASSUME AnyRuns, NEW r \in Runs, RecordSuccess(r) \/ RecordFailure(r)
  PROVE  AnyRuns'
<1> USE DEF userVars, moneyVars
<1>1. runs[r] \in Run /\ runs[r].sub.period \in Periods /\ runs[r].at \in 0..MaxTime
  BY Types DEF AnyRuns, Run, Glimpse
<1>2. runs' \in [Runs -> Run]
  BY IdleRun, OneRun DEF RecordSuccess, RecordFailure
<1>3. sub' \in Sub
  <2>0. sub \in Sub
    BY Types DEF AnyRuns
  <2>1. CASE RecordSuccess(r)
    <3>1. runs[r].at + Period \in 0..MaxTime + Period /\ sub.period + 1 \in Periods /\ 0 \in 0..MaxRetryCount
      BY <1>1, <2>0, <2>1, Constants DEF RecordSuccess, Sub, Periods
    <3> QED BY <2>0, <2>1, <3>1 DEF RecordSuccess, Sub
  <2>2. CASE RecordFailure(r)
    <3>1. sub.retry + 1 \in 0..MaxRetryCount
      BY <2>0, <2>2, Constants DEF RecordFailure, Sub
    <3> QED BY <2>0, <2>2, <3>1 DEF RecordFailure, Sub
  <2> QED BY <2>1, <2>2
<1>4. acct' \in [tier : Tiers, status : {"active", "read_only"}]
  BY Types DEF AnyRuns, RecordSuccess, RecordFailure, Sub
<1>5. notified' \subseteq Periods \X Nat
  BY <1>1, Types, Constants DEF AnyRuns, RecordSuccess, RecordFailure, Sub
<1>6. UNCHANGED <<now, regions, inflight, ledger, payments, lost, faults, anew>>
  BY DEF RecordSuccess, RecordFailure
<1>7. TypeOK'
  BY <1>2, <1>3, <1>4, <1>5, <1>6, Types, TypesNext DEF AnyRuns
<1>8. AccountMirrorsSubscription' /\ RestrictedAtCap'
  <2>0. sub \in Sub /\ acct \in [tier : Tiers, status : {"active", "read_only"}]
    BY Types DEF AnyRuns
  <2>1. CASE RecordSuccess(r)
    BY <2>0, <2>1 DEF AnyRuns, AccountMirrorsSubscription, RestrictedAtCap, RecordSuccess, Sub
  <2>2. CASE RecordFailure(r)
    <3> DEFINE capped == sub.retry + 1 >= MaxRetries
    <3>1. sub'.retry = sub.retry + 1 /\ sub'.status = (IF capped THEN "read_only" ELSE "past_due")
          /\ sub'.exists = sub.exists /\ sub'.tier = sub.tier
      BY <2>0, <2>2 DEF RecordFailure, Sub
    <3>2. acct'.tier = acct.tier /\ acct'.status = (IF capped THEN "read_only" ELSE acct.status)
      BY <2>0, <2>2 DEF RecordFailure
    <3>3. ~capped => sub.status # "read_only"
      BY <2>0, Constants DEF AnyRuns, RestrictedAtCap, Sub
    <3>4. RestrictedAtCap'
      BY <3>1 DEF RestrictedAtCap
    <3>5. AccountMirrorsSubscription'
      BY <3>1, <3>2, <3>3 DEF AnyRuns, AccountMirrorsSubscription
    <3> QED BY <3>4, <3>5
  <2> QED BY <2>1, <2>2
<1> QED BY <1>6, <1>7, <1>8 DEF AnyRuns, FiltersFit

LEMMA MishapAny ==
  ASSUME AnyRuns, (\E r \in Runs : FailRun(r)) \/ Crash \/ Tick
  PROVE  AnyRuns'
<1> USE DEF userVars, moneyVars
<1>1. runs' \in [Runs -> Run] /\ faults' \in Nat /\ now' \in 0..MaxTime
  BY IdleRun, Types, Constants DEF AnyRuns, FailRun, Crash, Tick
<1>2. inflight' \subseteq inflight /\ UNCHANGED <<sub, acct, regions, ledger, payments, lost, notified, anew>>
  BY DEF FailRun, Crash, Tick
<1> QED BY <1>1, <1>2, RunsOnly

LEMMA AnyStep == AnyRuns /\ [Next]_vars => AnyRuns'
<1> SUFFICES ASSUME AnyRuns, [Next]_vars PROVE AnyRuns' OBVIOUS
<1>1. CASE Request
  <2>1. ASSUME NEW t \in Tiers, Subscribe(t) PROVE AnyRuns'
    BY <2>1, SubscribeAny
  <2>2. ASSUME NEW t \in Tiers, ChangeTierCheck(t) PROVE AnyRuns'
    <3>1. 0 \in Nat
      OBVIOUS
    <3> QED BY <2>2, <3>1, RequestAny
  <2>3. ASSUME NEW t \in Tiers, NEW n \in Counts, SelectRegions(t, n) PROVE AnyRuns'
    BY <2>3, RequestAny, Constants
  <2>4. ASSUME NEW n \in Counts, FilterCheck(n) PROVE AnyRuns'
    BY <2>4, RequestAny, Constants
  <2>5. ASSUME NEW f \in inflight, SetPending(f) \/ FilterWrite(f) PROVE AnyRuns'
    BY <2>5, SecondHalfAny
  <2>6. ASSUME NEW r \in Runs, Pay(r) PROVE AnyRuns'
    BY <2>6, BeginAny
  <2> QED BY <1>1, <2>1, <2>2, <2>3, <2>4, <2>5, <2>6 DEF Request
<1>2. ASSUME NEW r \in Runs, RunStep(r) PROVE AnyRuns'
  BY <1>2, BeginAny, ReadSubAny, ChargeAny, RecordAny DEF RunStep
<1>3. CASE (\E r \in Runs : FailRun(r)) \/ Crash \/ Tick
  BY <1>3, MishapAny
<1>4. CASE UNCHANGED vars
  BY <1>4, RunsOnly, Types DEF vars, AnyRuns
<1> QED BY <1>1, <1>2, <1>3, <1>4 DEF Next, Step

LEMMA AnyAlways == Spec => []AnyRuns
<1>1. Init => AnyRuns
  BY TypeStart
<1>2. AnyRuns /\ [Next]_vars => AnyRuns'
  BY AnyStep
<1> QED BY <1>1, <1>2, PTL DEF Spec

\* The rows have their types, and the account row that the routes look at has the
\* tier and the restriction of the subscription (service.ts writes both each time),
\* however runs, requests and crashes interleave.
THEOREM AccountAlwaysMirrors == Spec => [](TypeOK /\ AccountMirrorsSubscription)
<1>1. AnyRuns => TypeOK /\ AccountMirrorsSubscription
  BY DEF AnyRuns
<1> QED BY <1>1, AnyAlways, PTL

\* REQ 5.4, 13.2: a region list beyond the cap of the account's tier is written on
\* behalf of another tier only, one that it fits (filters route, changeTier and
\* selectRegionsForDowngrade), whatever happens between check and write.
THEOREM ListAlwaysFits == Spec => ListFitsATier
<1> DEFINE Fitting == regions' > MaxRegions[acct.tier] /\ regions' # regions =>
                        \E f \in inflight \union inflight' :
                          f.tier # acct.tier /\ regions' <= MaxRegions[f.tier]
<1>1. ASSUME AnyRuns, Next PROVE Fitting
  <2>1. CASE \E t \in Tiers, n \in Counts : SelectRegions(t, n)
    <3>1. PICK t \in Tiers, n \in Counts : SelectRegions(t, n)
      BY <2>1
    <3> DEFINE g == [op |-> "setPending", tier |-> t, count |-> 0]
    <3>2. g \in inflight' /\ g.tier = t /\ regions' = n /\ n <= MaxRegions[t] /\ n \in Nat
      BY <3>1, Constants DEF SelectRegions
    <3>3. MaxRegions[t] \in Nat /\ MaxRegions[acct.tier] \in Nat
      BY <1>1, Types, Constants DEF AnyRuns
    <3> QED BY <3>2, <3>3
  <2>2. CASE \E f \in inflight : FilterWrite(f)
    <3>1. PICK f \in inflight : FilterWrite(f)
      BY <2>2
    <3>2. f \in Half /\ regions' = f.count /\ f.count <= MaxRegions[f.tier]
      BY <1>1, <3>1, Types DEF AnyRuns, FiltersFit, FilterWrite
    <3>3. f.count \in Nat /\ MaxRegions[f.tier] \in Nat /\ MaxRegions[acct.tier] \in Nat
      BY <1>1, <3>2, Types, Constants DEF AnyRuns, Half
    <3> QED BY <3>2, <3>3
  <2>3. CASE regions' = regions
    BY <2>3
  <2> HIDE DEF Fitting
  <2> QED
    BY <1>1, <2>1, <2>2, <2>3
       DEF Next, Step, Request, RunStep, Tick, Subscribe, ChangeTierCheck, FilterCheck, SetPending, JobList,
           Pay, ReadSub, Charge, RecordSuccess, RecordFailure, FailRun, Crash, userVars
<1>2. AnyRuns /\ [Next]_vars => [Fitting]_vars
  BY <1>1
<1> QED BY <1>2, AnyAlways, PTL DEF Spec, ListFitsATier
-----------------------------------------------------------------------------
(* Keys, and what the job has listed, however runs overlap. *)

\* The provider captures once for a key.
CapturedFor(e) == {k \in Keys : k[1] = e /\ ledger[k].captured}
EachKeyOnce == \A e \in Periods : payments[e] = Cardinality(CapturedFor(e))

LEMMA CapturedFinite ==
  ASSUME NEW e
  PROVE  IsFiniteSet(CapturedFor(e)) /\ Cardinality(CapturedFor(e)) \in Nat
<1>1. IsFiniteSet(Periods) /\ IsFiniteSet(0..MaxRetryCount)
  BY FS_Interval, Constants DEF Periods
<1>2. IsFiniteSet(Keys)
  BY <1>1, FS_Product DEF Keys
<1>3. IsFiniteSet(CapturedFor(e))
  BY <1>2, FS_Subset DEF CapturedFor
<1> QED BY <1>3, FS_CardinalityType

LEMMA Declined ==
  ASSUME NEW e
  PROVE  IsFiniteSet(DeclinedFor(e)) /\ Cardinality(DeclinedFor(e)) \in Nat
<1>1. IsFiniteSet(Periods) /\ IsFiniteSet(0..MaxRetryCount)
  BY FS_Interval, Constants DEF Periods
<1>2. IsFiniteSet(Keys)
  BY <1>1, FS_Product DEF Keys
<1>3. IsFiniteSet(DeclinedFor(e))
  BY <1>2, FS_Subset DEF DeclinedFor
<1> QED BY <1>3, FS_CardinalityType

\* A key that has captured was used, so that a new one is counted once.
KeysPaid == EachKeyOnce /\ \A k \in Keys : ledger[k].captured => ledger[k].tier # NoTier

LEMMA ChargeKeysPaid ==
  ASSUME AnyRuns, KeysPaid, NEW r \in Runs, NEW accepted \in BOOLEAN, Charge(r, accepted)
  PROVE  KeysPaid'
<1> DEFINE k == ChargeKey(runs[r])
           p == runs[r].sub.period
           captures == ledger[k].tier = NoTier /\ accepted
<1>1. k \in Keys /\ k[1] = p /\ p \in Periods /\ runs[r].sub.tier \in Tiers
  BY Types, KeyOfRun DEF AnyRuns, Run, Glimpse, ChargeKey
<1>2. ledger \in [Keys -> Outcome] /\ payments \in [Periods -> Nat]
  BY Types DEF AnyRuns
<1>3. /\ ledger' = (IF ledger[k].tier = NoTier
                    THEN [ledger EXCEPT ![k] = [tier |-> runs[r].sub.tier, captured |-> accepted]] ELSE ledger)
      /\ payments' = (IF captures THEN [payments EXCEPT ![p] = @ + 1] ELSE payments)
  BY DEF Charge
<1>4. /\ \A x \in Keys \ {k} : ledger'[x] = ledger[x]
      /\ ledger'[k].tier # NoTier
      /\ captures => ledger'[k].captured /\ ~ledger[k].captured
      /\ ~captures => (ledger'[k].captured <=> ledger[k].captured)
  BY <1>1, <1>2, <1>3, Constants DEF KeysPaid
<1>5. \A e \in Periods : payments'[e] = IF captures /\ e = p THEN payments[e] + 1 ELSE payments[e]
  BY <1>1, <1>2, <1>3
<1> HIDE DEF k, p, captures
<1>6. EachKeyOnce'
  <2> SUFFICES ASSUME NEW e \in Periods PROVE payments'[e] = Cardinality(CapturedFor(e)')
    BY DEF EachKeyOnce
  <2>1. payments[e] = Cardinality(CapturedFor(e)) /\ IsFiniteSet(CapturedFor(e))
    BY CapturedFinite DEF KeysPaid, EachKeyOnce
  <2>2. CASE captures /\ e = p
    <3>1. CapturedFor(e)' = CapturedFor(e) \union {k} /\ k \notin CapturedFor(e)
      BY <1>1, <1>4, <2>2 DEF CapturedFor
    <3>2. Cardinality(CapturedFor(e) \union {k}) = Cardinality(CapturedFor(e)) + 1
      BY <2>1, <3>1, FS_AddElement
    <3> QED BY <1>5, <2>1, <2>2, <3>1, <3>2
  <2>3. CASE ~(captures /\ e = p)
    <3>1. CapturedFor(e)' = CapturedFor(e)
      BY <1>1, <1>4, <2>3 DEF CapturedFor
    <3> QED BY <1>5, <2>1, <2>3, <3>1
  <2> QED BY <2>2, <2>3
<1>7. \A x \in Keys : ledger'[x].captured => ledger'[x].tier # NoTier
  BY <1>1, <1>4 DEF KeysPaid
<1> QED BY <1>6, <1>7 DEF KeysPaid

LEMMA KeysPaidStep == AnyRuns /\ KeysPaid /\ [Next]_vars => KeysPaid'
<1> SUFFICES ASSUME AnyRuns, KeysPaid, [Next]_vars PROVE KeysPaid'
  OBVIOUS
<1>1. CASE \E r \in Runs, accepted \in BOOLEAN : Charge(r, accepted)
  BY <1>1, ChargeKeysPaid
<1>2. CASE UNCHANGED <<ledger, payments>>
  BY <1>2 DEF KeysPaid, EachKeyOnce, CapturedFor
<1> QED
  BY <1>1, <1>2
     DEF Next, Step, Request, RunStep, Tick, Subscribe, ChangeTierCheck, SelectRegions, FilterCheck, SetPending,
         FilterWrite, JobList, Pay, ReadSub, RecordSuccess, RecordFailure, FailRun, Crash, vars, moneyVars

LEMMA KeysPaidStart == Init => KeysPaid
<1> SUFFICES ASSUME Init PROVE KeysPaid
  OBVIOUS
<1>1. \A k \in Keys : ~ledger[k].captured
  BY DEF Init, NoCharge
<1>2. \A e : CapturedFor(e) = {}
  BY <1>1 DEF CapturedFor
<1> QED BY <1>1, <1>2, FS_EmptySet DEF Init, KeysPaid, EachKeyOnce

\* What the job has listed was due, and is unless the row has gone on to another period.
ListedFits ==
  \A r \in Runs : runs[r].job /\ runs[r].pc = "read" =>
    /\ sub.exists
    /\ runs[r].sub.end <= runs[r].at
    /\ runs[r].sub.period <= sub.period
    /\ runs[r].sub.period = sub.period => runs[r].sub.end = sub.end

LEMMA ListedStep == AnyRuns /\ ListedFits /\ [Next]_vars => ListedFits'
<1> SUFFICES ASSUME AnyRuns, ListedFits, [Next]_vars PROVE ListedFits'
  OBVIOUS
<1>0. sub \in Sub /\ runs \in [Runs -> Run] /\ sub.period \in Nat /\ \A r \in Runs : runs[r].sub.period \in Nat
  <2>1. sub \in Sub /\ runs \in [Runs -> Run]
    BY Types DEF AnyRuns
  <2> QED BY <2>1, Constants DEF Sub, Run, Glimpse, Periods
<1>1. \/ \A r \in Runs : runs'[r] = runs[r] \/ runs'[r].pc # "read" \/ ~runs'[r].job
      \/ \E r \in Runs : JobList(r)
  <2>1. ASSUME NEW r \in Runs, Pay(r) \/ RunStep(r) \/ FailRun(r), ~JobList(r)
        PROVE  \A s \in Runs : runs'[s] = runs[s] \/ runs'[s].pc # "read" \/ ~runs'[s].job
    <3>1. runs'[r].pc # "read" \/ ~runs'[r].job
      <4>1. CASE RecordSuccess(r) \/ RecordFailure(r) \/ FailRun(r)
        <5>1. runs'[r] = Idle
          BY <1>0, <4>1 DEF RecordSuccess, RecordFailure, FailRun
        <5> QED BY <5>1 DEF Idle
      <4>2. CASE Pay(r)
        BY <1>0, <4>2, IdleRun DEF Pay, Idle
      <4>3. CASE ReadSub(r) \/ \E accepted \in BOOLEAN : Charge(r, accepted)
        BY <1>0, <4>3 DEF ReadSub, Charge, Run
      <4> QED BY <2>1, <4>1, <4>2, <4>3 DEF RunStep
    <3>2. \A s \in Runs \ {r} : runs'[s] = runs[s]
      BY <1>0, <2>1 DEF Pay, RunStep, ReadSub, Charge, RecordSuccess, RecordFailure, FailRun
    <3> QED BY <3>1, <3>2
  <2>2. CASE Crash
    BY <2>2 DEF Crash, Idle
  <2>3. CASE runs' = runs
    BY <2>3
  <2> QED
    BY <2>1, <2>2, <2>3
       DEF Next, Step, Request, Tick, Subscribe, ChangeTierCheck, SelectRegions, FilterCheck, SetPending, FilterWrite,
           vars
<1>2. sub.exists => \/ sub'.exists /\ sub'.period = sub.period /\ sub'.end = sub.end
                    \/ sub'.exists /\ sub'.period > sub.period
  <2>1. ASSUME NEW r \in Runs, RecordSuccess(r) \/ RecordFailure(r), sub.exists
        PROVE  \/ sub'.exists /\ sub'.period = sub.period /\ sub'.end = sub.end
               \/ sub'.exists /\ sub'.period > sub.period
    <3>1. CASE RecordSuccess(r)
      <4>1. sub'.exists = sub.exists /\ sub'.period = sub.period + 1
        BY <1>0, <3>1 DEF RecordSuccess, Sub
      <4> QED BY <1>0, <2>1, <4>1
    <3>2. CASE RecordFailure(r)
      BY <1>0, <2>1, <3>2 DEF RecordFailure, Sub
    <3> QED BY <2>1, <3>1, <3>2
  <2>2. ASSUME sub.exists, (\E t \in Tiers : Subscribe(t)) \/ (\E f \in inflight : SetPending(f))
        PROVE  sub'.exists /\ sub'.period = sub.period /\ sub'.end = sub.end
    BY <1>0, <2>2 DEF Subscribe, SetPending, Sub
  <2>3. CASE sub' = sub
    BY <2>3
  <2> QED
    BY <2>1, <2>2, <2>3
       DEF Next, Step, Request, RunStep, Tick, ChangeTierCheck, SelectRegions, FilterCheck, FilterWrite, JobList,
           Pay, ReadSub, Charge, FailRun, Crash, vars
<1>3. CASE \A r \in Runs : runs'[r] = runs[r] \/ runs'[r].pc # "read" \/ ~runs'[r].job
  <2>1. sub.exists => sub'.period \in Nat
    <3>1. AnyRuns'
      BY AnyStep
    <3>2. sub' \in Sub
      BY <3>1 DEF AnyRuns, TypeOK
    <3> QED BY <3>2, Constants DEF Sub, Periods
  <2> QED BY <1>0, <1>2, <1>3, <2>1 DEF ListedFits
<1>4. ASSUME NEW r \in Runs, JobList(r) PROVE ListedFits'
  <2>1. /\ runs'[r].sub = Seen(sub) /\ runs'[r].at = now /\ sub' = sub
        /\ \A s \in Runs \ {r} : runs'[s] = runs[s]
    BY <1>0, <1>4, IdleRun DEF JobList, Run
  <2>2. sub.exists /\ sub.end <= now
    BY <1>4 DEF JobList, Due
  <2> QED BY <1>0, <2>1, <2>2 DEF ListedFits, Seen
<1> QED BY <1>1, <1>3, <1>4

\* A key the row has come to, as its failures were counted and its periods renewed.
Past(k) == k[1] < sub.period \/ (k[1] = sub.period /\ k[2] <= sub.retry)

\* No key is used, or about to be, that the row has not come to: a run reads its key from
\* the row, and the row never goes back.
KeysBehind ==
  /\ ~sub.exists => sub.period = 0 /\ sub.retry = 0 /\ \A r \in Runs : runs[r].pc = "idle"
  /\ \A k \in Keys : ledger[k].tier # NoTier => Past(k)
  /\ \A r \in Runs : runs[r].pc = "charge" => Past(ChargeKey(runs[r]))

LEMMA Numbers ==
  ASSUME AnyRuns
  PROVE  /\ sub \in Sub /\ runs \in [Runs -> Run] /\ ledger \in [Keys -> Outcome]
         /\ sub.period \in Nat /\ sub.retry \in Nat
         /\ \A k \in Keys : k[1] \in Nat /\ k[2] \in Nat
<1>1. sub \in Sub /\ runs \in [Runs -> Run] /\ ledger \in [Keys -> Outcome]
  BY Types DEF AnyRuns
<1>2. sub.period \in Nat /\ sub.retry \in Nat
  BY <1>1, Constants DEF Sub, Periods
<1>3. \A k \in Keys : k[1] \in Nat /\ k[2] \in Nat
  BY Constants DEF Keys, Periods
<1> QED BY <1>1, <1>2, <1>3

LEMMA RowGoesOn ==
  ASSUME AnyRuns, KeysBehind, [Next]_vars
  PROVE  /\ \A k \in Keys : Past(k) => Past(k)'
         /\ \/ ~sub'.exists /\ UNCHANGED sub
            \/ sub'.exists
<1>0. sub \in Sub /\ sub.period \in Nat /\ sub.retry \in Nat /\ \A k \in Keys : k[1] \in Nat /\ k[2] \in Nat
  BY Numbers
<1>1. ASSUME NEW t \in Tiers, Subscribe(t)
      PROVE  sub'.exists /\ sub'.period = sub.period /\ sub'.retry = sub.retry
  BY <1>0, <1>1 DEF Subscribe, KeysBehind, Sub, NoSub
<1>2. ASSUME NEW f \in inflight, SetPending(f)
      PROVE  sub'.exists = sub.exists /\ sub'.period = sub.period /\ sub'.retry = sub.retry /\ (~sub.exists => sub' = sub)
  BY <1>0, <1>2 DEF SetPending, Sub
<1>3. ASSUME NEW r \in Runs, RecordSuccess(r) PROVE sub'.exists /\ sub'.period = sub.period + 1
  BY <1>0, <1>3 DEF RecordSuccess, KeysBehind, Sub
<1>4. ASSUME NEW r \in Runs, RecordFailure(r)
      PROVE  sub'.exists /\ sub'.period = sub.period /\ sub'.retry = sub.retry + 1
  BY <1>0, <1>4 DEF RecordFailure, KeysBehind, Sub
<1>5. \/ sub' = sub
      \/ \E t \in Tiers : Subscribe(t)
      \/ \E f \in inflight : SetPending(f)
      \/ \E r \in Runs : RecordSuccess(r) \/ RecordFailure(r)
  BY DEF Next, Step, Request, RunStep, Tick, ChangeTierCheck, SelectRegions, FilterCheck, FilterWrite,
         JobList, Pay, ReadSub, Charge, FailRun, Crash, vars
<1>6. \/ sub'.period = sub.period /\ sub'.retry = sub.retry
      \/ sub'.period = sub.period + 1
      \/ sub'.period = sub.period /\ sub'.retry = sub.retry + 1
  BY <1>1, <1>2, <1>3, <1>4, <1>5
<1>7. \A k \in Keys : Past(k) => Past(k)'
  BY <1>0, <1>6 DEF Past
<1>8. sub'.exists \/ sub' = sub
  BY <1>1, <1>2, <1>3, <1>4, <1>5
<1> QED BY <1>7, <1>8

\* A run that is about to charge has read the row, and one that begins has seen it there.
LEMMA RunsRead ==
  ASSUME AnyRuns, [Next]_vars, NEW s \in Runs
  PROVE  /\ runs'[s].pc # "idle" => runs[s].pc # "idle" \/ sub.exists
         /\ runs'[s].pc = "charge" =>
              \/ runs[s].pc = "charge" /\ runs'[s].sub = runs[s].sub
              \/ runs'[s].sub = Seen(sub)
<1>0. runs \in [Runs -> Run]
  BY Numbers
<1>1. ASSUME NEW r \in Runs, Pay(r) \/ JobList(r)
      PROVE  sub.exists /\ runs'[r].pc = "read" /\ \A x \in Runs \ {r} : runs'[x] = runs[x]
  <2>1. CASE Pay(r)
    <3>1. [Idle EXCEPT !.pc = "read", !.at = now].pc = "read"
      BY DEF Idle
    <3> QED BY <1>0, <2>1, <3>1 DEF Pay
  <2>2. CASE JobList(r)
    <3>1. [Idle EXCEPT !.pc = "read", !.job = TRUE, !.at = now, !.sub = Seen(sub)].pc = "read"
      BY DEF Idle
    <3> QED BY <1>0, <2>2, <3>1 DEF JobList, Due
  <2> QED BY <1>1, <2>1, <2>2
<1>2. ASSUME NEW r \in Runs, ReadSub(r)
      PROVE  runs[r].pc = "read" /\ runs'[r].sub = Seen(sub) /\ \A x \in Runs \ {r} : runs'[x] = runs[x]
  BY <1>0, <1>2 DEF ReadSub, Run
<1>3. ASSUME NEW r \in Runs, NEW accepted \in BOOLEAN, Charge(r, accepted)
      PROVE  runs[r].pc = "charge" /\ runs'[r].pc = "record" /\ \A x \in Runs \ {r} : runs'[x] = runs[x]
  BY <1>0, <1>3 DEF Charge, Run
<1>4. ASSUME NEW r \in Runs, RecordSuccess(r) \/ RecordFailure(r) \/ FailRun(r)
      PROVE  runs'[r].pc = "idle" /\ \A x \in Runs \ {r} : runs'[x] = runs[x]
  BY <1>0, <1>4 DEF RecordSuccess, RecordFailure, FailRun, Idle
<1>5. Crash => runs'[s].pc = "idle"
  BY DEF Crash, Idle
<1>6. \/ runs' = runs
      \/ Crash
      \/ \E r \in Runs : \/ Pay(r) \/ JobList(r) \/ ReadSub(r)
                        \/ \E accepted \in BOOLEAN : Charge(r, accepted)
                        \/ RecordSuccess(r) \/ RecordFailure(r) \/ FailRun(r)
  BY DEF Next, Step, Request, RunStep, Tick, Subscribe, ChangeTierCheck, SelectRegions, FilterCheck, SetPending,
         FilterWrite, vars
<1>7. CASE runs' = runs \/ Crash
  BY <1>5, <1>7
<1>8. ASSUME NEW r \in Runs, \/ Pay(r) \/ JobList(r) \/ ReadSub(r)
                             \/ \E accepted \in BOOLEAN : Charge(r, accepted)
                             \/ RecordSuccess(r) \/ RecordFailure(r) \/ FailRun(r)
      PROVE  /\ runs'[s].pc # "idle" => runs[s].pc # "idle" \/ sub.exists
             /\ runs'[s].pc = "charge" =>
                  \/ runs[s].pc = "charge" /\ runs'[s].sub = runs[s].sub
                  \/ runs'[s].sub = Seen(sub)
  <2>1. CASE Pay(r) \/ JobList(r)
    BY <1>1, <2>1
  <2>2. CASE ReadSub(r)
    BY <1>2, <2>2
  <2>3. CASE \E accepted \in BOOLEAN : Charge(r, accepted)
    BY <1>3, <2>3
  <2>4. CASE RecordSuccess(r) \/ RecordFailure(r) \/ FailRun(r)
    BY <1>4, <2>4
  <2> QED BY <1>8, <2>1, <2>2, <2>3, <2>4
<1> QED BY <1>6, <1>7, <1>8

\* A key is used by a run that charges with it.
LEMMA LedgerGrows ==
  ASSUME AnyRuns, [Next]_vars, NEW k \in Keys, ledger'[k].tier # NoTier
  PROVE  ledger[k].tier # NoTier \/ \E r \in Runs : runs[r].pc = "charge" /\ k = ChargeKey(runs[r])
<1>1. CASE ledger' = ledger
  BY <1>1
<1>2. ASSUME NEW r \in Runs, NEW accepted \in BOOLEAN, Charge(r, accepted)
      PROVE  ledger[k].tier # NoTier \/ \E x \in Runs : runs[x].pc = "charge" /\ k = ChargeKey(runs[x])
  BY <1>2, Numbers DEF Charge
<1> QED
  BY <1>1, <1>2
     DEF Next, Step, Request, RunStep, Tick, Subscribe, ChangeTierCheck, SelectRegions, FilterCheck, SetPending,
         FilterWrite, JobList, Pay, ReadSub, RecordSuccess, RecordFailure, FailRun, Crash, vars, moneyVars

LEMMA BehindStep == AnyRuns /\ KeysBehind /\ [Next]_vars => KeysBehind'
<1> SUFFICES ASSUME AnyRuns, KeysBehind, [Next]_vars PROVE KeysBehind'
  OBVIOUS
<1>1. /\ \A k \in Keys : Past(k) => Past(k)'
      /\ (~sub'.exists /\ UNCHANGED sub) \/ sub'.exists
  BY RowGoesOn
<1>2. ~sub'.exists => sub'.period = 0 /\ sub'.retry = 0 /\ \A r \in Runs : runs'[r].pc = "idle"
  BY <1>1, RunsRead DEF KeysBehind
<1>3. ASSUME NEW k \in Keys, ledger'[k].tier # NoTier PROVE Past(k)'
  BY <1>1, <1>3, LedgerGrows DEF KeysBehind
<1>4. ASSUME NEW r \in Runs, runs'[r].pc = "charge" PROVE Past(ChargeKey(runs[r]))'
  <2>1. ChargeKey(runs[r])' \in Keys
    <3>1. runs'[r] \in Run
      <4>1. AnyRuns'
        BY AnyStep
      <4> QED BY <4>1 DEF AnyRuns, TypeOK, Run, Glimpse
    <3> QED BY <3>1, KeyOfRun DEF ChargeKey
  <2>2. Past(ChargeKey(runs[r])')
    <3>1. CASE runs[r].pc = "charge" /\ runs'[r].sub = runs[r].sub
      BY <3>1 DEF KeysBehind, ChargeKey
    <3>2. CASE runs'[r].sub = Seen(sub)
      BY <3>2, Numbers DEF ChargeKey, Seen, Past
    <3> QED BY <1>4, <3>1, <3>2, RunsRead
  <2> QED BY <1>1, <2>1, <2>2 DEF Past
<1> QED BY <1>2, <1>3, <1>4 DEF KeysBehind

\* There are as many keys of a period as failures may be counted up to it, and one.
LEMMA KeysOfPeriod ==
  ASSUME AnyRuns, KeysBehind, KeysPaid
  PROVE  OneKeyPerFailure
<1> DEFINE p == sub.period
           n == sub.retry
           C == CapturedFor(p)
           D == DeclinedFor(p)
           All == {p} \X (0..n)
<1>1. p \in Periods /\ n \in Nat /\ p \in Nat
  BY Numbers DEF Sub
<1>2. C \union D \subseteq All /\ C \intersect D = {}
  <2> SUFFICES ASSUME NEW k \in Keys, k[1] = p, ledger[k].tier # NoTier PROVE k \in All
    BY DEF KeysPaid, CapturedFor, DeclinedFor
  <2>1. Past(k) /\ k = <<k[1], k[2]>> /\ k[2] \in Nat
    BY Numbers DEF KeysBehind, Keys
  <2> QED BY <1>1, <2>1 DEF Past
<1>3. IsFiniteSet(All) /\ Cardinality(All) = n + 1
  <2>1. IsFiniteSet({p}) /\ Cardinality({p}) = 1
    BY FS_Singleton
  <2>2. IsFiniteSet(0..n) /\ Cardinality(0..n) = n + 1
    <3> HIDE DEF n
    <3>1. 0 \in Int /\ n \in Int /\ ~(0 > n) /\ n - 0 + 1 = n + 1
      BY <1>1
    <3> QED BY <3>1, FS_Interval
  <2>3. 1 * (n + 1) = n + 1
    BY <1>1
  <2> DEFINE P == {p}
             R == 0..n
  <2>4. IsFiniteSet(P \X R) /\ Cardinality(P \X R) = Cardinality(P) * Cardinality(R)
    <3>1. IsFiniteSet(P) /\ IsFiniteSet(R)
      BY <2>1, <2>2
    <3> HIDE DEF P, R
    <3> QED BY <3>1, FS_Product
  <2> QED BY <2>1, <2>2, <2>3, <2>4
<1>4. /\ IsFiniteSet(C) /\ Cardinality(C) \in Nat
      /\ IsFiniteSet(D) /\ Cardinality(D) \in Nat
  BY CapturedFinite, Declined
<1>5. Cardinality(C \union D) = Cardinality(C) + Cardinality(D)
  <2>1. Cardinality(C \intersect D) = 0
    BY <1>2, FS_EmptySet
  <2> HIDE DEF C, D
  <2>2. Cardinality(C \union D) = Cardinality(C) + Cardinality(D) - Cardinality(C \intersect D)
    BY <1>4, FS_Union
  <2> QED BY <1>4, <2>1, <2>2
<1>6. Cardinality(C \union D) <= n + 1
  <2> HIDE DEF C, D, All
  <2> QED BY <1>2, <1>3, FS_Subset
<1>7. payments[p] = Cardinality(C)
  BY <1>1 DEF KeysPaid, EachKeyOnce
<1> QED BY <1>5, <1>6, <1>7 DEF OneKeyPerFailure

\* REQ 13.3, 13.4: however runs overlap, die and lose their answers, the provider has been
\* tried for the open period at most once more than failures have been counted
\* (runBillingCycle's idempotency key and incrementRetry).
THEOREM AttemptsAlwaysCounted == Spec => []OneKeyPerFailure
<1>1. Init => KeysPaid /\ KeysBehind
  <2> SUFFICES ASSUME Init PROVE KeysBehind
    BY KeysPaidStart
  <2> QED BY DEF Init, KeysBehind, NoSub, Idle, NoCharge
<1>2. AnyRuns /\ KeysPaid /\ [Next]_vars => KeysPaid'
  BY KeysPaidStep
<1>3. AnyRuns /\ KeysBehind /\ [Next]_vars => KeysBehind'
  BY BehindStep
<1>4. AnyRuns /\ KeysBehind /\ KeysPaid => OneKeyPerFailure
  BY KeysOfPeriod
<1> QED BY <1>1, <1>2, <1>3, <1>4, AnyAlways, PTL DEF Spec

\* ... and the job charges early only what another run has renewed since it was listed
\* (runDueBillingCycles, which does not look again).
THEOREM EarlyIsRenewed == Spec => EarlyOnlyAfterRenewal
<1> DEFINE Early == \A r \in Runs :
                      runs[r].job /\ runs[r].pc = "read" /\ runs'[r].pc = "charge" =>
                        runs'[r].sub.end <= runs[r].at \/ runs'[r].sub.period > runs[r].sub.period
<1>1. Init => ListedFits
  BY DEF Init, ListedFits, Idle
<1>2. AnyRuns /\ ListedFits /\ [Next]_vars => ListedFits'
  BY ListedStep
<1>3. ASSUME AnyRuns, ListedFits, Next PROVE Early
  <2> SUFFICES ASSUME NEW r \in Runs, runs[r].job, runs[r].pc = "read", runs'[r].pc = "charge"
               PROVE  runs'[r].sub.end <= runs[r].at \/ runs'[r].sub.period > runs[r].sub.period
    OBVIOUS
  <2>0. runs \in [Runs -> Run] /\ sub.period \in Nat /\ runs[r].sub.period \in Nat
    <3>1. runs \in [Runs -> Run] /\ sub \in Sub
      BY <1>3, Types DEF AnyRuns
    <3> QED BY <3>1, Constants DEF Sub, Run, Glimpse, Periods
  <2>1. runs'[r].sub = Seen(sub)
    <3>1. ASSUME NEW s \in Runs, Pay(s) \/ RunStep(s) \/ FailRun(s) PROVE runs'[r].sub = Seen(sub)
      BY <2>0, <3>1 DEF Pay, RunStep, JobList, ReadSub, Charge, RecordSuccess, RecordFailure, FailRun, Idle, Run
    <3>2. ~Crash /\ runs' # runs
      BY DEF Crash, Idle
    <3> QED
      BY <1>3, <3>1, <3>2
         DEF Next, Step, Request, Tick, Subscribe, ChangeTierCheck, SelectRegions, FilterCheck, SetPending, FilterWrite
  <2> QED BY <1>3, <2>0, <2>1 DEF ListedFits, Seen
<1>4. AnyRuns /\ ListedFits /\ [Next]_vars => [Early]_vars
  BY <1>3
<1> QED BY <1>1, <1>2, <1>4, AnyAlways, PTL DEF Spec, EarlyOnlyAfterRenewal
-----------------------------------------------------------------------------
(* Until two runs have been in progress at once.                           *)

Used(k) == ledger[k].tier # NoTier
KeyNow == <<sub.period, sub.retry>>
\* The open period has been captured at most as often as what went wrong allows:
\* there is no capture of it yet that the provider may be asked to repeat.
Slack == payments[sub.period] <= lost + anew

\* Before it is subscribed there is nothing to bill.
NotYet == ~sub.exists => sub.period = 0 /\ sub.retry = 0 /\ \A e \in Periods : payments[e] = 0

\* Keys are used in order, and a captured one is paid for.
KeysInOrder ==
  /\ \A k \in Keys : Used(k) => k[1] < sub.period \/ (k[1] = sub.period /\ k[2] <= sub.retry)
  /\ \A k \in Keys : ledger[k].captured => Used(k) /\ payments[k[1]] > 0
  /\ \A e \in Periods : e > sub.period => payments[e] = 0

\* Every failure of the open period used a key, and each of those was captured or
\* declined.
KeysCounted ==
  payments[sub.period] + Cardinality(DeclinedFor(sub.period)) >=
    sub.retry + (IF Used(KeyNow) THEN 1 ELSE 0)

\* A run knows the row as it is but for the tier, which may have changed since it read
\* it: then its own charge, or the refusal of the key, is what anew allows for.
RunFits(run) ==
  /\ run.pc # "idle" => sub.exists
  /\ run.pc \in {"charge", "record"} => ChargeKey(run) = KeyNow
  /\ run.pc = "charge" /\ ~Used(KeyNow) /\ run.sub.tier # sub.tier =>
       payments[sub.period] + 1 <= lost + anew
  /\ run.pc = "charge" /\ ledger[KeyNow].captured /\ ledger[KeyNow].tier # run.sub.tier => Slack
  /\ run.pc = "record" => Used(KeyNow)
  /\ run.pc = "record" /\ run.paid => ledger[KeyNow].captured
  /\ run.pc = "record" /\ ~run.paid => Slack
RunsFit == \A r \in Runs : RunFits(runs[r])

\* Another charge may capture the period again, unless its key repeats the outcome.
OpenFits == Slack \/ (ledger[KeyNow].captured /\ ledger[KeyNow].tier = sub.tier)

Money == OneCapturePerPeriod /\ RestrictedAfterRetries /\ FailureNotified
Serial == AnyRuns /\ Money /\ NotYet /\ KeysInOrder /\ KeysCounted /\ OpenFits /\ RunsFit

LEMMA Amounts ==
  ASSUME AnyRuns
  PROVE  /\ sub.period \in Periods /\ sub.period \in Nat /\ sub.retry \in Nat /\ sub.tier \in Tiers
         /\ payments \in [Periods -> Nat] /\ payments[sub.period] \in Nat
         /\ lost \in Nat /\ anew \in Nat /\ MaxRetries \in Nat
         /\ KeyNow \in Keys /\ ledger \in [Keys -> Outcome]
         /\ Cardinality(DeclinedFor(sub.period)) \in Nat
<1>1. sub \in Sub /\ payments \in [Periods -> Nat] /\ ledger \in [Keys -> Outcome] /\ lost \in Nat /\ anew \in Nat
  BY Types DEF AnyRuns
<1>2. sub.period \in Periods /\ sub.retry \in 0..MaxRetryCount /\ sub.tier \in Tiers
  BY <1>1 DEF Sub
<1>3. sub.period \in Nat /\ sub.retry \in Nat /\ KeyNow \in Keys
  BY <1>2, Constants DEF Periods, Keys, KeyNow
<1>4. Cardinality(DeclinedFor(sub.period)) \in Nat
  BY Declined
<1> QED BY <1>1, <1>2, <1>3, <1>4, Constants

LEMMA SerialStart == Init => Serial
<1> SUFFICES ASSUME Init PROVE Serial OBVIOUS
<1>1. AnyRuns
  BY TypeStart
<1>2. sub.period = 0 /\ sub.retry = 0 /\ ~sub.exists /\ lost = 0 /\ anew = 0 /\ acct.status = "active"
      /\ (\A e \in Periods : payments[e] = 0) /\ \A r \in Runs : runs[r].pc = "idle"
  BY DEF Init, NoSub, Idle
<1>3. \A k \in Keys : ~Used(k) /\ ~ledger[k].captured
  BY DEF Init, Used, NoCharge
<1>4. Money
  BY <1>2 DEF Money, OneCapturePerPeriod, RestrictedAfterRetries, FailureNotified
<1>5. NotYet /\ KeysInOrder /\ RunsFit
  BY <1>2, <1>3, Constants DEF NotYet, KeysInOrder, RunsFit, RunFits, Periods
<1>6. KeysCounted /\ OpenFits
  BY <1>1, <1>2, <1>3, Amounts DEF KeysCounted, OpenFits, Slack
<1> QED BY <1>1, <1>4, <1>5, <1>6 DEF Serial

\* A step that leaves the money alone.
LEMMA MoneyFrame ==
  ASSUME Serial, AnyRuns', RunsFit',
         sub'.exists = sub.exists, sub'.tier = sub.tier, sub'.retry = sub.retry, sub'.period = sub.period,
         UNCHANGED <<acct, ledger, payments, notified, lost, anew>>
  PROVE  Serial'
<1>1. KeyNow' = KeyNow /\ \A e : DeclinedFor(e)' = DeclinedFor(e)
  BY DEF KeyNow, DeclinedFor
<1>2. Money'
  BY <1>1 DEF Serial, Money, OneCapturePerPeriod, RestrictedAfterRetries, FailureNotified
<1>3. NotYet' /\ KeysInOrder'
  BY DEF Serial, NotYet, KeysInOrder, Used
<1>4. KeysCounted' /\ OpenFits'
  BY <1>1 DEF Serial, KeysCounted, OpenFits, Slack, Used
<1> QED BY <1>2, <1>3, <1>4 DEF Serial

\* ... and each run as it was, unless it ends or begins.
LEMMA RunsFrame ==
  ASSUME Serial,
         \A r \in Runs : \/ runs'[r] = runs[r] \/ runs'[r].pc = "idle"
                         \/ runs'[r].pc = "read" /\ sub.exists,
         sub'.exists = sub.exists, sub'.tier = sub.tier, sub'.retry = sub.retry, sub'.period = sub.period,
         UNCHANGED <<ledger, payments, lost, anew>>
  PROVE  RunsFit'
<1> SUFFICES ASSUME NEW r \in Runs PROVE RunFits(runs[r])'
  BY DEF RunsFit
<1>1. RunFits(runs[r]) /\ KeyNow' = KeyNow
  BY DEF Serial, RunsFit, KeyNow
<1>2. CASE runs'[r] = runs[r]
  BY <1>1, <1>2 DEF RunFits, Slack, Used, ChargeKey
<1>3. CASE runs'[r].pc = "idle" \/ (runs'[r].pc = "read" /\ sub.exists)
  BY <1>3 DEF RunFits
<1> QED BY <1>2, <1>3

LEMMA FrameStep ==
  ASSUME Serial, AnyRuns',
         \/ Tick \/ Crash \/ UNCHANGED vars
         \/ \E t \in Tiers : ChangeTierCheck(t)
         \/ \E t \in Tiers, n \in Counts : SelectRegions(t, n)
         \/ \E n \in Counts : FilterCheck(n)
         \/ \E f \in inflight : SetPending(f) \/ FilterWrite(f)
         \/ \E r \in Runs : Pay(r) \/ JobList(r) \/ FailRun(r)
  PROVE  Serial'
<1> USE DEF userVars, moneyVars
<1>1. UNCHANGED <<acct, ledger, payments, notified, lost, anew>>
  BY DEF Tick, Crash, vars, ChangeTierCheck, SelectRegions, FilterCheck, SetPending, FilterWrite, Pay,
         JobList, FailRun
<1>2. sub'.exists = sub.exists /\ sub'.tier = sub.tier /\ sub'.retry = sub.retry /\ sub'.period = sub.period
  <2>1. CASE sub' = sub
    BY <2>1
  <2>2. CASE \E f \in inflight : SetPending(f)
    <3>1. sub \in Sub
      BY Types DEF Serial, AnyRuns
    <3> QED BY <2>2, <3>1 DEF SetPending, Sub
  <2> QED
    BY <2>1, <2>2 DEF Tick, Crash, vars, ChangeTierCheck, SelectRegions, FilterCheck, FilterWrite, Pay,
                      JobList, FailRun
<1>3. \A r \in Runs : runs'[r] = runs[r] \/ runs'[r].pc = "idle" \/ (runs'[r].pc = "read" /\ sub.exists)
  <2>1. CASE runs' = runs
    BY <2>1
  <2>2. CASE Crash
    BY <2>2 DEF Crash, Idle
  <2>3. ASSUME NEW r \in Runs, Pay(r) \/ JobList(r) \/ FailRun(r)
        PROVE  runs'[r].pc = "idle" \/ (runs'[r].pc = "read" /\ sub.exists)
    <3>1. runs \in [Runs -> Run]
      BY Types DEF Serial, AnyRuns
    <3>2. CASE Pay(r)
      BY <3>1, <3>2, IdleRun DEF Pay, Run
    <3>3. CASE JobList(r)
      BY <3>1, <3>3, IdleRun DEF JobList, Due, Run
    <3>4. CASE FailRun(r)
      BY <3>1, <3>4 DEF FailRun, Idle
    <3> QED BY <2>3, <3>2, <3>3, <3>4
  <2>4. ASSUME NEW r \in Runs, Pay(r) \/ JobList(r) \/ FailRun(r)
        PROVE  \A s \in Runs \ {r} : runs'[s] = runs[s]
    <3>1. runs \in [Runs -> Run]
      BY Types DEF Serial, AnyRuns
    <3> QED BY <2>4, <3>1 DEF Pay, JobList, FailRun
  <2>5. CASE \E r \in Runs : Pay(r) \/ JobList(r) \/ FailRun(r)
    BY <2>3, <2>4, <2>5
  <2> QED
    BY <2>1, <2>2, <2>5 DEF Tick, vars, ChangeTierCheck, SelectRegions, FilterCheck, SetPending, FilterWrite
<1>4. RunsFit'
  BY <1>1, <1>2, <1>3, RunsFrame
<1> QED BY <1>1, <1>2, <1>4, MoneyFrame
\* The run that takes a step is the only one, and RunFits asks nothing of the idle.
LEMMA OnlyRun ==
  ASSUME AnyRuns, OneAtATime, NEW r \in Runs, runs[r].pc # "idle",
         NEW run \in Run, runs' = [runs EXCEPT ![r] = run], RunFits(runs[r])'
  PROVE  RunsFit'
<1> SUFFICES ASSUME NEW s \in Runs PROVE RunFits(runs[s])'
  BY DEF RunsFit
<1>1. CASE s = r
  BY <1>1
<1>2. CASE s # r
  <2>1. runs'[s] = runs[s] /\ runs[s].pc = "idle"
    BY <1>2, Types DEF AnyRuns, OneAtATime
  <2> QED BY <2>1 DEF RunFits
<1> QED BY <1>1, <1>2

\* What the invariant says of that run.
LEMMA RunNow ==
  ASSUME Serial, NEW r \in Runs, runs[r].pc # "idle"
  PROVE  /\ runs[r] \in Run /\ runs[r].sub.tier \in Tiers /\ RunFits(runs[r]) /\ sub.exists
         /\ runs[r].pc \in {"charge", "record"} =>
              /\ ChargeKey(runs[r]) = KeyNow
              /\ runs[r].sub.period = sub.period /\ runs[r].sub.retry = sub.retry
<1>1. runs[r] \in Run /\ runs[r].sub.tier \in Tiers /\ RunFits(runs[r])
  BY Types DEF Serial, AnyRuns, RunsFit, Run, Glimpse
<1> QED BY <1>1 DEF RunFits, ChargeKey, KeyNow

LEMMA ReadSubStep ==
  ASSUME Serial, OneAtATime, AnyRuns', NEW r \in Runs, ReadSub(r)
  PROVE  Serial'
<1> DEFINE run == [runs[r] EXCEPT !.pc = "charge", !.sub = Seen(sub)]
<1> USE DEF ReadSub, userVars, moneyVars
<1>0. AnyRuns
  BY DEF Serial
<1>1. runs[r] \in Run /\ sub.exists
  BY RunNow
<1>2. runs' = [runs EXCEPT ![r] = run] /\ runs'[r] = run
  BY <1>0, Types DEF AnyRuns
<1>3. run.pc = "charge" /\ run.sub.tier = sub.tier /\ ChargeKey(run) = KeyNow
  BY <1>1 DEF Run, Seen, ChargeKey, KeyNow
<1>4. run \in Run
  <2>1. Seen(sub) \in Glimpse
    BY <1>0, Types DEF AnyRuns, Seen, Sub, Glimpse
  <2> QED BY <1>1, <2>1 DEF Run
<1>5. RunFits(runs[r])'
  <2> DEFINE new == runs'[r]
  <2>1. KeyNow' = KeyNow /\ new.pc = "charge" /\ new.sub.tier = sub.tier /\ ChargeKey(new) = KeyNow
    BY <1>2, <1>3 DEF KeyNow
  <2>2. OpenFits
    BY DEF Serial
  <2> QED BY <1>1, <2>1, <2>2 DEF RunFits, OpenFits, Slack, ChargeKey
<1>6. RunsFit'
  <2> HIDE DEF run
  <2>1. \E x \in Run : runs' = [runs EXCEPT ![r] = x]
    BY <1>2, <1>4
  <2> QED BY <1>0, <1>5, <2>1, OnlyRun
<1> QED BY <1>6, MoneyFrame

LEMMA SubscribeStep ==
  ASSUME Serial, AnyRuns', NEW t \in Tiers, Subscribe(t)
  PROVE  Serial'
<1> USE DEF Subscribe, userVars, moneyVars
<1>0. AnyRuns /\ sub \in Sub
  BY Types DEF Serial, AnyRuns
<1>1. sub'.exists /\ sub'.tier = t /\ acct'.status = "active"
  BY <1>0 DEF Sub, NoSub
<1>2. sub'.period = sub.period /\ sub'.retry = sub.retry /\ KeyNow' = KeyNow
  BY <1>0 DEF Serial, NotYet, Sub, NoSub, KeyNow
<1>3. anew' \in Nat /\ anew' >= anew /\ (sub.exists => anew' = anew + 1)
  BY <1>0, Amounts
<1>4. \A e : DeclinedFor(e)' = DeclinedFor(e)
  BY DEF DeclinedFor
<1>5. Money'
  <2>1. OneCapturePerPeriod'
    <3>1. payments \in [Periods -> Nat] /\ lost \in Nat /\ anew \in Nat
      BY <1>0, Amounts
    <3> QED BY <1>3, <3>1 DEF Serial, Money, OneCapturePerPeriod
  <2>2. RestrictedAfterRetries' /\ FailureNotified'
    BY <1>1, <1>2 DEF Serial, Money, RestrictedAfterRetries, FailureNotified
  <2> QED BY <2>1, <2>2 DEF Money
<1>6. NotYet' /\ KeysInOrder' /\ KeysCounted'
  BY <1>1, <1>2, <1>4 DEF Serial, NotYet, KeysInOrder, KeysCounted, Used
<1>7. Slack'
  <2>1. CASE sub.exists
    <3>1. payments[sub.period] <= 1 + lost + anew
      BY <1>0, Amounts DEF Serial, Money, OneCapturePerPeriod
    <3> QED BY <1>0, <1>2, <1>3, <2>1, <3>1, Amounts DEF Slack
  <2>2. CASE ~sub.exists
    BY <1>0, <1>2, <1>3, <2>2, Amounts DEF Serial, NotYet, Slack
  <2> QED BY <2>1, <2>2
<1>8. RunsFit'
  <2> SUFFICES ASSUME NEW r \in Runs PROVE RunFits(runs[r])'
    BY DEF RunsFit
  <2>1. CASE runs[r].pc = "idle"
    BY <2>1 DEF RunFits
  <2>2. CASE runs[r].pc # "idle"
    <3>1. RunFits(runs[r]) /\ sub.exists
      BY <2>2, RunNow
    <3>2. ~Used(KeyNow) => payments[sub.period] + 1 <= lost + anew'
      <4>1. ~Used(KeyNow) => ~ledger[KeyNow].captured
        BY <1>0, Amounts DEF Serial, KeysInOrder
      <4>2. ~Used(KeyNow) => Slack
        BY <4>1 DEF Serial, OpenFits
      <4> QED BY <1>0, <1>3, <3>1, <4>2, Amounts DEF Slack
    <3> QED BY <1>1, <1>2, <1>7, <3>1, <3>2 DEF RunFits, Used, ChargeKey
  <2> QED BY <2>1, <2>2
<1> QED BY <1>5, <1>6, <1>7, <1>8 DEF Serial, OpenFits
\* The charge: one key more may be used, one payment more captured.
LEMMA ChargeStep ==
  ASSUME Serial, OneAtATime, AnyRuns', NEW r \in Runs, NEW accepted \in BOOLEAN, Charge(r, accepted)
  PROVE  Serial'
<1> DEFINE k == KeyNow
           p == sub.period
           tier == runs[r].sub.tier
           new == ledger[k].tier = NoTier
           paid == IF new THEN accepted ELSE ledger[k].captured /\ ledger[k].tier = tier
<1> USE DEF userVars
<1>0. AnyRuns /\ k \in Keys /\ p \in Periods /\ k[1] = p
  BY Amounts DEF Serial, KeyNow
<1>1. /\ runs[r].pc = "charge" /\ runs[r] \in Run /\ tier \in Tiers /\ RunFits(runs[r]) /\ sub.exists
      /\ ChargeKey(runs[r]) = k /\ runs[r].sub.period = p
  BY RunNow DEF Charge
<1>2. ledger' = IF new THEN [ledger EXCEPT ![k] = [tier |-> tier, captured |-> accepted]] ELSE ledger
  BY <1>1 DEF Charge
<1>3. payments' = IF new /\ accepted THEN [payments EXCEPT ![p] = @ + 1] ELSE payments
  BY <1>1 DEF Charge
<1>4. /\ runs' = [runs EXCEPT ![r] = runs'[r]] /\ runs'[r] \in Run /\ runs'[r].pc = "record"
      /\ runs'[r].sub = runs[r].sub
      /\ \/ (runs'[r].paid <=> paid) /\ lost' = lost
         \/ ~runs'[r].paid /\ lost' = lost + 1
  <2>1. paid \in BOOLEAN
    BY <1>0, Amounts DEF Outcome
  <2>2. runs \in [Runs -> Run]
    BY <1>0, Types DEF AnyRuns
  <2> QED BY <1>1, <2>1, <2>2 DEF Charge, Run
<1>5. UNCHANGED <<sub, acct, notified, anew>> /\ KeyNow' = k
  BY DEF Charge, KeyNow
<1>6. /\ ledger'[k].tier # NoTier
      /\ \A x \in Keys \ {k} : ledger'[x] = ledger[x]
      /\ new => ledger'[k].tier = tier /\ ledger'[k].captured = accepted
      /\ ~new => ledger' = ledger
  BY <1>0, <1>1, <1>2, Amounts, Constants DEF Outcome
<1>7. /\ \A e \in Periods \ {p} : payments'[e] = payments[e]
      /\ new /\ accepted => payments'[p] = payments[p] + 1
      /\ ~new \/ ~accepted => payments'[p] = payments[p]
      /\ payments' \in [Periods -> Nat]
  BY <1>0, <1>3, Amounts
<1>8. payments[p] \in Nat /\ lost \in Nat /\ anew \in Nat /\ lost' \in Nat /\ lost' >= lost
  BY <1>0, <1>4, Amounts
<1>9. new => ~ledger[k].captured
  BY <1>0, Constants DEF Serial, KeysInOrder, Used
<1>10. new => Slack
  BY <1>0, <1>9 DEF Serial, OpenFits
<1>11. payments[p] <= 1 + lost + anew
  BY <1>0 DEF Serial, Money, OneCapturePerPeriod
<1> HIDE DEF k, p, tier, new, paid, Charge
<1>12. /\ Cardinality(DeclinedFor(p)') \in Nat /\ Cardinality(DeclinedFor(p)') >= Cardinality(DeclinedFor(p))
       /\ new /\ ~accepted => Cardinality(DeclinedFor(p)') = Cardinality(DeclinedFor(p)) + 1
  <2> DEFINE D == DeclinedFor(p)
             E == {x \in Keys : x[1] = p /\ ledger'[x].tier # NoTier /\ ~ledger'[x].captured}
  <2>1. IsFiniteSet(D) /\ Cardinality(D) \in Nat
    BY <1>0, Declined
  <2>0. DeclinedFor(p)' = E
    BY <1>5 DEF DeclinedFor, p
  <2>2. CASE new /\ ~accepted
    <3>1. E = D \union {k} /\ k \notin D
      BY <2>2, <1>0, <1>6 DEF DeclinedFor, new
    <3>2. Cardinality(E) = Cardinality(D) + 1
      BY <2>1, <3>1, FS_AddElement
    <3> QED BY <2>0, <2>1, <2>2, <3>2
  <2>3. CASE ~(new /\ ~accepted)
    <3>1. E = D
      BY <2>3, <1>0, <1>6 DEF DeclinedFor, new
    <3>2. Cardinality(DeclinedFor(p)') = Cardinality(D)
      BY <2>0, <3>1
    <3> HIDE DEF D, E
    <3> QED BY <2>1, <2>3, <3>2 DEF D
  <2> QED BY <2>2, <2>3
<1>13. Money'
  <2>1. OneCapturePerPeriod'
    <3> SUFFICES ASSUME NEW e \in Periods PROVE payments'[e] <= 1 + lost' + anew'
      BY DEF OneCapturePerPeriod
    <3>1. CASE e = p
      BY <3>1, <1>5, <1>7, <1>8, <1>10, <1>11 DEF Slack, p
    <3>2. CASE e # p
      <4>1. payments[e] \in Nat /\ payments[e] <= 1 + lost + anew
        BY <1>0, Amounts DEF Serial, Money, OneCapturePerPeriod
      <4> QED BY <3>2, <4>1, <1>5, <1>7, <1>8
    <3> QED BY <3>1, <3>2
  <2>2. RestrictedAfterRetries'
    <3> SUFFICES ASSUME acct'.status = "read_only"
                 PROVE  Cardinality(DeclinedFor(p)') + lost' + anew' >= MaxRetries
      BY <1>5 DEF RestrictedAfterRetries, p
    <3>1. Cardinality(DeclinedFor(p)) + lost + anew >= MaxRetries
      BY <1>5 DEF Serial, Money, RestrictedAfterRetries, p
    <3>2. Cardinality(DeclinedFor(p)) \in Nat /\ MaxRetries \in Nat
      BY Declined, Constants
    <3> QED BY <3>1, <3>2, <1>5, <1>8, <1>12
  <2>3. FailureNotified'
    BY <1>5 DEF Serial, Money, FailureNotified
  <2> QED BY <2>1, <2>2, <2>3 DEF Money
<1>14. NotYet'
  BY <1>1, <1>5 DEF NotYet
<1>15. KeysInOrder'
  <2>1. \A x \in Keys : Used(x)' => x[1] < sub'.period \/ (x[1] = sub'.period /\ x[2] <= sub'.retry)
    BY <1>0, <1>5, <1>6, Amounts DEF Serial, KeysInOrder, Used, KeyNow, k
  <2>2. \A x \in Keys : ledger'[x].captured => Used(x)' /\ payments'[x[1]] > 0
    <3> SUFFICES ASSUME NEW x \in Keys, ledger'[x].captured PROVE Used(x)' /\ payments'[x[1]] > 0
      OBVIOUS
    <3>1. CASE x = k /\ new
      BY <3>1, <1>0, <1>6, <1>7, <1>8 DEF Used
    <3>2. CASE x # k \/ ~new
      <4>1. Used(x) /\ payments[x[1]] > 0 /\ x[1] \in Periods
        BY <3>2, <1>6 DEF Serial, KeysInOrder, Keys
      <4>2. payments'[x[1]] > 0
        <5>1. payments[x[1]] \in Nat /\ payments'[x[1]] >= payments[x[1]]
          BY <4>1, <1>0, <1>7, <1>8, Amounts
        <5>2. payments'[x[1]] \in Nat
          BY <4>1, <1>7
        <5> QED BY <4>1, <5>1, <5>2
      <4> QED BY <3>2, <4>1, <4>2, <1>6 DEF Used
    <3> QED BY <3>1, <3>2
  <2>3. \A e \in Periods : e > sub'.period => payments'[e] = 0
    BY <1>0, <1>5, <1>7, Amounts DEF Serial, KeysInOrder, p
  <2> QED BY <2>1, <2>2, <2>3 DEF KeysInOrder
<1>16. KeysCounted'
  <2>1. ~new => Used(KeyNow)
    BY DEF Used, new, k
  <2>2. Used(KeyNow)'
    BY <1>5, <1>6 DEF Used
  <2>3. payments[p] + Cardinality(DeclinedFor(p)) >= sub.retry + (IF Used(KeyNow) THEN 1 ELSE 0)
    BY DEF Serial, KeysCounted, p
  <2>4. payments'[p] + Cardinality(DeclinedFor(p)') >= sub.retry + 1
    <3>1. CASE ~new
      BY <3>1, <2>1, <2>3, <1>7, <1>8, <1>12, <1>0, Amounts DEF p
    <3>2. CASE new /\ accepted
      BY <3>2, <2>3, <1>7, <1>8, <1>12, <1>0, Amounts DEF p
    <3>3. CASE new /\ ~accepted
      BY <3>3, <2>3, <1>7, <1>8, <1>12, <1>0, Amounts DEF p
    <3> QED BY <3>1, <3>2, <3>3
  <2> QED BY <2>2, <2>4, <1>5 DEF KeysCounted, p
<1>17. OpenFits' /\ RunFits(runs[r])'
  <2>1. CASE new /\ accepted
    <3>1. tier # sub.tier => payments[p] + 1 <= lost + anew
      BY <1>1, <2>1 DEF RunFits, Used, k, p, tier, new
    <3>2. OpenFits'
      <4>1. CASE tier = sub.tier
        BY <2>1, <4>1, <1>5, <1>6 DEF OpenFits
      <4>2. CASE tier # sub.tier
        BY <2>1, <3>1, <4>2, <1>5, <1>7, <1>8 DEF OpenFits, Slack, p
      <4> QED BY <4>1, <4>2
    <3>3. runs'[r].paid \/ Slack'
      BY <2>1, <1>4, <1>5, <1>7, <1>8, <1>10 DEF Slack, p, paid
    <3> QED BY <2>1, <3>2, <3>3, <1>1, <1>4, <1>5, <1>6 DEF RunFits, Used, ChargeKey, k
  <2>2. CASE new /\ ~accepted
    <3>1. Slack'
      BY <2>2, <1>5, <1>7, <1>8, <1>10 DEF Slack, p
    <3>2. ~runs'[r].paid
      BY <2>2, <1>4 DEF paid
    <3> QED BY <3>1, <3>2, <1>1, <1>4, <1>5, <1>6 DEF OpenFits, RunFits, Used, ChargeKey, k
  <2>3. CASE ~new
    <3>1. Slack => Slack'
      BY <2>3, <1>5, <1>7, <1>8 DEF Slack, p
    <3>2. OpenFits'
      BY <2>3, <3>1, <1>5, <1>6 DEF Serial, OpenFits, k
    <3>3. runs'[r].paid => ledger[k].captured
      BY <2>3, <1>4 DEF paid
    <3>4. ~runs'[r].paid => Slack'
      <4>1. CASE lost' = lost + 1
        BY <2>3, <4>1, <1>5, <1>7, <1>8, <1>11 DEF Slack, p
      <4>2. CASE runs'[r].paid <=> paid
        <5>1. ~(ledger[k].captured /\ ledger[k].tier = tier) => Slack
          BY <1>1 DEF Serial, OpenFits, RunFits, k, tier
        <5> QED BY <2>3, <4>2, <5>1, <3>1 DEF paid
      <4> QED BY <4>1, <4>2, <1>4
    <3> QED BY <2>3, <3>2, <3>3, <3>4, <1>1, <1>4, <1>5, <1>6 DEF RunFits, Used, ChargeKey, k
  <2> QED BY <2>1, <2>2, <2>3, <1>1
<1>18. RunsFit'
  <2>1. runs[r].pc # "idle"
    BY <1>1
  <2> QED BY <1>0, <1>4, <1>17, <2>1, OnlyRun
<1> QED BY <1>13, <1>14, <1>15, <1>16, <1>17, <1>18 DEF Serial
LEMMA RecordSuccessStep ==
  ASSUME Serial, OneAtATime, AnyRuns', NEW r \in Runs, RecordSuccess(r)
  PROVE  Serial'
<1> USE DEF userVars, moneyVars
<1>0. AnyRuns /\ sub \in Sub /\ sub'.period \in Periods /\ sub'.period = sub.period + 1 /\ sub.period \in Nat
  <2>1. AnyRuns /\ sub \in Sub /\ sub.period \in Nat
    BY Types, Amounts DEF Serial, AnyRuns
  <2> QED BY <2>1, Constants DEF RecordSuccess, Sub, Periods
<1>1. sub'.exists /\ sub'.retry = 0 /\ acct'.status = "active"
  BY <1>0, RunNow DEF RecordSuccess, Sub
<1>2. UNCHANGED <<ledger, payments, notified, lost, anew>>
  BY DEF RecordSuccess
<1>3. KeyNow' \in Keys /\ payments'[sub'.period] = 0
  <2>1. KeyNow' \in Keys
    BY <1>0, <1>1, Constants DEF KeyNow, Keys
  <2>2. payments[sub'.period] = 0
    BY <1>0 DEF Serial, KeysInOrder
  <2> QED BY <1>2, <2>1, <2>2
<1>4. ~Used(KeyNow)'
  <2>1. KeyNow'[1] = sub.period + 1
    BY <1>0 DEF KeyNow
  <2> QED BY <1>0, <1>2, <1>3, <2>1 DEF Serial, KeysInOrder, Used
<1>5. Money'
  BY <1>1, <1>2 DEF Serial, Money, OneCapturePerPeriod, RestrictedAfterRetries, FailureNotified
<1>6. NotYet'
  BY <1>1 DEF NotYet
<1>7. KeysInOrder'
  <2>1. \A k \in Keys : Used(k)' => k[1] < sub'.period \/ (k[1] = sub'.period /\ k[2] <= sub'.retry)
    <3> SUFFICES ASSUME NEW k \in Keys, Used(k)' PROVE k[1] < sub'.period
      OBVIOUS
    <3>1. k[1] <= sub.period /\ k[1] \in Nat
      BY <1>0, <1>2, Constants DEF Serial, KeysInOrder, Used, Keys, Periods
    <3> QED BY <1>0, <3>1
  <2>2. \A k \in Keys : ledger'[k].captured => Used(k)' /\ payments'[k[1]] > 0
    BY <1>2 DEF Serial, KeysInOrder, Used
  <2>3. \A e \in Periods : e > sub'.period => payments'[e] = 0
    BY <1>0, <1>2, Constants DEF Serial, KeysInOrder, Periods
  <2> QED BY <2>1, <2>2, <2>3 DEF KeysInOrder
<1>8. KeysCounted'
  <2>1. Cardinality(DeclinedFor(sub.period)') \in Nat
    <3>1. DeclinedFor(sub.period)' = {k \in Keys : k[1] = sub'.period /\ ledger[k].tier # NoTier /\ ~ledger[k].captured}
      BY <1>2 DEF DeclinedFor
    <3>2. DeclinedFor(sub.period)' = DeclinedFor(sub.period + 1)
      BY <1>0, <3>1 DEF DeclinedFor
    <3> QED BY <3>2, Declined
  <2> QED BY <1>1, <1>3, <1>4, <2>1 DEF KeysCounted
<1>9. OpenFits'
  BY <1>0, <1>2, <1>3, Amounts DEF OpenFits, Slack
<1>10. RunsFit'
  <2>1. runs[r].pc # "idle" /\ runs' = [runs EXCEPT ![r] = Idle] /\ runs'[r].pc = "idle"
    BY <1>0, Types DEF AnyRuns, RecordSuccess, Idle
  <2>2. RunFits(runs[r])'
    BY <2>1 DEF RunFits
  <2> QED BY <1>0, <2>1, <2>2, OnlyRun, IdleRun
<1> QED BY <1>5, <1>6, <1>7, <1>8, <1>9, <1>10 DEF Serial

LEMMA RecordFailureStep ==
  ASSUME Serial, OneAtATime, AnyRuns', NEW r \in Runs, RecordFailure(r)
  PROVE  Serial'
<1> USE DEF userVars, moneyVars
<1>0. AnyRuns /\ sub \in Sub /\ sub.retry \in Nat /\ sub.period \in Nat
  BY Types, Amounts DEF Serial, AnyRuns
<1>1. sub'.exists = sub.exists /\ sub'.retry = sub.retry + 1 /\ sub'.period = sub.period /\ sub'.tier = sub.tier
  BY <1>0 DEF RecordFailure, Sub
<1>2. UNCHANGED <<ledger, payments, lost, anew>>
  BY DEF RecordFailure
<1>3. /\ runs[r].pc = "record" /\ ~runs[r].paid /\ RunFits(runs[r]) /\ sub.exists
      /\ runs[r].sub.period = sub.period
  BY RunNow DEF RecordFailure
<1>4. Slack /\ Used(KeyNow)
  BY <1>3 DEF RunFits
<1>5. ~Used(KeyNow)'
  <2>1. KeyNow' \in Keys
    BY <1>0, <1>1, Constants DEF RecordFailure, KeyNow, Keys, Sub
  <2>2. KeyNow'[1] = sub.period /\ KeyNow'[2] = sub.retry + 1
    BY <1>1 DEF KeyNow
  <2> QED BY <1>0, <1>2, <2>1, <2>2 DEF Serial, KeysInOrder, Used
<1>6. payments[sub.period] + Cardinality(DeclinedFor(sub.period)) >= sub.retry + 1
  BY <1>4 DEF Serial, KeysCounted
<1>7. DeclinedFor(sub.period)' = DeclinedFor(sub.period)
  BY <1>1, <1>2 DEF DeclinedFor
<1>8. Money'
  <2>1. OneCapturePerPeriod'
    BY <1>2 DEF Serial, Money, OneCapturePerPeriod
  <2>2. RestrictedAfterRetries'
    <3> SUFFICES ASSUME acct'.status = "read_only"
                 PROVE  Cardinality(DeclinedFor(sub.period)) + lost + anew >= MaxRetries
      BY <1>2, <1>7 DEF RestrictedAfterRetries
    <3>1. CASE sub.retry + 1 >= MaxRetries
      BY <1>0, <1>4, <1>6, <3>1, Amounts DEF Slack
    <3>2. CASE ~(sub.retry + 1 >= MaxRetries)
      <4>1. acct.status = "read_only"
        BY <3>2 DEF RecordFailure
      <4> QED BY <4>1 DEF Serial, Money, RestrictedAfterRetries
    <3> QED BY <3>1, <3>2
  <2>3. FailureNotified'
    BY <1>1, <1>3 DEF RecordFailure, FailureNotified
  <2> QED BY <2>1, <2>2, <2>3 DEF Money
<1>9. NotYet'
  BY <1>1, <1>3 DEF NotYet
<1>10. KeysInOrder'
  <2>1. \A k \in Keys : Used(k)' => k[1] < sub'.period \/ (k[1] = sub'.period /\ k[2] <= sub'.retry)
    <3> SUFFICES ASSUME NEW k \in Keys, Used(k)', ~(k[1] < sub.period)
                 PROVE  k[1] = sub.period /\ k[2] <= sub.retry + 1
      BY <1>1
    <3>1. k[1] = sub.period /\ k[2] <= sub.retry /\ k[2] \in Nat
      BY <1>2, Constants DEF Serial, KeysInOrder, Used, Keys
    <3> QED BY <1>0, <3>1
  <2> QED BY <1>1, <1>2, <2>1 DEF Serial, KeysInOrder, Used
<1>11. KeysCounted'
  BY <1>0, <1>1, <1>2, <1>5, <1>6, <1>7 DEF KeysCounted
<1>12. OpenFits'
  BY <1>1, <1>2, <1>4 DEF OpenFits, Slack
<1>13. RunsFit'
  <2>1. runs[r].pc # "idle" /\ runs' = [runs EXCEPT ![r] = Idle] /\ runs'[r].pc = "idle"
    BY <1>0, Types DEF AnyRuns, RecordFailure, Idle
  <2>2. RunFits(runs[r])'
    BY <2>1 DEF RunFits
  <2> QED BY <1>0, <2>1, <2>2, OnlyRun, IdleRun
<1> QED BY <1>8, <1>9, <1>10, <1>11, <1>12, <1>13 DEF Serial

LEMMA SerialStep == Serial /\ OneAtATime /\ [Next]_vars => Serial'
<1> SUFFICES ASSUME Serial, OneAtATime, [Next]_vars PROVE Serial'
  OBVIOUS
<1>0. AnyRuns'
  BY AnyStep DEF Serial
<1>1. CASE Request
  <2>1. ASSUME NEW t \in Tiers, Subscribe(t) PROVE Serial'
    BY <1>0, <2>1, SubscribeStep
  <2>2. CASE ~\E t \in Tiers : Subscribe(t)
    BY <1>0, <1>1, <2>2, FrameStep DEF Request
  <2> QED BY <2>1, <2>2
<1>2. ASSUME NEW r \in Runs, RunStep(r) PROVE Serial'
  BY <1>0, <1>2, FrameStep, ReadSubStep, ChargeStep, RecordSuccessStep, RecordFailureStep DEF RunStep
<1>3. CASE Tick \/ Crash \/ (\E r \in Runs : FailRun(r)) \/ UNCHANGED vars
  BY <1>0, <1>3, FrameStep
<1> QED BY <1>1, <1>2, <1>3 DEF Next, Step

\* What can be relied on until runs meet.
StillSerial == met \/ (Serial /\ OneAtATime)

LEMMA SerialAlways == Spec => []StillSerial
<1>1. Init => StillSerial
  BY SerialStart DEF Init, Idle, OneAtATime, StillSerial
<1>2. StillSerial /\ [Next]_vars => StillSerial'
  <2> SUFFICES ASSUME StillSerial, [Next]_vars, ~met' PROVE Serial' /\ OneAtATime'
    BY DEF StillSerial
  <2>1. ~met
    BY DEF Next, Watch, vars
  <2>2. Serial /\ OneAtATime
    BY <2>1 DEF StillSerial
  <2>3. OneAtATime'
    BY <2>2 DEF Next, Watch, vars, OneAtATime
  <2> QED BY <2>2, <2>3, SerialStep
<1> QED BY <1>1, <1>2, PTL DEF Spec

\* The account agrees with the subscription and, until two runs have been in progress
\* at once, so do the notices: incrementRetry counts on the row, the notice is keyed by
\* the period the run has read.
THEOREM RowsAlwaysAgree == Spec => []RowsAgree
<1>1. AnyRuns /\ StillSerial => RowsAgree
  BY DEF StillSerial, Serial, AnyRuns, Money, RowsAgree
<1> QED BY <1>1, AnyAlways, SerialAlways, PTL

\* ... no period is captured twice but for lost answers and subscribing anew, also when
\* runs die between charge and record (providers.ts:46), and nobody is restricted before
\* MaxRetries charges of the period were declined (REQ 13.4, 13.5), with the same
\* exceptions.
THEOREM MoneyAlwaysRight == Spec => []MoneyIsRight
<1>1. StillSerial => MoneyIsRight
  BY DEF StillSerial, Serial, Money, MoneyIsRight
<1> QED BY <1>1, SerialAlways, PTL

\* REQ 13.5, 13.6: a restriction is lifted, and the tier changes, by a run whose charge
\* was captured or by subscribing anew (recordSuccessfulCharge and applyPendingTier).
THEOREM ChangesAreAlwaysPaid == Spec => ChangesArePaid
<1> DEFINE Paid == (\/ acct.status = "read_only" /\ acct'.status = "active"
                    \/ sub.exists /\ acct'.tier # acct.tier) =>
                      payments[sub.period] > 0 \/ \E t \in Tiers : Subscribe(t)
<1>1. ASSUME Serial, Step PROVE Paid
  <2>1. ASSUME NEW r \in Runs, RecordSuccess(r) PROVE payments[sub.period] > 0
    <3>1. runs[r].pc = "record" /\ runs[r].paid
      BY <2>1 DEF RecordSuccess
    <3>2. ledger[KeyNow].captured
      BY <1>1, <3>1, RunNow DEF RunFits
    <3>3. KeyNow \in Keys /\ KeyNow[1] = sub.period
      BY <1>1, Amounts DEF Serial, KeyNow
    <3> QED BY <1>1, <3>2, <3>3 DEF Serial, KeysInOrder
  <2>2. ASSUME NEW r \in Runs, RecordFailure(r)
        PROVE  acct'.tier = acct.tier /\ (acct'.status = "active" => acct.status = "active")
    BY <2>2 DEF RecordFailure
  <2>3. CASE acct' = acct
    BY <2>3
  <2> HIDE DEF Paid
  <2> QED
    BY <1>1, <2>1, <2>2, <2>3
       DEF Paid, Step, Request, RunStep, Tick, ChangeTierCheck, SelectRegions, FilterCheck, SetPending,
           FilterWrite, JobList, Pay, ReadSub, Charge, FailRun, Crash
<1>2. StillSerial /\ [Next]_vars => [~met' => Paid]_vars
  <2> SUFFICES ASSUME StillSerial, Next, ~met' PROVE Paid
    OBVIOUS
  <2>1. Serial /\ Step
    BY DEF StillSerial, Next, Watch
  <2> QED BY <1>1, <2>1
<1> QED BY <1>2, SerialAlways, PTL DEF Spec, ChangesArePaid
-----------------------------------------------------------------------------
(* The billing contract. *)

\* What the contract sees of the rows and the ledger.
Access == IF ~sub.exists THEN "none" ELSE IF acct.status = "read_only" THEN "restricted" ELSE "active"
Wanted == IF sub.exists THEN sub.pending ELSE NoTier
Refused == [e \in Periods |-> Cardinality(DeclinedFor(e))]

\* A step of the owner or of a run that leaves the ledger alone leaves its counts alone.
LEMMA SameLedger ==
  ASSUME UNCHANGED <<ledger, payments, lost>>
  PROVE  Refused' = Refused
<1>1. \A e : DeclinedFor(e)' = DeclinedFor(e)
  BY DEF DeclinedFor
<1> QED BY <1>1 DEF Refused

LEMMA SubscribesAsPromised ==
  ASSUME Serial, NEW t \in Tiers, Subscribe(t)
  PROVE  Contract!Step
<1>1. UNCHANGED <<ledger, payments, lost>> /\ Refused' = Refused
  BY SameLedger DEF Subscribe, moneyVars
<1>2. sub \in Sub /\ lost \in Nat /\ anew \in Nat
  BY Types DEF Serial, AnyRuns
<1>3. sub'.exists /\ sub'.period = sub.period /\ Wanted' = Wanted
  BY <1>2 DEF Serial, NotYet, Subscribe, Sub, NoSub, Wanted
<1>4. acct'.tier = t /\ Access' = "active"
  BY <1>3 DEF Subscribe, Access
<1>5. lost' + anew' = IF Access = "none" THEN lost + anew ELSE lost + anew + 1
  BY <1>1, <1>2 DEF Subscribe, Access
<1>6. Contract!Subscribe(t)
  BY <1>1, <1>3, <1>4, <1>5 DEF Contract!Subscribe, Access, Wanted, Refused
<1> QED BY <1>6 DEF Contract!Step

LEMMA AsksAsPromised ==
  ASSUME Serial, NEW f \in inflight, SetPending(f)
  PROVE  Contract!Step \/ UNCHANGED Contract!promise
<1>1. UNCHANGED <<ledger, payments, lost, anew, acct>> /\ Refused' = Refused
  BY SameLedger DEF SetPending, moneyVars
<1>2. sub \in Sub /\ f \in Half /\ f.tier \in Tiers
  BY Types DEF Serial, AnyRuns, Half
<1>3. CASE sub.exists
  <2>1. sub'.period = sub.period /\ Access' = Access /\ Access # "none" /\ Wanted' = f.tier
    BY <1>1, <1>2, <1>3 DEF SetPending, Sub, Access, Wanted
  <2>2. Contract!AskForTier(f.tier)
    BY <1>1, <2>1 DEF Contract!AskForTier, Access, Wanted, Refused
  <2>3. \E t \in Tiers : Contract!AskForTier(t)
    BY <1>2, <2>2
  <2> QED BY <2>3 DEF Contract!Step
<1>4. CASE ~sub.exists
  <2>1. sub' = sub
    BY <1>4 DEF SetPending
  <2> QED BY <1>1, <2>1 DEF Refused, Contract!promise
<1> QED BY <1>3, <1>4

\* A charge of the only run is of the open period, and captures it once more only where
\* the mishaps so far allow for it.
LEMMA ChargesStepPromised ==
  ASSUME Serial, OneAtATime, NEW r \in Runs, NEW accepted \in BOOLEAN, Charge(r, accepted)
  PROVE  Contract!Step
<1> DEFINE k == KeyNow
           p == sub.period
           new == ledger[k].tier = NoTier
<1>0. /\ k \in Keys /\ p \in Periods /\ k[1] = p /\ ledger \in [Keys -> Outcome]
      /\ payments \in [Periods -> Nat] /\ lost \in Nat /\ anew \in Nat
  BY Amounts DEF Serial, KeyNow
<1>1. ChargeKey(runs[r]) = k /\ runs[r].sub.period = p /\ runs[r].sub.tier \in Tiers /\ sub.exists
  BY RunNow DEF Charge
<1>2. /\ ledger' = (IF new THEN [ledger EXCEPT ![k] = [tier |-> runs[r].sub.tier, captured |-> accepted]]
                    ELSE ledger)
      /\ payments' = (IF new /\ accepted THEN [payments EXCEPT ![p] = @ + 1] ELSE payments)
  BY <1>1 DEF Charge
<1>3. lost' + anew' \in {lost + anew, lost + anew + 1} /\ UNCHANGED <<sub, acct>>
  BY <1>0 DEF Charge
<1>4. new => Slack /\ ~ledger[k].captured
  BY <1>0, Constants DEF Serial, KeysInOrder, Used, OpenFits
<1>5. /\ \A x \in Keys \ {k} : ledger'[x] = ledger[x]
      /\ new => ledger'[k].tier # NoTier /\ ledger'[k].captured = accepted
      /\ ~new => ledger' = ledger
  BY <1>0, <1>1, <1>2, Constants
<1> HIDE DEF k, p, new
<1>6. Refused' = IF new /\ ~accepted THEN [Refused EXCEPT ![p] = @ + 1] ELSE Refused
  <2> DEFINE After(e) == {x \in Keys : x[1] = e /\ ledger'[x].tier # NoTier /\ ~ledger'[x].captured}
  <2>0. Refused' = [e \in Periods |-> Cardinality(After(e))]
    BY DEF Refused, DeclinedFor
  <2>1. CASE new /\ ~accepted
    <3>1. After(p) = DeclinedFor(p) \union {k} /\ k \notin DeclinedFor(p)
      BY <1>0, <1>5, <2>1 DEF DeclinedFor, new
    <3>2. Cardinality(After(p)) = Cardinality(DeclinedFor(p)) + 1
      <4>1. IsFiniteSet(DeclinedFor(p))
        BY Declined
      <4>2. Cardinality(DeclinedFor(p) \union {k}) = Cardinality(DeclinedFor(p)) + 1
        BY <3>1, <4>1, FS_AddElement
      <4> QED BY <3>1, <4>2
    <3>3. \A e \in Periods \ {p} : After(e) = DeclinedFor(e)
      BY <1>0, <1>5 DEF DeclinedFor
    <3> HIDE DEF After
    <3>4. \A e \in Periods : Cardinality(After(e)) = IF e = p THEN Refused[p] + 1 ELSE Refused[e]
      BY <1>0, <3>2, <3>3 DEF Refused
    <3>5. Refused' = [e \in Periods |-> IF e = p THEN Refused[p] + 1 ELSE Refused[e]]
      BY <2>0, <3>4
    <3>6. Refused = [e \in Periods |-> Refused[e]]
      BY DEF Refused
    <3> QED BY <1>0, <2>1, <3>5, <3>6
  <2>2. CASE ~(new /\ ~accepted)
    <3>1. \A e \in Periods : After(e) = DeclinedFor(e)
      BY <1>0, <1>5, <2>2 DEF DeclinedFor, new
    <3> HIDE DEF After
    <3> QED BY <2>0, <2>2, <3>1 DEF Refused
  <2> QED BY <2>1, <2>2
<1>7. Access' = Access /\ Access # "none" /\ Wanted' = Wanted
  BY <1>1, <1>3 DEF Access, Wanted
<1>8. Contract!Capture \/ Contract!Decline \/ UNCHANGED <<payments, Refused>>
  <2>1. CASE new /\ accepted
    BY <1>2, <1>4, <1>6, <2>1 DEF Contract!Capture, Slack, Refused, p
  <2>2. CASE new /\ ~accepted
    BY <1>2, <1>6, <2>2 DEF Contract!Decline, Refused, p
  <2>3. CASE ~new
    BY <1>2, <1>6, <2>3
  <2> QED BY <2>1, <2>2, <2>3
<1>9. Contract!Charge
  BY <1>3, <1>7, <1>8 DEF Contract!Charge, Access, Wanted, Refused
<1> QED BY <1>9 DEF Contract!Step

\* What it records as a success is paid for.
LEMMA RenewsAsPromised ==
  ASSUME Serial, OneAtATime, NEW r \in Runs, RecordSuccess(r)
  PROVE  Contract!Step
<1>1. UNCHANGED <<ledger, payments, lost, anew>> /\ Refused' = Refused
  BY SameLedger DEF RecordSuccess, moneyVars
<1>2. sub \in Sub /\ sub.period \in Periods /\ KeyNow \in Keys /\ KeyNow[1] = sub.period
  BY Types, Amounts DEF Serial, AnyRuns, KeyNow
<1>3. sub.exists /\ ledger[KeyNow].captured
  BY RunNow DEF RunFits, RecordSuccess
<1>4. payments[sub.period] > 0
  BY <1>2, <1>3 DEF Serial, KeysInOrder
<1>5. sub.period + 1 \in Periods
  BY <1>2, Constants DEF RecordSuccess, Periods
<1>6. /\ sub'.period = sub.period + 1 /\ Access' = "active" /\ Wanted' = NoTier
      /\ acct'.tier = IF Wanted = NoTier THEN acct.tier ELSE Wanted
  BY <1>2, <1>3 DEF RecordSuccess, Sub, Access, Wanted
<1>7. Contract!Renew
  BY <1>1, <1>4, <1>5, <1>6 DEF Contract!Renew, Access, Wanted, Refused
<1> QED BY <1>7 DEF Contract!Step

\* A failure that restricts the account is the last of MaxRetries the owner was promised.
LEMMA RestrictsAsPromised ==
  ASSUME Serial, OneAtATime, AnyRuns', NEW r \in Runs, RecordFailure(r)
  PROVE  Contract!Step \/ UNCHANGED Contract!promise
<1>1. UNCHANGED <<ledger, payments, lost, anew>> /\ Refused' = Refused
  BY SameLedger DEF RecordFailure, moneyVars
<1>2. sub \in Sub /\ sub.exists /\ acct \in [tier : Tiers, status : {"active", "read_only"}]
      /\ sub.period \in Periods
  BY RunNow, Types, Amounts DEF Serial, AnyRuns, RecordFailure
<1>3. sub'.exists /\ sub'.period = sub.period /\ acct'.tier = acct.tier /\ Wanted' = Wanted
  BY <1>2 DEF RecordFailure, Sub, Wanted
<1>4. CASE Access' = Access
  BY <1>1, <1>3, <1>4 DEF Contract!promise, Access, Wanted, Refused
<1>5. CASE Access' # Access
  <2>1. acct.status = "active" /\ acct'.status = "read_only"
    BY <1>2, <1>3, <1>5 DEF RecordFailure, Access
  <2>2. Access = "active" /\ Access' = "restricted"
    BY <1>2, <1>3, <2>1 DEF Access
  <2>3. Refused[sub.period] + lost + anew >= MaxRetries
    <3>1. RestrictedAfterRetries'
      BY RecordFailureStep DEF Serial, Money
    <3>2. DeclinedFor(sub.period)' = DeclinedFor(sub.period)
      BY <1>1, <1>3 DEF DeclinedFor
    <3>3. Cardinality(DeclinedFor(sub.period)) + lost + anew >= MaxRetries
      BY <1>1, <2>1, <3>1, <3>2 DEF RestrictedAfterRetries
    <3> QED BY <1>2, <3>3 DEF Refused
  <2>4. Refused[sub.period] \in Nat /\ lost \in Nat /\ anew \in Nat /\ MaxRetries \in Nat
    BY <1>2, Amounts, Declined DEF Serial, Refused
  <2>5. Refused[sub.period] + (lost + anew) >= MaxRetries
    BY <2>3, <2>4
  <2>6. Contract!Restrict
    BY <1>1, <1>3, <2>2, <2>5 DEF Contract!Restrict, Access, Wanted, Refused
  <2> QED BY <2>6 DEF Contract!Step
<1> QED BY <1>4, <1>5

\* REQ 13.3-13.6: until two of them overlap, runs of runBillingCycle keep the contract
\* with the owner: a period is renewed for its payment and with the tier asked for, access ends
\* after MaxRetries refusals of the period, and no period is taken twice, each of them
\* but for lost answers and subscriptions made anew.
THEOREM KeepsBillingContract == Spec => ChargesAsPromised
<1>1. Init => Contract!Init
  <2> SUFFICES ASSUME Init PROVE Contract!Init
    OBVIOUS
  <2>1. \A e : DeclinedFor(e) = {}
    BY DEF Init, NoCharge, DeclinedFor
  <2>2. Refused = [e \in Periods |-> 0]
    BY <2>1, FS_EmptySet DEF Refused
  <2> QED BY <2>2 DEF Init, NoSub, Refused, Contract!Init
<1>2. ASSUME Serial, OneAtATime, Next PROVE Contract!Step \/ UNCHANGED Contract!promise
  <2>0. AnyRuns'
    BY <1>2, AnyStep DEF Serial
  <2>1. CASE UNCHANGED <<sub, acct, ledger, payments, lost, anew>>
    BY <2>1, SameLedger DEF Refused, Contract!promise
  <2>2. ASSUME NEW r \in Runs, RunStep(r) PROVE Contract!Step \/ UNCHANGED Contract!promise
    <3>1. CASE JobList(r) \/ ReadSub(r)
      BY <2>1, <3>1 DEF JobList, ReadSub, moneyVars
    <3> QED
      BY <1>2, <2>0, <2>2, <3>1, ChargesStepPromised, RenewsAsPromised, RestrictsAsPromised DEF RunStep
  <2>3. CASE Request
    <3>1. CASE \E t \in Tiers : Subscribe(t)
      BY <1>2, <3>1, SubscribesAsPromised
    <3>2. CASE \E f \in inflight : SetPending(f)
      BY <1>2, <3>2, AsksAsPromised
    <3> QED
      BY <2>1, <2>3, <3>1, <3>2
         DEF Request, ChangeTierCheck, SelectRegions, FilterCheck, FilterWrite, Pay, moneyVars
  <2>4. CASE Tick \/ Crash \/ \E r \in Runs : FailRun(r)
    BY <2>1, <2>4 DEF Tick, Crash, FailRun, moneyVars
  <2> QED BY <1>2, <2>2, <2>3, <2>4 DEF Next, Step
<1>3. StillSerial /\ [Next]_vars => [Contract!Next]_(Contract!vars)
  <2>1. CASE UNCHANGED vars
    <3>1. Refused' = Refused
      BY <2>1, SameLedger DEF vars
    <3> QED BY <2>1, <3>1 DEF vars, Refused, Contract!vars, Contract!promise
  <2>2. ASSUME StillSerial, Next, ~met' PROVE [Contract!Next]_(Contract!vars)
    <3>1. Serial /\ OneAtATime /\ UNCHANGED met
      BY <2>2 DEF StillSerial, Next, Watch
    <3>2. Contract!Step \/ UNCHANGED Contract!promise
      BY <1>2, <2>2, <3>1
    <3> QED BY <3>1, <3>2 DEF Contract!Next, Contract!vars
  <2>3. CASE met'
    BY <2>3 DEF Contract!Next
  <2> QED BY <2>1, <2>2, <2>3
<1> QED BY <1>1, <1>3, SerialAlways, PTL DEF Spec, ChargesAsPromised, Contract!Spec
=============================================================================
