--------------------------- MODULE DashboardProofs ---------------------------
(***************************************************************************)
(* Proofs about what the dashboard shows: that the page keeps up with the  *)
(* database (Realtime), for any numbers of sockets, changes and fetches    *)
(* that overlap; match scores (Scoring), for tenders and filters of every  *)
(* shape; predictions and who gets them (BidBrain), for any groups,        *)
(* prices, outcomes, overlapping requests and changes of the tier.         *)
(***************************************************************************)
EXTENDS Realtime, Insights, FiniteSetTheorems, WellFoundedInduction, TLAPS

-----------------------------------------------------------------------------
(* The page. *)

FetchRecord == [pc : {"free", "asked", "early", "answered"}, version : 0..MaxVersion]

\* The page's socket is open, as no other is, and sockets are subscribed once, after
\* they were opened and validated.
SocketsFit ==
  /\ ws # NoSocket => socket[ws] = "open"
  /\ \A s \in Sockets : socket[s] = "open" => s = ws
  /\ \A s \in validating \union subscribed : socket[s] # "new"
  /\ validating \intersect subscribed = {}

\* Nothing shown or answered is from the future, and newest is what it says.
VersionsFit ==
  /\ view <= newest /\ newest <= db
  /\ told <= db /\ matched <= db
  /\ \A f \in Fetches : fetch[f].version <= db

\* What will make the page fetch, or show, version v or a later one.
Coming(v) ==
  \/ ws \notin subscribed
  \/ ws \in pushed
  \/ reload
  \/ \E f \in Fetches : \/ fetch[f].pc \in {"asked", "early"}
                        \/ fetch[f].pc = "answered" /\ fetch[f].version >= v

\* A page that has not shown what there was when the hub last sent to it has something
\* coming, and a match the hub has not told a subscribed page of is yet to be published.
NewsComing ==
  /\ newest >= told \/ Coming(told)
  /\ matched <= told \/ unsaid > 0 \/ ws \notin subscribed

IInv == TypeOK /\ SocketsFit /\ VersionsFit /\ NewsComing

-----------------------------------------------------------------------------
(* Types. *)

LEMMA Bounds ==
  MaxSockets \in Nat \ {0} /\ MaxVersion \in Nat /\ MaxFetches \in Nat \ {0} /\ MaxPolls \in Nat
BY RealtimeAssumption DEF RealtimeAssumption

LEMMA SocketNumbers == NoSocket \notin Sockets
BY Bounds DEF NoSocket, Sockets

LEMMA Integers ==
  ASSUME TypeOK
  PROVE  /\ db \in Nat /\ view \in Nat /\ newest \in Nat /\ told \in Nat /\ matched \in Nat /\ unsaid \in Nat
         /\ \A f \in Fetches : fetch[f].version \in Nat
BY Bounds DEF TypeOK

LEMMA FetchType ==
  ASSUME TypeOK, NEW f \in Fetches
  PROVE  fetch[f] \in FetchRecord /\ fetch[f].version \in 0..MaxVersion
BY DEF TypeOK, FetchRecord

LEMMA FreeType == Free \in FetchRecord /\ Free.pc = "free" /\ Free.version = 0
BY Bounds DEF Free, FetchRecord

\* A fetch that is replaced by another record.
LEMMA FetchUpdate ==
  ASSUME TypeOK, NEW f \in Fetches, NEW r \in FetchRecord, fetch' = [fetch EXCEPT ![f] = r]
  PROVE  /\ fetch' \in [Fetches -> FetchRecord]
         /\ fetch'[f] = r /\ \A g \in Fetches \ {f} : fetch'[g] = fetch[g]
BY DEF TypeOK, FetchRecord

LEMMA AskStarts ==
  ASSUME TypeOK, NEW f \in Fetches, Ask(f)
  PROVE  /\ fetch' \in [Fetches -> FetchRecord]
         /\ fetch'[f].pc = "asked" /\ fetch'[f].version = fetch[f].version
         /\ fetch[f].pc = "free" /\ \A g \in Fetches \ {f} : fetch'[g] = fetch[g]
<1> DEFINE r == [fetch[f] EXCEPT !.pc = "asked"]
<1>1. r \in FetchRecord /\ r.pc = "asked" /\ r.version = fetch[f].version
  BY FetchType DEF FetchRecord
<1>2. fetch' = [fetch EXCEPT ![f] = r]
  BY DEF Ask, TypeOK
<1> HIDE DEF r
<1> QED BY <1>1, <1>2, FetchUpdate DEF Ask

-----------------------------------------------------------------------------
(* Steps. *)

LEMMA Start == Init => IInv
<1> SUFFICES ASSUME Init PROVE IInv OBVIOUS
<1> USE DEF Init
<1>1. TypeOK
  <2>1. fetch \in [Fetches -> FetchRecord]
    BY FreeType
  <2>2. 0 \in 0..MaxVersion /\ 0 \in 0..MaxPolls
    BY Bounds
  <2>3. /\ db \in 0..MaxVersion /\ view \in 0..MaxVersion /\ newest \in 0..MaxVersion
        /\ told \in 0..MaxVersion /\ matched \in 0..MaxVersion /\ unsaid \in 0..MaxPolls
    BY <2>2
  <2>4. socket \in [Sockets -> {"new", "open", "closed"}]
    OBVIOUS
  <2> QED BY <2>1, <2>3, <2>4 DEF TypeOK, FetchRecord
<1>2. SocketsFit
  BY DEF SocketsFit
<1>3. VersionsFit
  BY FreeType DEF VersionsFit
<1>4. NewsComing
  BY DEF NewsComing
<1> QED BY <1>1, <1>2, <1>3, <1>4 DEF IInv

\* A version more in the database.
LEMMA ChangeStep ==
  ASSUME IInv, PollMatches \/ Silently
  PROVE  IInv'
<1> USE DEF PollMatches, Silently, hubVars, ghosts
<1>0. TypeOK /\ SocketsFit /\ VersionsFit /\ NewsComing
  BY DEF IInv
<1>1. UNCHANGED <<socket, validating, subscribed, ws, pushed, ended, early, signed, reload, fetch, view, told, newest>>
  OBVIOUS
<1>2. /\ db' = db + 1 /\ db' \in 0..MaxVersion
      /\ unsaid' \in 0..MaxPolls
      /\ matched' \in 0..MaxVersion /\ matched' <= db'
      /\ UNCHANGED matched \/ unsaid' > 0
      /\ unsaid > 0 => unsaid' > 0
  <2>1. db \in 0..MaxVersion /\ unsaid \in 0..MaxPolls /\ matched \in 0..MaxVersion /\ matched <= db
    BY <1>0 DEF TypeOK, VersionsFit
  <2>2. db < MaxVersion /\ db' = db + 1
    OBVIOUS
  <2>3. CASE PollMatches
    BY <2>1, <2>2, <2>3, Bounds
  <2>4. CASE Silently
    BY <2>1, <2>2, <2>4, Bounds
  <2> QED BY <2>3, <2>4
<1> HIDE DEF PollMatches, Silently
<1>3. TypeOK'
  BY <1>0, <1>1, <1>2 DEF TypeOK
<1>4. SocketsFit'
  BY <1>0, <1>1 DEF SocketsFit
<1>5. VersionsFit'
  BY <1>0, <1>1, <1>2, Integers DEF VersionsFit
<1>6. NewsComing'
  BY <1>0, <1>1, <1>2 DEF NewsComing, Coming
<1> QED BY <1>3, <1>4, <1>5, <1>6 DEF IInv

\* An event is on its way to the page if it is subscribed.
LEMMA PublishStep ==
  ASSUME IInv, PollPublishes \/ MaintainPublishes
  PROVE  IInv'
<1> USE DEF PollPublishes, MaintainPublishes, Publish, Receivers, changeVars, hubVars
<1>0. TypeOK /\ SocketsFit /\ VersionsFit /\ NewsComing
  BY DEF IInv
<1>1. /\ UNCHANGED <<db, socket, validating, subscribed, ws, ended, early, signed, reload, fetch, view, matched, newest>>
      /\ told' = db
      /\ pushed' = pushed \union {s \in subscribed : socket[s] = "open"}
  OBVIOUS
<1>2. unsaid' \in 0..MaxPolls
  BY <1>0, Bounds DEF TypeOK
<1> HIDE DEF PollPublishes, MaintainPublishes
<1>3. TypeOK'
  BY <1>0, <1>1, <1>2 DEF TypeOK
<1>4. SocketsFit'
  BY <1>0, <1>1 DEF SocketsFit
<1>5. VersionsFit'
  BY <1>0, <1>1, Integers DEF VersionsFit
<1>6. NewsComing'
  <2>1. ws \in subscribed => ws \in pushed'
    BY <1>0, <1>1, SocketNumbers DEF TypeOK, SocketsFit
  <2>2. matched' <= told'
    BY <1>0, <1>1 DEF VersionsFit
  <2> QED BY <2>1, <2>2, <1>1 DEF NewsComing, Coming
<1> QED BY <1>3, <1>4, <1>5, <1>6 DEF IInv

\* A page without a subscribed socket has to connect first, and fetches upon that.
LEMMA NoSocketIsComing ==
  ASSUME TypeOK', ws' = NoSocket
  PROVE  NewsComing'
BY SocketNumbers DEF NewsComing, Coming, TypeOK

LEMMA EndSessionStep ==
  ASSUME IInv, EndSession
  PROVE  IInv'
<1> USE DEF EndSession, changeVars, ghosts
<1>0. TypeOK /\ SocketsFit /\ VersionsFit /\ NewsComing
  BY DEF IInv
<1>1. ASSUME NEW f \in Fetches PROVE [fetch[f] EXCEPT !.pc = "early"] \in FetchRecord
  BY <1>0, <1>1, FetchType DEF FetchRecord
<1>2. fetch' \in [Fetches -> FetchRecord]
  BY <1>0, <1>1, FetchType
<1>3. TypeOK'
  BY <1>0, <1>2 DEF TypeOK, FetchRecord
<1>4. \A f \in Fetches : /\ fetch'[f].version = fetch[f].version
                         /\ fetch[f].pc \in {"asked", "early"} => fetch'[f].pc = "early"
                         /\ fetch[f].pc = "answered" => fetch'[f].pc = "answered"
  BY <1>0, FetchType DEF FetchRecord
<1>5. SocketsFit' /\ VersionsFit'
  BY <1>0, <1>4 DEF SocketsFit, VersionsFit
<1>6. NewsComing'
  BY <1>0, <1>4 DEF NewsComing, Coming
<1> QED BY <1>3, <1>5, <1>6 DEF IInv

LEMMA SignOutStep ==
  ASSUME IInv, SignOut
  PROVE  IInv'
<1> USE DEF SignOut, changeVars, ghosts
<1>0. TypeOK /\ SocketsFit /\ VersionsFit
  BY DEF IInv
<1>1. fetch' \in [Fetches -> FetchRecord] /\ \A f \in Fetches : fetch'[f].version = 0
  BY FreeType
<1>2. TypeOK'
  BY <1>0, <1>1 DEF TypeOK, FetchRecord
<1>3. SocketsFit'
  BY <1>0 DEF SocketsFit, TypeOK
<1>4. VersionsFit'
  BY <1>0, <1>1, Integers DEF VersionsFit
<1> QED BY <1>2, <1>3, <1>4, NoSocketIsComing DEF IInv

\* A fresh socket is not subscribed yet.
LEMMA ConnectStep ==
  ASSUME IInv, NEW s \in Sockets, NEW f \in Fetches, Connect(s, f)
  PROVE  IInv'
<1> USE DEF Connect, changeVars, sessionVars, ghosts
<1>0. TypeOK /\ SocketsFit /\ VersionsFit
  BY DEF IInv
<1>1. socket[s] = "new" /\ s \notin subscribed
  BY <1>0 DEF New, SocketsFit
<1>2. /\ fetch' \in [Fetches -> FetchRecord]
      /\ \A g \in Fetches : fetch'[g].version = fetch[g].version
  <2>1. CASE Ask(f)
    BY <2>1, <1>0, AskStarts
  <2>2. CASE UNCHANGED fetch
    BY <2>2, <1>0 DEF TypeOK, FetchRecord
  <2> QED BY <2>1, <2>2
<1>3. socket' \in [Sockets -> {"new", "open", "closed"}] /\ socket'[s] = "open"
      /\ \A x \in Sockets \ {s} : socket'[x] = socket[x]
  BY <1>0 DEF TypeOK
<1>4. TypeOK'
  BY <1>0, <1>1, <1>2, <1>3 DEF TypeOK, FetchRecord
<1>5. SocketsFit'
  <2>1. ws' = s /\ \A x \in Sockets : socket[x] # "open"
    BY <1>0, SocketNumbers DEF SocketsFit
  <2> QED BY <1>0, <1>1, <1>3, <2>1 DEF SocketsFit, TypeOK
<1>6. VersionsFit'
  BY <1>0, <1>2 DEF VersionsFit
<1>7. NewsComing'
  BY <1>1 DEF NewsComing, Coming
<1> QED BY <1>4, <1>5, <1>6, <1>7 DEF IInv

\* The greeting of the socket that is subscribed makes the page fetch.
LEMMA SubscribeStep ==
  ASSUME IInv, NEW s \in Sockets, Subscribe(s)
  PROVE  IInv'
<1> USE DEF Subscribe, Validated, changeVars
<1>0. TypeOK /\ SocketsFit /\ VersionsFit /\ NewsComing
  BY DEF IInv
<1>1. TypeOK'
  BY <1>0 DEF TypeOK
<1>4. told' <= db /\ matched <= db /\ told' \in {told, db}
  BY <1>0, Integers DEF VersionsFit
<1>2. SocketsFit' /\ VersionsFit'
  BY <1>0, <1>4 DEF SocketsFit, VersionsFit
<1>3. NewsComing'
  <2>1. CASE ws = s
    <3>1. ws \in pushed'
      BY <2>1, <1>0, SocketNumbers DEF SocketsFit
    <3>2. matched' <= told'
      BY <2>1, <1>0, SocketNumbers DEF SocketsFit, VersionsFit
    <3> QED BY <3>1, <3>2 DEF NewsComing, Coming
  <2>2. CASE ws # s
    <3>1. told' = told
      BY <2>2, <1>0 DEF SocketsFit
    <3>2. ws \in subscribed' => ws \in subscribed
      BY <2>2
    <3>3. ws \in pushed => ws \in pushed'
      OBVIOUS
    <3>4. Coming(told) => Coming(told)'
      BY <3>1, <3>2, <3>3 DEF Coming
    <3> QED BY <3>1, <3>2, <3>4, <1>0 DEF NewsComing
  <2> QED BY <2>1, <2>2
<1> QED BY <1>1, <1>2, <1>3 DEF IInv

LEMMA RejectStep ==
  ASSUME IInv, NEW s \in Sockets, Reject(s)
  PROVE  IInv'
<1> USE DEF Reject, changeVars, ghosts
<1>0. TypeOK /\ SocketsFit /\ VersionsFit /\ NewsComing
  BY DEF IInv
<1>1. s \notin subscribed
  BY <1>0 DEF SocketsFit
<1>2. TypeOK'
  BY <1>0, <1>1 DEF TypeOK
<1>3. SocketsFit' /\ VersionsFit'
  BY <1>0 DEF SocketsFit, VersionsFit, TypeOK
<1>4. NewsComing'
  BY <1>0, <1>1, SocketNumbers DEF NewsComing, Coming, TypeOK
<1> QED BY <1>2, <1>3, <1>4 DEF IInv

LEMMA DropStep ==
  ASSUME IInv, NEW s \in Sockets, Drop(s)
  PROVE  IInv'
<1> USE DEF Drop, changeVars, sessionVars, ghosts
<1>0. TypeOK /\ SocketsFit /\ VersionsFit
  BY DEF IInv
<1>1. TypeOK'
  BY <1>0 DEF TypeOK
<1>2. SocketsFit' /\ VersionsFit'
  BY <1>0 DEF SocketsFit, VersionsFit, TypeOK
<1> QED BY <1>1, <1>2, NoSocketIsComing DEF IInv

LEMMA CrashStep ==
  ASSUME IInv, Crash
  PROVE  IInv'
<1> USE DEF Crash, ghosts
<1>0. TypeOK /\ SocketsFit /\ VersionsFit
  BY DEF IInv
<1>1. /\ fetch' \in [Fetches -> FetchRecord]
      /\ \A f \in Fetches : fetch'[f].version \in {fetch[f].version, 0}
  BY <1>0, FetchType, FreeType
<1>2. TypeOK'
  BY <1>0, <1>1, Bounds DEF TypeOK, FetchRecord
<1>3. SocketsFit'
  BY <1>0 DEF SocketsFit, TypeOK
<1>4. VersionsFit'
  BY <1>0, <1>1, Integers DEF VersionsFit
<1> QED BY <1>2, <1>3, <1>4, NoSocketIsComing DEF IInv

LEMMA ReceiveStep ==
  ASSUME IInv, Receive
  PROVE  IInv'
<1> USE DEF Receive, changeVars, hubVars, ghosts
<1>1. TypeOK'
  BY DEF IInv, TypeOK
<1>2. SocketsFit' /\ VersionsFit'
  BY DEF IInv, SocketsFit, VersionsFit
<1>3. NewsComing'
  BY DEF IInv, NewsComing, Coming
<1> QED BY <1>1, <1>2, <1>3 DEF IInv

LEMMA ReloadStep ==
  ASSUME IInv, NEW f \in Fetches, Reload(f)
  PROVE  IInv'
<1> USE DEF Reload, changeVars, hubVars, ghosts
<1>0. TypeOK /\ SocketsFit /\ VersionsFit /\ NewsComing
  BY DEF IInv
<1>1. /\ fetch' \in [Fetches -> FetchRecord]
      /\ fetch'[f].pc = "asked" /\ \A g \in Fetches : fetch'[g].version = fetch[g].version
  BY <1>0, AskStarts
<1>2. TypeOK'
  BY <1>0, <1>1 DEF TypeOK, FetchRecord
<1>3. SocketsFit' /\ VersionsFit'
  BY <1>0, <1>1 DEF SocketsFit, VersionsFit
<1>4. NewsComing'
  BY <1>0, <1>1 DEF NewsComing, Coming
<1> QED BY <1>2, <1>3, <1>4 DEF IInv

\* An answer is the database as it is.
LEMMA AnswerStep ==
  ASSUME IInv, NEW f \in Fetches, Answer(f)
  PROVE  IInv'
<1> USE DEF Answer, changeVars, hubVars, ghosts
<1>0. TypeOK /\ SocketsFit /\ VersionsFit /\ NewsComing
  BY DEF IInv
<1> DEFINE r == [pc |-> "answered", version |-> db]
<1>1. r \in FetchRecord /\ r.pc = "answered" /\ r.version = db
  BY <1>0 DEF TypeOK, FetchRecord
<1>2. fetch' = [fetch EXCEPT ![f] = r]
  OBVIOUS
<1> HIDE DEF r
<1>3. /\ fetch' \in [Fetches -> FetchRecord] /\ fetch'[f] = r
      /\ \A g \in Fetches \ {f} : fetch'[g] = fetch[g]
  BY <1>0, <1>1, <1>2, FetchUpdate
<1>4. TypeOK'
  BY <1>0, <1>3 DEF TypeOK, FetchRecord
<1>5. SocketsFit' /\ VersionsFit'
  BY <1>0, <1>1, <1>3, Integers DEF SocketsFit, VersionsFit
<1>6. NewsComing'
  <2>1. fetch'[f].pc = "answered" /\ fetch'[f].version >= told'
    BY <1>0, <1>1, <1>3, Integers DEF VersionsFit
  <2> QED BY <2>1, <1>0 DEF NewsComing, Coming
<1> QED BY <1>4, <1>5, <1>6 DEF IInv

\* Either what the page was told of is shown, or whatever else was coming still is.
LEMMA RenderStep ==
  ASSUME IInv, NEW f \in Fetches, Render(f)
  PROVE  IInv'
<1> USE DEF Render, changeVars, hubVars
<1>0. TypeOK /\ SocketsFit /\ VersionsFit /\ NewsComing
  BY DEF IInv
<1>1. /\ fetch' \in [Fetches -> FetchRecord] /\ fetch'[f] = Free
      /\ \A g \in Fetches \ {f} : fetch'[g] = fetch[g]
  BY <1>0, FreeType, FetchUpdate
<1>2. fetch[f].version \in 0..MaxVersion /\ newest' \in 0..MaxVersion
  BY <1>0, FetchType DEF TypeOK
<1>3. TypeOK'
  BY <1>0, <1>1, <1>2 DEF TypeOK, FetchRecord
<1>4. SocketsFit'
  BY <1>0 DEF SocketsFit
<1>5. \A g \in Fetches : fetch'[g].version <= db
  BY <1>0, <1>1, FreeType, Integers DEF VersionsFit
<1>6. view' <= newest' /\ newest' <= db /\ newest' >= newest /\ newest' >= fetch[f].version
  BY <1>0, Integers DEF VersionsFit
<1>7. VersionsFit'
  BY <1>0, <1>5, <1>6 DEF VersionsFit
<1>8. NewsComing'
  <2>1. newest >= told => newest' >= told
    BY <1>0, <1>2, <1>6, Integers
  <2>2. Coming(told) => newest' >= told \/ Coming(told)'
    BY <1>0, <1>1, <1>2, <1>6, Integers DEF Coming
  <2> QED BY <2>1, <2>2, <1>0 DEF NewsComing
<1> QED BY <1>3, <1>4, <1>7, <1>8 DEF IInv

-----------------------------------------------------------------------------
LEMMA Invariance == IInv /\ [Next]_vars => IInv'
<1> SUFFICES ASSUME IInv, [Next]_vars PROVE IInv' OBVIOUS
<1>1. CASE \/ PollMatches \/ PollPublishes \/ PollUnmatches \/ PollStores
           \/ MaintainPublishes \/ MaintainPrunes
  BY <1>1, ChangeStep, PublishStep DEF PollUnmatches, PollStores, MaintainPrunes
<1>2. CASE EndSession \/ Logout \/ Crash
  BY <1>2, EndSessionStep, SignOutStep, CrashStep DEF Logout
<1>3. ASSUME NEW s \in Sockets, Subscribe(s) \/ Reject(s) \/ Drop(s) PROVE IInv'
  BY <1>3, SubscribeStep, RejectStep, DropStep
<1>4. CASE PageStep
  BY <1>4, ConnectStep, ReceiveStep, ReloadStep DEF PageStep
<1>5. ASSUME NEW f \in Fetches, Answer(f) \/ Refuse(f) \/ Render(f) PROVE IInv'
  BY <1>5, AnswerStep, SignOutStep, RenderStep DEF Refuse
<1>6. CASE UNCHANGED vars
  BY <1>6 DEF vars, IInv, TypeOK, SocketsFit, VersionsFit, NewsComing, Coming
<1> QED BY <1>1, <1>2, <1>3, <1>4, <1>5, <1>6 DEF Next

LEMMA Inductive == Spec => []IInv
<1>1. Init => IInv
  BY Start
<1>2. IInv /\ [Next]_vars => IInv'
  BY Invariance
<1> QED BY <1>1, <1>2, PTL DEF Spec

\* REQ 11.3: a subscribed page with no message, timer or fetch under way has shown what
\* the database had when the hub last sent to it, and every match that was made (hub.ts and
\* the page's reload upon every event); whatever is changed without an event besides,
\* connections drop, events are lost and answers overtake each other.
THEOREM PageAlwaysSound == Spec => []PageIsSound
<1>1. IInv => PageIsSound
  <2> SUFFICES ASSUME IInv, Quiet PROVE newest >= told /\ newest >= matched
    BY DEF IInv, PageIsSound, QuietIsCurrent
  <2>1. ~Coming(told) /\ ws \in subscribed /\ ~(unsaid > 0)
    BY DEF Quiet, Coming
  <2>2. newest >= told /\ matched <= told
    BY <2>1 DEF IInv, NewsComing
  <2> QED BY <2>2, Integers DEF IInv
<1> QED BY <1>1, Inductive, PTL

LEMMA Product ==
  ASSUME NEW a \in Nat, NEW b \in Nat
  PROVE  a * b \in Nat
OBVIOUS

\* Multiplication keeps the order.
LEMMA Scaled ==
  ASSUME NEW b \in Nat, NEW x \in Int, NEW y \in Int, x <= y
  PROVE  b * x \in Int /\ b * y \in Int /\ b * x <= b * y
<1>1. y - x \in Nat
  OBVIOUS
<1>2. b * (y - x) \in Nat
  BY <1>1
<1>3. b * y = b * x + b * (y - x)
  OBVIOUS
<1> QED BY <1>2, <1>3

\* What the provers know of \div, and how it is bounded.
LEMMA Quotient ==
  ASSUME NEW a \in Int, NEW b \in Nat \ {0}
  PROVE  /\ a \div b \in Int
         /\ b * (a \div b) <= a /\ a < b * (a \div b) + b
OBVIOUS

LEMMA QuotientBounds ==
  ASSUME NEW a \in Int, NEW b \in Nat \ {0}, NEW m \in Int
  PROVE  /\ b * m <= a => m <= a \div b
         /\ a < b * m + b => a \div b <= m
<1> DEFINE q == a \div b
<1>1. q \in Int /\ b * q <= a /\ a < b * q + b
  BY Quotient
<1> HIDE DEF q
<1>2. ASSUME q + 1 <= m PROVE ~(b * m <= a)
  <2>1. b * (q + 1) <= b * m
    BY <1>1, <1>2, Scaled
  <2>2. b * (q + 1) = b * q + b
    BY <1>1
  <2> QED BY <1>1, <2>1, <2>2
<1>3. ASSUME m + 1 <= q PROVE ~(a < b * m + b)
  <2>1. b * (m + 1) <= b * q
    BY <1>1, <1>3, Scaled
  <2>2. b * (m + 1) = b * m + b
    BY <1>1
  <2> QED BY <1>1, <2>1, <2>2
<1>4. (b * m <= a => m <= q) /\ (a < b * m + b => q <= m)
  BY <1>1, <1>2, <1>3
<1> QED BY <1>4 DEF q

LessThan == OpToRel(<, Nat)

\* Every set of naturals that is not empty has a least element.
LEMMA LeastElement ==
  ASSUME NEW T, T \subseteq Nat, T # {}
  PROVE  \E m \in T : \A k \in T : m <= k
<1>1. IsWellFoundedOn(LessThan, Nat)
  BY NatLessThanWellFounded DEF LessThan
<1>2. PICK m \in T : \A k \in T : <<k, m>> \notin LessThan
  BY <1>1, WFMin
<1>3. \A k \in T : k < m => <<k, m>> \in LessThan
  BY DEF LessThan, OpToRel
<1>4. \A k \in T : ~(k < m) => m <= k
  OBVIOUS
<1> QED BY <1>2, <1>3, <1>4

LEMMA Induction ==
  ASSUME NEW S, 0 \in S, \A n \in Nat : n \in S => n + 1 \in S
  PROVE  Nat \subseteq S
<1> DEFINE T == Nat \ S
<1> SUFFICES ASSUME T # {} PROVE FALSE
  OBVIOUS
<1>1. T \subseteq Nat
  OBVIOUS
<1>2. PICK m \in T : \A k \in T : m <= k
  <2> HIDE DEF T
  <2> QED BY <1>1, LeastElement
<1>3. m \in Nat \ {0} /\ m - 1 \in Nat /\ m - 1 \in T
  OBVIOUS
<1> QED BY <1>2, <1>3

\* Rounded to the nearest: an integer bound of the fraction is one of what it is rounded to.
LEMMA Rounding ==
  ASSUME NEW x \in Int, NEW d \in Nat \ {0}, NEW m \in Int
  PROVE  /\ Nearest(x, d) \in Int
         /\ d * m <= x => m <= Nearest(x, d)
         /\ x <= d * m => Nearest(x, d) <= m
<1> DEFINE a == 2 * x + d
           b == 2 * d
<1>1. a \in Int /\ b \in Nat \ {0} /\ b * m = 2 * (d * m) /\ d * m \in Int
  OBVIOUS
<1>2. (d * m <= x => b * m <= a) /\ (x <= d * m => a < b * m + b)
  BY <1>1
<1> HIDE DEF a, b
<1>3. a \div b \in Int /\ (b * m <= a => m <= a \div b) /\ (a < b * m + b => a \div b <= m)
  BY <1>1, Quotient, QuotientBounds
<1> QED BY <1>2, <1>3 DEF Nearest, a, b

LEMMA Rounded ==
  ASSUME NEW x \in Int, NEW d \in Nat \ {0}
  PROVE  Nearest(x, d) \in Int
BY Quotient DEF Nearest

LEMMA RoundingMonotone ==
  ASSUME NEW x \in Int, NEW y \in Int, x <= y, NEW d \in Nat \ {0}
  PROVE  Nearest(x, d) <= Nearest(y, d)
<1> DEFINE a == 2 * x + d
           c == 2 * y + d
           b == 2 * d
<1>1. a \in Int /\ c \in Int /\ b \in Nat \ {0} /\ a <= c
  OBVIOUS
<1> HIDE DEF a, b, c
<1>2. a \div b \in Int /\ b * (a \div b) <= a /\ b * (a \div b) \in Int
  BY <1>1, Quotient
<1>3. b * (a \div b) <= c
  BY <1>1, <1>2
<1>4. a \div b <= c \div b
  BY <1>1, <1>2, <1>3, QuotientBounds
<1> QED BY <1>4 DEF Nearest, a, b, c

LEMMA RoundIsNearest ==
  ASSUME NEW x, NEW d
  PROVE  Round(x, d) = Nearest(x, d)
BY DEF Round, Nearest

-----------------------------------------------------------------------------
(* Match scores. *)

LEMMA WidthPositive ==
  ASSUME NEW f, f.min \in Maybe, f.max \in Maybe
  PROVE  Width(f) \in Nat \ {0}
BY ScoringAssumption DEF ScoringAssumption, Maybe, Width

LEMMA ValueInRange ==
  ASSUME NEW f, f.min \in Maybe, f.max \in Maybe, NEW t, t.value \in Maybe
  PROVE  ValueScore(t, f) \in Int /\ 0 <= ValueScore(t, f) /\ ValueScore(t, f) <= 2500 * Width(f)
<1>1. Width(f) \in Nat \ {0}
  BY WidthPositive
<1>2. CASE t.value # Absent /\ f.min # Absent /\ f.max # Absent /\ f.max > f.min
  <2> DEFINE off == Distance(2 * t.value, f.min + f.max)
  <2>1. t.value \in Int /\ f.min \in Int /\ f.max \in Int
    BY <1>2 DEF Maybe
  <2>2. off \in Nat
    BY <2>1 DEF Distance
  <2>3. ValueScore(t, f) = 1300 * Width(f) + 1200 * (IF off < Width(f) THEN Width(f) - off ELSE 0)
    BY <1>2 DEF ValueScore
  <2> HIDE DEF off
  <2> QED BY <1>1, <2>2, <2>3
<1>3. CASE ~(t.value # Absent /\ f.min # Absent /\ f.max # Absent /\ f.max > f.min)
  <2>1. ValueScore(t, f) \in {1200 * Width(f), 1900 * Width(f)}
    BY <1>3 DEF ValueScore
  <2> QED BY <1>1, <2>1
<1> QED BY <1>2, <1>3

\* Before the deadline its part is in range, and does not grow while time passes.
LEMMA DeadlineInRange ==
  ASSUME NEW t, t.deadline \in Maybe, NEW now \in Int,
         t.deadline # Absent => t.deadline >= now
  PROVE  DeadlineScore(t, now) \in Int /\ 0 <= DeadlineScore(t, now) /\ DeadlineScore(t, now) <= 21000
<1>1. CASE t.deadline = Absent
  BY <1>1 DEF DeadlineScore
<1>2. CASE t.deadline # Absent
  <2> DEFINE days == (t.deadline - now) \div Day
  <2>1. t.deadline - now \in Nat /\ Day \in Nat \ {0}
    BY <1>2, ScoringAssumption DEF ScoringAssumption, Maybe
  <2>2. days \in Int /\ 0 <= days
    <3>1. Day * 0 <= t.deadline - now
      BY <2>1
    <3> QED BY <2>1, <3>1, Quotient, QuotientBounds
  <2>3. DeadlineScore(t, now) = IF days >= 14 THEN 14 * 1500 ELSE 14 * 795 + 705 * Clamp(days, 0, 14)
    BY <1>2 DEF DeadlineScore
  <2> HIDE DEF days
  <2> QED BY <2>2, <2>3 DEF Clamp
<1> QED BY <1>1, <1>2

LEMMA DeadlineMonotone ==
  ASSUME NEW t, t.deadline \in Maybe, NEW now \in Int, NEW later \in Int, now <= later,
         t.deadline # Absent => t.deadline >= later
  PROVE  DeadlineScore(t, later) <= DeadlineScore(t, now)
<1>1. CASE t.deadline = Absent
  BY <1>1 DEF DeadlineScore
<1>2. CASE t.deadline # Absent
  <2> DEFINE soon == t.deadline - later
             days == (t.deadline - now) \div Day
             left == soon \div Day
  <2>1. soon \in Nat /\ t.deadline - now \in Nat /\ soon <= t.deadline - now /\ Day \in Nat \ {0}
    BY <1>2, ScoringAssumption DEF ScoringAssumption, Maybe
  <2>2. days \in Int /\ left \in Int /\ left <= days
    <3> HIDE DEF soon
    <3>1. left \in Int /\ days \in Int /\ Day * left <= soon /\ Day * left \in Int
      BY <2>1, Quotient
    <3> HIDE DEF left
    <3>2. Day * left <= t.deadline - now
      BY <2>1, <3>1
    <3> QED BY <2>1, <3>1, <3>2, QuotientBounds
  <2>3. /\ DeadlineScore(t, now) = IF days >= 14 THEN 14 * 1500 ELSE 14 * 795 + 705 * Clamp(days, 0, 14)
        /\ DeadlineScore(t, later) = IF left >= 14 THEN 14 * 1500 ELSE 14 * 795 + 705 * Clamp(left, 0, 14)
    BY <1>2 DEF DeadlineScore
  <2> HIDE DEF days, left
  <2> QED BY <2>2, <2>3 DEF Clamp
<1> QED BY <1>1, <1>2

\* The sum that is rounded is between none and a hundred points, and follows its part for the deadline.
LEMMA BlendInRange ==
  ASSUME NEW W \in Nat \ {0}, NEW B \in {4500, 6000}, NEW V \in Int, 0 <= V, V <= 2500 * W,
         NEW d \in Int, 0 <= d, d <= 21000
  PROVE  /\ 14 * W * B + 14 * V + W * d \in Int
         /\ (1400 * W) * 0 <= 14 * W * B + 14 * V + W * d
         /\ 14 * W * B + 14 * V + W * d <= (1400 * W) * 100
<1>1. W * d \in Int /\ W * 0 <= W * d /\ W * d <= W * 21000
  BY Scaled
<1> DEFINE base == 14 * W * B
           last == W * d
<1>2. base \in Int /\ 0 <= base /\ base <= 84000 * W
  OBVIOUS
<1>3. last \in Int /\ 0 <= last /\ last <= 21000 * W
  BY <1>1
<1> HIDE DEF base, last
<1>4. /\ base + 14 * V + last \in Int
      /\ (1400 * W) * 0 <= base + 14 * V + last
      /\ base + 14 * V + last <= (1400 * W) * 100
  BY <1>2, <1>3
<1> QED BY <1>4 DEF base, last

LEMMA Raw ==
  ASSUME NEW R, NEW C, NEW t \in TendersOf(R, C), NEW f \in FiltersOf(R, C), NEW now \in Int,
         t.deadline # Absent => t.deadline >= now
  PROVE  RawScore(t, f, now) \in 0..100
<1> DEFINE W == Width(f)
           x == 14 * W * BaseScore(f) + 14 * ValueScore(t, f) + W * DeadlineScore(t, now)
<1>1. W \in Nat \ {0} /\ BaseScore(f) \in {4500, 6000}
  BY WidthPositive DEF BaseScore, FiltersOf
<1>2. x \in Int /\ (1400 * W) * 0 <= x /\ x <= (1400 * W) * 100 /\ 1400 * W \in Nat \ {0}
  <2>1. ValueScore(t, f) \in Int /\ 0 <= ValueScore(t, f) /\ ValueScore(t, f) <= 2500 * W
    BY ValueInRange DEF TendersOf, FiltersOf
  <2>2. DeadlineScore(t, now) \in Int /\ 0 <= DeadlineScore(t, now) /\ DeadlineScore(t, now) <= 21000
    BY DeadlineInRange DEF TendersOf
  <2> HIDE DEF W
  <2> QED BY <1>1, <2>1, <2>2, BlendInRange
<1> HIDE DEF x, W
<1>3. Nearest(x, 1400 * W) \in Int /\ 0 <= Nearest(x, 1400 * W) /\ Nearest(x, 1400 * W) <= 100
  <2> DEFINE d == 1400 * W
  <2>1. d \in Nat \ {0} /\ x \in Int /\ d * 0 <= x /\ x <= d * 100
    BY <1>2
  <2> HIDE DEF d
  <2>2. 0 <= Nearest(x, d) /\ Nearest(x, d) <= 100 /\ Nearest(x, d) \in Int
    BY <2>1, Rounding
  <2> QED BY <2>2 DEF d
<1>4. RawScore(t, f, now) = Nearest(x, 1400 * W)
  BY RoundIsNearest DEF RawScore, x, W
<1> QED BY <1>3, <1>4

\* INV4 and ID2 for tenders and filters of every shape: see ScoringIsSound of Insights.
THEOREM ScoresAlwaysSound ==
  ASSUME NEW R, NEW C, NEW t \in TendersOf(R, C), NEW f \in FiltersOf(R, C), NEW region \in R,
         NEW cap \in Nat, NEW now \in Int, NEW later \in Int, now <= later
  PROVE  /\ CapHolds(t, f, cap, now, region)
         /\ InRange(t, f, cap, now)
         /\ NeverGains(t, f, cap, now, later)
<1>1. CapHolds(t, f, cap, now, region)
  <2> SUFFICES ASSUME Len(f.regions) >= cap
               PROVE  Eligible(t, [f EXCEPT !.regions = Append(@, region)], cap, now) <=> Eligible(t, f, cap, now)
    BY DEF CapHolds
  <2> DEFINE g == [f EXCEPT !.regions = Append(@, region)]
  <2>1. f.regions \in Seq(R) /\ Len(f.regions) \in Nat
    BY DEF FiltersOf
  <2>2. g.categories = f.categories /\ g.min = f.min /\ g.max = f.max /\ g.regions = Append(f.regions, region)
    BY DEF FiltersOf
  <2> HIDE DEF g
  <2>3. PermittedRegions(g, cap) = PermittedRegions(f, cap)
    <3>1. PermittedRegions(f, cap) = SubSeq(f.regions, 1, cap)
      BY <2>1 DEF PermittedRegions
    <3>2. Len(g.regions) = Len(f.regions) + 1
      BY <2>1, <2>2
    <3>3. PermittedRegions(g, cap) = SubSeq(g.regions, 1, cap)
      BY <2>1, <3>2 DEF PermittedRegions
    <3>4. SubSeq(Append(f.regions, region), 1, cap) = SubSeq(f.regions, 1, cap)
      BY <2>1
    <3> QED BY <2>2, <3>1, <3>3, <3>4
  <2>4. Eligible(t, g, cap, now) <=> Eligible(t, f, cap, now)
    BY <2>2, <2>3 DEF Eligible
  <2> QED BY <2>4 DEF g
<1>2. InRange(t, f, cap, now)
  BY Raw DEF InRange, Eligible
<1>3. NeverGains(t, f, cap, now, later)
  <2> SUFFICES ASSUME Eligible(t, f, cap, later)
               PROVE  Eligible(t, f, cap, now) /\ Score(t, f, later) <= Score(t, f, now)
    BY DEF NeverGains
  <2>1. t.deadline # Absent => t.deadline \in Int /\ t.deadline >= later /\ t.deadline >= now
    BY DEF Eligible, TendersOf, Maybe
  <2>2. Eligible(t, f, cap, now)
    BY <2>1 DEF Eligible
  <2> DEFINE W == Width(f)
             d == 1400 * W
             rest == 14 * W * BaseScore(f) + 14 * ValueScore(t, f)
             x == rest + W * DeadlineScore(t, now)
             y == rest + W * DeadlineScore(t, later)
  <2>3. W \in Nat \ {0} /\ BaseScore(f) \in {4500, 6000} /\ ValueScore(t, f) \in Int
    BY WidthPositive, ValueInRange DEF BaseScore, TendersOf, FiltersOf
  <2>4. DeadlineScore(t, now) \in Int /\ DeadlineScore(t, later) \in Int
        /\ DeadlineScore(t, later) <= DeadlineScore(t, now)
    BY <2>1, DeadlineInRange, DeadlineMonotone DEF TendersOf
  <2>5. rest \in Int /\ d \in Nat \ {0}
    BY <2>3
  <2>6. /\ W * DeadlineScore(t, now) \in Int /\ W * DeadlineScore(t, later) \in Int
        /\ W * DeadlineScore(t, later) <= W * DeadlineScore(t, now)
    <3> HIDE DEF W
    <3> QED BY <2>3, <2>4, Scaled
  <2>7. RawScore(t, f, now) = Nearest(x, d) /\ RawScore(t, f, later) = Nearest(y, d)
    BY RoundIsNearest DEF RawScore
  <2> HIDE DEF W, d, rest
  <2>8. x \in Int /\ y \in Int /\ y <= x
    BY <2>5, <2>6
  <2> HIDE DEF x, y
  <2>9. Nearest(y, d) <= Nearest(x, d)
    BY <2>5, <2>8, RoundingMonotone
  <2>10. RawScore(t, f, now) \in 0..100 /\ RawScore(t, f, later) \in 0..100
    BY <2>1, Raw
  <2> QED BY <2>2, <2>7, <2>9, <2>10 DEF Score, Clamp
<1> QED BY <1>1, <1>2, <1>3

-----------------------------------------------------------------------------
(* Samples in order. *)

\* A price for each of some records.
IsSample(s) == s \in [DOMAIN s -> Nat \ {0}] /\ \E L \in Nat : DOMAIN s \subseteq 1..L

LEMMA Records ==
  ASSUME NEW s, IsSample(s)
  PROVE  IsFiniteSet(DOMAIN s) /\ Cardinality(DOMAIN s) \in Nat /\ \A i \in DOMAIN s : s[i] \in Nat \ {0}
<1>0. PICK L \in Nat : DOMAIN s \subseteq 1..L
  BY DEF IsSample
<1> DEFINE one == 1
<1>1. one \in Int /\ L \in Int
  OBVIOUS
<1> HIDE DEF one
<1>2. IsFiniteSet(one..L)
  BY <1>1, FS_Interval
<1>3. IsFiniteSet(DOMAIN s)
  BY <1>0, <1>2, FS_Subset DEF one
<1> QED BY <1>3, FS_CardinalityType DEF IsSample

\* A sample has a price that none of its prices exceeds.
LEMMA Bounded ==
  ASSUME NEW s, IsSample(s)
  PROVE  \E b \in Nat : \A i \in DOMAIN s : s[i] <= b
<1>0. PICK L \in Nat : DOMAIN s \subseteq 1..L
  BY DEF IsSample
<1> DEFINE D == DOMAIN s
           S == {m \in Nat : \E b \in Nat : \A i \in D : i <= m => s[i] <= b}
<1>1. 0 \in S
  <2>1. \A i \in D : i <= 0 => s[i] <= 0
    BY <1>0
  <2> QED BY <2>1
<1>2. ASSUME NEW m \in Nat, m \in S PROVE m + 1 \in S
  <2>1. PICK b \in Nat : \A i \in D : i <= m => s[i] <= b
    BY <1>2
  <2>2. CASE m + 1 \notin D
    <3>1. \A i \in D : i <= m + 1 => i <= m
      BY <1>0, <2>2
    <3> QED BY <2>1, <3>1
  <2>3. CASE m + 1 \in D
    <3> DEFINE c == IF s[m + 1] <= b THEN b ELSE s[m + 1]
    <3>1. c \in Nat /\ b <= c /\ s[m + 1] <= c
      BY <2>3, Records
    <3> HIDE DEF c
    <3>2. ASSUME NEW i \in D, i <= m + 1 PROVE s[i] <= c
      <4>1. CASE i = m + 1
        BY <3>1, <4>1
      <4>2. CASE i # m + 1
        <5>1. i <= m /\ s[i] <= b /\ s[i] \in Nat
          BY <1>0, <2>1, <3>2, <4>2, Records
        <5> QED BY <3>1, <5>1
      <4> QED BY <4>1, <4>2
    <3> QED BY <3>1, <3>2
  <2> QED BY <2>2, <2>3
<1>3. L \in S
  <2> HIDE DEF S
  <2> QED BY <1>1, <1>2, Induction
<1> QED BY <1>0, <1>3

LEMMA CountUpTo ==
  ASSUME NEW s, IsSample(s)
  PROVE  /\ \A v \in Int : Cardinality(UpTo(s, v)) \in Nat
         /\ \A v, w \in Int : v <= w => Cardinality(UpTo(s, v)) <= Cardinality(UpTo(s, w))
<1>1. ASSUME NEW v \in Int
      PROVE  IsFiniteSet(UpTo(s, v)) /\ Cardinality(UpTo(s, v)) \in Nat
  <2>1. UpTo(s, v) \in SUBSET DOMAIN s
    BY DEF UpTo
  <2>2. IsFiniteSet(UpTo(s, v))
    BY <2>1, Records, FS_Subset
  <2> QED BY <2>2, FS_CardinalityType
<1>2. ASSUME NEW v \in Int, NEW w \in Int, v <= w
      PROVE  Cardinality(UpTo(s, v)) <= Cardinality(UpTo(s, w))
  <2>1. UpTo(s, v) \in SUBSET UpTo(s, w)
    BY <1>2, Records DEF UpTo
  <2> QED BY <1>1, <2>1, FS_Subset
<1> QED BY <1>1, <1>2

\* The k-th price in order is no more than v exactly if k of the prices are not.
LEMMA Rank ==
  ASSUME NEW s, IsSample(s), NEW k \in 1..Cardinality(DOMAIN s), NEW v \in Int
  PROVE  /\ Ascending(s)[k] \in Nat \ {0}
         /\ Ascending(s)[k] <= v <=> k <= Cardinality(UpTo(s, v))
<1> DEFINE D == DOMAIN s
           C(u) == Cardinality(UpTo(s, u))
           T == {u \in Nat : k <= C(u)}
           V == {u \in Range(s) : k <= C(u)}
           a == Ascending(s)[k]
<1>1. /\ \A u \in Int : C(u) \in Nat
      /\ \A u, w \in Int : u <= w => C(u) <= C(w)
      /\ Cardinality(D) \in Nat /\ k \in Nat /\ 1 <= k
      /\ \A i \in D : s[i] \in Nat \ {0}
  <2>1. Cardinality(D) \in Nat /\ \A i \in D : s[i] \in Nat \ {0}
    BY Records
  <2> QED BY <2>1, CountUpTo
<1>2. a = Min(V)
  BY <1>1 DEF Ascending
<1>3. T # {}
  <2>1. PICK b \in Nat : \A i \in D : s[i] <= b
    BY Bounded
  <2>2. UpTo(s, b) = D
    BY <2>1 DEF UpTo
  <2> QED BY <1>1, <2>2
<1>4. PICK m \in T : \A u \in T : m <= u
  <2>1. T \subseteq Nat
    OBVIOUS
  <2> HIDE DEF T
  <2> QED BY <1>3, <2>1, LeastElement
<1>5. m \in Nat /\ k <= C(m)
  OBVIOUS
<1>6. m \in Range(s)
  <2> SUFFICES ASSUME m \notin Range(s) PROVE FALSE
    OBVIOUS
  <2>1. \A i \in D : s[i] \in Nat \ {0} /\ s[i] # m
    BY <1>1 DEF Range
  <2>2. CASE m = 0
    <3>1. UpTo(s, m) = {}
      BY <2>1, <2>2 DEF UpTo
    <3>2. C(m) = 0
      BY <3>1, FS_EmptySet
    <3> QED BY <1>1, <1>5, <3>2
  <2>3. CASE m # 0
    <3>1. m - 1 \in Nat
      BY <1>5, <2>3
    <3>2. \A i \in D : s[i] <= m <=> s[i] <= m - 1
      BY <1>5, <2>1
    <3>3. UpTo(s, m) = UpTo(s, m - 1)
      BY <1>1, <3>2 DEF UpTo
    <3>4. m - 1 \in T
      BY <1>5, <3>1, <3>3
    <3> QED BY <1>4, <1>5, <3>1, <3>4
  <2> QED BY <2>2, <2>3
<1>7. Range(s) \subseteq Nat \ {0}
  BY <1>1 DEF Range
<1>8. a = m
  <2>1. m \in V /\ \A u \in V : m <= u
    BY <1>4, <1>5, <1>6, <1>7
  <2>2. V \subseteq Nat
    BY <1>7
  <2> HIDE DEF V
  <2>3. Min(V) = CHOOSE x \in V : \A y \in V : x <= y
    BY DEF Min
  <2>4. Min(V) \in V /\ \A y \in V : Min(V) <= y
    BY <2>1, <2>3
  <2>5. Min(V) <= m /\ m <= Min(V)
    BY <2>1, <2>4
  <2>6. Min(V) = m
    <3> DEFINE x == Min(V)
    <3>1. x \in Nat /\ m \in Nat /\ x <= m /\ m <= x
      BY <1>5, <2>2, <2>4, <2>5
    <3> HIDE DEF x
    <3>2. x = m
      BY <3>1
    <3> QED BY <3>2 DEF x
  <2> QED BY <1>2, <2>6
<1>9. m \in Nat \ {0}
  BY <1>6, <1>7
<1>10. ASSUME m <= v PROVE k <= C(v)
  <2>1. C(m) <= C(v) /\ C(m) \in Nat /\ C(v) \in Nat
    BY <1>1, <1>5, <1>10
  <2> QED BY <1>1, <1>5, <2>1
<1>11. ASSUME k <= C(v) PROVE m <= v
  <2>1. CASE v \in Nat
    BY <1>4, <1>11, <2>1
  <2>2. CASE v \notin Nat
    <3>1. \A i \in D : ~(s[i] <= v)
      BY <1>1, <2>2
    <3>2. UpTo(s, v) = {}
      BY <1>1, <3>1 DEF UpTo
    <3>3. C(v) = 0
      BY <3>2, FS_EmptySet
    <3> QED BY <1>1, <1>11, <3>3
  <2> QED BY <2>1, <2>2
<1> QED BY <1>8, <1>9, <1>10, <1>11

LEMMA InOrder ==
  ASSUME NEW s, IsSample(s)
  PROVE  /\ Cardinality(DOMAIN s) \in Nat
         /\ Ascending(s) \in [1..Cardinality(DOMAIN s) -> Nat \ {0}]
         /\ \A j, k \in 1..Cardinality(DOMAIN s) : j <= k => Ascending(s)[j] <= Ascending(s)[k]
<1> DEFINE a == Ascending(s)
           n == Cardinality(DOMAIN s)
<1>1. n \in Nat
  BY Records
<1>2. \A k \in 1..n : a[k] \in Nat \ {0}
  <2> TAKE k \in 1..n
  <2> HIDE DEF a
  <2> QED BY Rank DEF a
<1>3. a \in [1..n -> Nat \ {0}]
  <2>1. a = [k \in 1..n |-> a[k]]
    BY <1>1 DEF Ascending
  <2> HIDE DEF a
  <2> QED BY <1>2, <2>1
<1>4. ASSUME NEW j \in 1..n, NEW k \in 1..n, j <= k PROVE a[j] <= a[k]
  <2> DEFINE v == a[k]
             c == Cardinality(UpTo(s, v))
  <2>1. v \in Int /\ c \in Nat
    <3>1. v \in Int
      BY <1>2
    <3> HIDE DEF v
    <3> QED BY <3>1, CountUpTo
  <2>2. (a[k] <= v <=> k <= c) /\ (a[j] <= v <=> j <= c)
    <3> HIDE DEF v
    <3> QED BY <2>1, Rank
  <2> HIDE DEF v, c
  <2> QED BY <1>4, <2>1, <2>2 DEF v
<1> QED BY <1>1, <1>3, <1>4

-----------------------------------------------------------------------------
(* Predictions. *)

\* What lies between two neighbours is between them.
LEMMA Between ==
  ASSUME NEW x \in Nat, NEW y \in Nat, x <= y, NEW f \in Nat, f < 100
  PROVE  LET m == (100 - f) * x + f * y IN m \in Int /\ 100 * x <= m /\ m <= 100 * y
<1> DEFINE g == 100 - f
           fx == f * x
           fy == f * y
           gx == g * x
           gy == g * y
<1>1. g \in Nat
  OBVIOUS
<1>2. fx \in Int /\ fy \in Int /\ fx <= fy
  BY Scaled
<1>3. gx \in Int /\ gy \in Int /\ gx <= gy
  <2> HIDE DEF g
  <2> QED BY <1>1, Scaled
<1>4. gx + fx = 100 * x /\ gy + fy = 100 * y
  OBVIOUS
<1> HIDE DEF fx, fy, gx, gy
<1>5. gx + fy \in Int /\ 100 * x <= gx + fy /\ gx + fy <= 100 * y
  BY <1>2, <1>3, <1>4
<1> QED BY <1>5 DEF gx, fy, g

\* The places of the quartiles among n prices, and the neighbours they lie between.
Low(p, n) == (p * (n - 1)) \div 100
High(p, n) == IF (p * (n - 1)) % 100 = 0 THEN Low(p, n) ELSE Low(p, n) + 1

LEMMA Places ==
  ASSUME NEW n \in Nat \ {0}, NEW p \in {25, 50, 75}
  PROVE  /\ Low(p, n) \in Nat /\ High(p, n) \in Nat
         /\ Low(p, n) <= High(p, n) /\ High(p, n) + 1 <= n
<1>1. CASE p = 25
  BY <1>1 DEF Low, High
<1>2. CASE p = 50
  BY <1>2 DEF Low, High
<1>3. CASE p = 75
  BY <1>3 DEF Low, High
<1> QED BY <1>1, <1>2, <1>3

LEMMA Quartiles ==
  ASSUME NEW n \in Nat \ {0}
  PROVE  High(25, n) = (n + 2) \div 4 /\ n - (Low(75, n) + 1) = (n + 2) \div 4
BY DEF Low, High

LEMMA PercentileBetween ==
  ASSUME NEW n \in Nat \ {0}, NEW a \in [1..n -> Nat \ {0}],
         \A j, k \in 1..n : j <= k => a[j] <= a[k],
         NEW p \in {25, 50, 75}
  PROVE  /\ Percentile(a, p) \in Int
         /\ 100 * a[Low(p, n) + 1] <= Percentile(a, p)
         /\ Percentile(a, p) <= 100 * a[High(p, n) + 1]
<1> DEFINE i == p * (n - 1)
           f == i % 100
           lo == Low(p, n)
           hi == High(p, n)
<1>1. Len(a) = n
  OBVIOUS
<1>2. lo \in Nat /\ hi \in Nat /\ lo <= hi /\ lo + 1 \in 1..n /\ hi + 1 \in 1..n
  <2>1. lo \in Nat /\ hi \in Nat /\ lo <= hi /\ hi + 1 <= n
    BY Places
  <2> HIDE DEF lo, hi
  <2> QED BY <2>1
<1>3. f \in Nat /\ f < 100
  <2>1. i \in Nat
    <3>1. n - 1 \in Nat /\ p \in Nat
      OBVIOUS
    <3> QED BY <3>1, Product
  <2> HIDE DEF i
  <2> QED BY <2>1
<1>4. Percentile(a, p) = IF f = 0 THEN 100 * a[lo + 1] ELSE (100 - f) * a[lo + 1] + f * a[lo + 2]
  BY <1>1 DEF Percentile, Low
<1>5. hi = IF f = 0 THEN lo ELSE lo + 1
  BY DEF High
<1> HIDE DEF f, lo, hi
<1>6. a[lo + 1] \in Nat \ {0} /\ a[hi + 1] \in Nat \ {0} /\ a[lo + 1] <= a[hi + 1]
  BY <1>2
<1>7. CASE f = 0
  BY <1>4, <1>5, <1>6, <1>7 DEF lo, hi
<1>8. CASE f # 0
  <2> DEFINE x == a[lo + 1]
             y == a[hi + 1]
  <2>1. a[lo + 2] = y
    BY <1>2, <1>5, <1>8
  <2>2. Percentile(a, p) = (100 - f) * x + f * y
    BY <1>4, <1>8, <2>1
  <2>3. x \in Nat /\ y \in Nat /\ x <= y
    BY <1>6
  <2> HIDE DEF x, y
  <2>4. LET m == (100 - f) * x + f * y IN m \in Int /\ 100 * x <= m /\ m <= 100 * y
    BY <1>3, <2>3, Between
  <2> QED BY <2>2, <2>4 DEF x, y, lo, hi
<1> QED BY <1>7, <1>8

\* What ComputePrediction makes of a sample that is large enough.
Band(s, r) ==
  LET n == Cardinality(DOMAIN s) IN
  /\ r.size = n /\ r.lower \in Int /\ r.upper \in Int
  /\ Storable(r)
  /\ Cardinality({i \in DOMAIN s : s[i] < r.lower}) <= (n + 2) \div 4
  /\ Cardinality({i \in DOMAIN s : s[i] > r.upper}) <= (n + 2) \div 4

LEMMA BelowBand ==
  ASSUME NEW s, IsSample(s), DOMAIN s # {}, NEW x \in Int,
         x <= 100 * Ascending(s)[High(25, Cardinality(DOMAIN s)) + 1]
  PROVE  Cardinality({i \in DOMAIN s : s[i] < Nearest(x, 100)}) <= (Cardinality(DOMAIN s) + 2) \div 4
<1> DEFINE n == Cardinality(DOMAIN s)
           k == High(25, n) + 1
           lower == Nearest(x, 100)
           c == Cardinality(UpTo(s, lower - 1))
<1>1. n \in Nat \ {0}
  BY Records, FS_EmptySet
<1>2. k \in 1..n /\ k = (n + 2) \div 4 + 1
  <2> HIDE DEF n
  <2>1. High(25, n) \in Nat /\ High(25, n) + 1 <= n /\ High(25, n) = (n + 2) \div 4
    BY <1>1, Places, Quartiles
  <2> QED BY <1>1, <2>1
<1>3. Ascending(s)[k] \in Nat \ {0}
  BY <1>1, <1>2, InOrder
<1>4. lower \in Int /\ lower <= Ascending(s)[k]
  <2> HIDE DEF k
  <2>1. x <= 100 * Ascending(s)[k]
    BY DEF k
  <2> QED BY <1>3, <2>1, Rounding
<1> HIDE DEF lower, k
<1>5. c \in Nat
  BY <1>4, CountUpTo
<1>6. ~(k <= c)
  <2>1. Ascending(s)[k] <= lower - 1 <=> k <= c
    BY <1>2, <1>4, Rank
  <2> QED BY <1>3, <1>4, <2>1
<1>7. {i \in DOMAIN s : s[i] < lower} = UpTo(s, lower - 1)
  BY <1>4, Records DEF UpTo
<1> HIDE DEF c, n
<1>8. c <= (n + 2) \div 4
  BY <1>1, <1>2, <1>5, <1>6
<1> QED BY <1>7, <1>8 DEF c, lower, n

LEMMA AboveBand ==
  ASSUME NEW s, IsSample(s), DOMAIN s # {}, NEW x \in Int,
         100 * Ascending(s)[Low(75, Cardinality(DOMAIN s)) + 1] <= x
  PROVE  Cardinality({i \in DOMAIN s : s[i] > Nearest(x, 100)}) <= (Cardinality(DOMAIN s) + 2) \div 4
<1> DEFINE D == DOMAIN s
           n == Cardinality(D)
           k == Low(75, n) + 1
           upper == Nearest(x, 100)
           U == UpTo(s, upper)
           c == Cardinality(U)
<1>1. n \in Nat \ {0} /\ IsFiniteSet(D)
  BY Records, FS_EmptySet
<1>2. k \in 1..n /\ n - k = (n + 2) \div 4
  <2> HIDE DEF n
  <2>1. Low(75, n) \in Nat /\ Low(75, n) <= High(75, n) /\ High(75, n) \in Nat /\ High(75, n) + 1 <= n
        /\ n - (Low(75, n) + 1) = (n + 2) \div 4
    BY <1>1, Places, Quartiles
  <2> QED BY <1>1, <2>1
<1>3. Ascending(s)[k] \in Nat \ {0}
  BY <1>1, <1>2, InOrder
<1>4. upper \in Int /\ Ascending(s)[k] <= upper
  <2> HIDE DEF k
  <2>1. 100 * Ascending(s)[k] <= x
    BY DEF k
  <2> QED BY <1>3, <2>1, Rounding
<1> HIDE DEF upper, k
<1>5. c \in Nat
  BY <1>4, CountUpTo
<1>6. k <= c
  <2>1. Ascending(s)[k] <= upper <=> k <= c
    BY <1>2, <1>4, Rank
  <2> QED BY <1>4, <2>1
<1>7. {i \in D : s[i] > upper} = D \ U /\ D \cap U = U
  BY <1>4, Records DEF UpTo
<1> HIDE DEF U, D
<1>8. Cardinality(D \ U) = n - c
  BY <1>1, <1>7, FS_Difference
<1> HIDE DEF c, n
<1>9. n - c <= (n + 2) \div 4
  BY <1>1, <1>2, <1>5, <1>6
<1> QED BY <1>7, <1>8, <1>9 DEF upper, n, D

LEMMA ConfidenceInRange ==
  ASSUME NEW n \in Nat, NEW median \in Nat \ {0}, NEW spread \in Nat
  PROVE  /\ Confidence(n, median, spread) \in Int
         /\ 0 <= Confidence(n, median, spread) /\ Confidence(n, median, spread) <= 1000
<1> DEFINE size == IF n < FullSample THEN n ELSE FullSample
           x == 1000 * size * median
           d == FullSample * (median + 100 * spread)
<1>0. FullSample \in Nat \ {0}
  BY BidBrainAssumption DEF BidBrainAssumption
<1>1. size \in Nat /\ size <= FullSample
  BY <1>0
<1>2. Confidence(n, median, spread) = Nearest(x, d)
  BY DEF Confidence
<1> HIDE DEF size
<1> DEFINE m == median + 100 * spread
           some == size * median
<1>3. m \in Nat \ {0} /\ median <= m
  OBVIOUS
<1>4. some \in Nat
  BY <1>1, Product
<1>5. some <= d /\ d \in Nat \ {0}
  <2>1. median * size <= median * FullSample
    BY <1>0, <1>1, Scaled
  <2> HIDE DEF m
  <2>2. FullSample * median <= FullSample * m
    BY <1>0, <1>3, Scaled
  <2>3. median * size = some /\ median * FullSample = FullSample * median
    BY <1>0, <1>1
  <2>4. FullSample * median \in Nat \ {0} /\ FullSample * m \in Int
    BY <1>0, <1>3
  <2>5. some <= FullSample * m /\ FullSample * m \in Nat \ {0}
    BY <1>4, <2>1, <2>2, <2>3, <2>4
  <2> QED BY <2>5 DEF m
<1>6. x = 1000 * some
  BY <1>1
<1> HIDE DEF d, some, m, x
<1>7. x \in Int /\ d * 0 <= x /\ x <= d * 1000
  BY <1>4, <1>5, <1>6
<1>8. Nearest(x, d) \in Int /\ 0 <= Nearest(x, d) /\ Nearest(x, d) <= 1000
  BY <1>5, <1>7, Rounding
<1> QED BY <1>2, <1>8 DEF x, d

LEMMA PredictionIsBand ==
  ASSUME NEW s, IsSample(s)
  PROVE  LET r == ComputePrediction(s) IN
         \/ r = NoResult
         \/ Cardinality(DOMAIN s) >= MinRecords /\ r \in Result /\ Band(s, r)
<1> DEFINE n == Cardinality(DOMAIN s)
           a == Ascending(s)
           p25 == Percentile(a, 25)
           p75 == Percentile(a, 75)
           most == IF p75 > p25 THEN p75 ELSE p25
           lower == Nearest(p25, 100)
           upper == Nearest(most, 100)
           median == Percentile(a, 50)
           conf == Confidence(n, median, upper - lower)
           r == [lower |-> lower, upper |-> upper, confidence |-> conf, size |-> n]
<1>1. ComputePrediction(s) = IF n < MinRecords THEN NoResult ELSE r
  BY DEF ComputePrediction
<1> HIDE DEF a
<1> SUFFICES ASSUME n >= MinRecords
             PROVE  r \in Result /\ Band(s, r)
  <2>1. n \in Nat /\ MinRecords \in Nat
    BY Records, BidBrainAssumption DEF BidBrainAssumption
  <2> HIDE DEF n, r
  <2> QED BY <1>1, <2>1 DEF n
<1>2. n \in Nat \ {0} /\ DOMAIN s # {}
  BY Records, FS_EmptySet, BidBrainAssumption DEF BidBrainAssumption
<1>3. a \in [1..n -> Nat \ {0}] /\ \A j, k \in 1..n : j <= k => a[j] <= a[k]
  BY InOrder DEF a
<1> HIDE DEF n
<1>4. /\ p25 \in Int /\ p25 <= 100 * a[High(25, n) + 1]
      /\ p75 \in Int /\ 100 * a[Low(75, n) + 1] <= p75
      /\ median \in Int /\ 100 * a[Low(50, n) + 1] <= median
  BY <1>2, <1>3, PercentileBetween
<1>5. a[Low(50, n) + 1] \in Nat \ {0} /\ a[Low(75, n) + 1] \in Nat \ {0}
  <2>1. Low(50, n) + 1 \in 1..n /\ Low(75, n) + 1 \in 1..n
    BY <1>2, Places
  <2> QED BY <1>3, <2>1
<1> HIDE DEF p25, p75, median
<1>6. most \in Int /\ p25 <= most /\ 100 * a[Low(75, n) + 1] <= most
  BY <1>4, <1>5
<1>7. median \in Nat \ {0}
  BY <1>4, <1>5
<1> HIDE DEF most
<1>8. lower \in Int /\ upper \in Int /\ lower <= upper
  <2> DEFINE d == 100
  <2>1. d \in Nat \ {0}
    OBVIOUS
  <2> HIDE DEF d
  <2>2. Nearest(p25, d) \in Int /\ Nearest(most, d) \in Int
    BY <1>4, <1>6, <2>1, Rounded
  <2>3. Nearest(p25, d) <= Nearest(most, d)
    BY <1>4, <1>6, <2>1, RoundingMonotone
  <2> QED BY <2>2, <2>3 DEF d
<1>9. Cardinality({i \in DOMAIN s : s[i] < lower}) <= (n + 2) \div 4
  BY <1>2, <1>4, BelowBand DEF a, n
<1>10. Cardinality({i \in DOMAIN s : s[i] > upper}) <= (n + 2) \div 4
  BY <1>2, <1>6, AboveBand DEF a, n
<1> HIDE DEF lower, upper
<1>11. conf \in Int /\ 0 <= conf /\ conf <= 1000
  <2> DEFINE spread == upper - lower
  <2>1. spread \in Nat
    BY <1>8
  <2> HIDE DEF spread
  <2>2. /\ Confidence(n, median, spread) \in Int
        /\ 0 <= Confidence(n, median, spread) /\ Confidence(n, median, spread) <= 1000
    <3>1. n \in Nat
      BY <1>2
    <3>2. \A q \in Nat, m \in Nat \ {0}, u \in Nat :
             /\ Confidence(q, m, u) \in Int
             /\ 0 <= Confidence(q, m, u) /\ Confidence(q, m, u) <= 1000
      BY ConfidenceInRange
    <3> QED BY <1>7, <2>1, <3>1, <3>2
  <2> QED BY <2>2 DEF spread
<1> HIDE DEF conf
<1>12. r.size = n /\ r.lower = lower /\ r.upper = upper /\ r.confidence = conf
  OBVIOUS
<1>13. r \in Result
  BY <1>2, <1>8, <1>11 DEF Result
<1> HIDE DEF r
<1> QED BY <1>8, <1>9, <1>10, <1>11, <1>12, <1>13 DEF Band, Storable, n

-----------------------------------------------------------------------------
(* Requests for predictions: the inductive invariant. *)

AskRecord == [pc : {"idle", "tender", "prices", "store"}, group : Groups \union {NoResult},
              result : Result, without : BOOLEAN]
History == Seq([group : Groups, price : Nat \ {0}])

\* A prediction computed from the sample there was at one moment for one group.
Earned(r) ==
  \E g \in Groups, n \in 0..Len(history) :
    /\ r = ComputePrediction(PricesOf(SubSeq(history, 1, n), g))
    /\ r.size >= MinRecords

\* A request about to store has an earned result the table takes, and none is under way
\* for an account that was never entitled to it.
AskFits(p) ==
  /\ ask[p].pc = "prices" => ask[p].group \in Groups
  /\ ask[p].pc = "store" => /\ ask[p].result # NoResult
                            /\ Storable(ask[p].result) /\ Earned(ask[p].result)
  /\ ~ask[p].without

BidIInv ==
  /\ BidTypeOK
  /\ prediction # NoResult => Earned(prediction)
  /\ \A p \in Asks : AskFits(p)
  /\ ~page.without

LEMMA SampleOf ==
  ASSUME NEW h \in History, NEW g \in Groups
  PROVE  IsSample(PricesOf(h, g))
<1> DEFINE D == {j \in DOMAIN h : h[j].group = g}
<1>1. Len(h) \in Nat /\ D \subseteq 1..Len(h) /\ \A i \in D : h[i].price \in Nat \ {0}
  <2> DEFINE E == [group : Groups, price : Nat \ {0}]
  <2>1. \A x \in E : x.price \in Nat \ {0}
    OBVIOUS
  <2> HIDE DEF E
  <2>2. h \in Seq(E)
    BY DEF History, E
  <2>3. Len(h) \in Nat /\ DOMAIN h = 1..Len(h) /\ \A i \in 1..Len(h) : h[i] \in E
    BY <2>2
  <2> QED BY <2>1, <2>3
<1>2. PricesOf(h, g) = [i \in D |-> h[i].price]
  BY DEF PricesOf
<1> HIDE DEF D
<1> QED BY <1>1, <1>2 DEF IsSample

\* What is earned stays so while records are added.
LEMMA StaysEarned ==
  ASSUME NEW r, Earned(r), history \in History,
         history' = history \/ \E x \in [group : Groups, price : Nat \ {0}] : history' = Append(history, x)
  PROVE  Earned(r)'
<1>1. PICK g \in Groups, n \in 0..Len(history) :
        /\ r = ComputePrediction(PricesOf(SubSeq(history, 1, n), g))
        /\ r.size >= MinRecords
  BY DEF Earned
<1>2. n \in 0..Len(history') /\ SubSeq(history', 1, n) = SubSeq(history, 1, n)
  <2> DEFINE E == [group : Groups, price : Nat \ {0}]
             h == history
  <2> HIDE DEF E
  <2>0. h \in Seq(E)
    BY DEF History, E
  <2>1. CASE history' = history
    BY <2>0, <2>1
  <2>2. CASE \E x \in E : history' = Append(history, x)
    <3>1. PICK x \in E : history' = Append(history, x)
      BY <2>2
    <3>2. Len(Append(h, x)) = Len(h) + 1 /\ n \in 0..Len(h) /\ Len(h) \in Nat
      BY <2>0
    <3>3. SubSeq(Append(h, x), 1, n) = SubSeq(h, 1, n)
      BY <2>0
    <3> QED BY <3>1, <3>2, <3>3
  <2> QED BY <2>1, <2>2 DEF E
<1>3. r = ComputePrediction(PricesOf(SubSeq(history', 1, n), g))
  BY <1>1, <1>2
<1> QED BY <1>1, <1>2, <1>3 DEF Earned

LEMMA InitBid == BidInit => BidIInv
<1> SUFFICES ASSUME BidInit PROVE BidIInv
  OBVIOUS
<1>1. NoResult \in Result /\ IdleAsk \in AskRecord
  BY DEF Result, IdleAsk, AskRecord
<1>2. ask \in [Asks -> AskRecord] /\ \A p \in Asks : ask[p] = IdleAsk
  BY <1>1 DEF BidInit
<1>3. history \in History /\ Len(history) <= MaxRecords
  BY BidBrainAssumption DEF BidInit, History, BidBrainAssumption
<1>4. page \in [pc : {"idle", "read"}, without : BOOLEAN] /\ ~page.without
  BY DEF BidInit, IdlePage
<1>5. \A p \in Asks : AskFits(p) /\ ask[p].pc = "idle"
  BY <1>2 DEF AskFits, IdleAsk
<1> QED BY <1>1, <1>2, <1>3, <1>4, <1>5 DEF BidIInv, BidTypeOK, BidInit, AskRecord, History

\* One request changes and nothing else.
LEMMA OneAsk ==
  ASSUME BidIInv, NEW p \in Asks, NEW r \in AskRecord, ask' = [ask EXCEPT ![p] = r],
         UNCHANGED <<tier, group, history, page>>, prediction' \in Result,
         prediction' # NoResult => Earned(prediction'),
         r.pc = "prices" => r.group \in Groups,
         r.pc = "store" => r.result # NoResult /\ Storable(r.result) /\ Earned(r.result),
         ~r.without
  PROVE  BidIInv'
<1>0. ask \in [Asks -> AskRecord] /\ history \in History
  BY DEF BidIInv, BidTypeOK, AskRecord, History
<1>1. ask' \in [Asks -> AskRecord] /\ ask'[p] = r /\ \A q \in Asks \ {p} : ask'[q] = ask[q]
  BY <1>0
<1>2. \A x : Earned(x) => Earned(x)'
  BY <1>0, StaysEarned
<1>3. ASSUME NEW q \in Asks PROVE AskFits(q)'
  <2>1. AskFits(q)
    BY DEF BidIInv
  <2>2. CASE q = p
    BY <1>1, <1>2, <2>2 DEF AskFits
  <2>3. CASE q # p
    BY <1>1, <1>2, <2>1, <2>3 DEF AskFits
  <2> QED BY <2>2, <2>3
<1>4. prediction' # NoResult => Earned(prediction)'
  BY DEF Earned
<1>5. BidTypeOK'
  BY <1>1, <1>3 DEF BidIInv, BidTypeOK, AskFits, AskRecord
<1> QED BY <1>3, <1>4, <1>5 DEF BidIInv

LEMMA AskTypes ==
  ASSUME BidIInv, NEW p \in Asks
  PROVE  /\ ask[p] \in AskRecord /\ AskFits(p) /\ history \in History
         /\ prediction \in Result /\ (prediction # NoResult => Earned(prediction))
         /\ NoResult \in Result /\ IdleAsk \in AskRecord
BY DEF BidIInv, BidTypeOK, AskRecord, History, IdleAsk, Result

LEMMA GoIdle ==
  ASSUME BidIInv, NEW p \in Asks, ask' = [ask EXCEPT ![p] = IdleAsk],
         UNCHANGED <<tier, group, history, page>>, prediction' \in Result,
         prediction' # NoResult => Earned(prediction')
  PROVE  BidIInv'
<1>1. IdleAsk \in AskRecord /\ IdleAsk.pc = "idle" /\ ~IdleAsk.without
  BY DEF IdleAsk, AskRecord, Result
<1> HIDE DEF IdleAsk
<1> QED BY <1>1, OneAsk

LEMMA AskStep ==
  ASSUME BidIInv, NEW p \in Asks, AskPrediction(p)
  PROVE  BidIInv'
<1> DEFINE r == [IdleAsk EXCEPT !.pc = "tender", !.without = tier \notin Entitled]
<1>1. r \in AskRecord /\ r.pc = "tender" /\ ~r.without
  BY DEF AskPrediction, MayAsk, IdleAsk, AskRecord, Result
<1>2. ask' = [ask EXCEPT ![p] = r] /\ UNCHANGED <<tier, group, history, prediction, page>>
  BY DEF AskPrediction
<1> HIDE DEF r
<1> QED BY <1>1, <1>2, AskTypes, OneAsk

LEMMA ReadTenderStep ==
  ASSUME BidIInv, NEW p \in Asks, ReadTender(p)
  PROVE  BidIInv'
<1> DEFINE r == [ask[p] EXCEPT !.pc = "prices", !.group = group]
<1>1. r \in AskRecord /\ r.pc = "prices" /\ r.group \in Groups /\ ~r.without
  BY AskTypes DEF BidIInv, BidTypeOK, AskRecord, AskFits
<1>2. ask' = [ask EXCEPT ![p] = r] /\ UNCHANGED <<tier, group, history, prediction, page>>
  BY AskTypes DEF ReadTender, BidIInv, BidTypeOK
<1> HIDE DEF r
<1> QED BY <1>1, <1>2, AskTypes, OneAsk

LEMMA ReadPricesStep ==
  ASSUME BidIInv, NEW p \in Asks, ReadPrices(p)
  PROVE  BidIInv'
<1> DEFINE g == ask[p].group
           s == PricesOf(history, g)
           result == ComputePrediction(s)
           r == [ask[p] EXCEPT !.pc = "store", !.group = NoResult, !.result = result]
<1>1. g \in Groups /\ history \in History
  BY AskTypes DEF ReadPrices, AskFits
<1>2. /\ ask' = [ask EXCEPT ![p] = IF result = NoResult THEN IdleAsk ELSE r]
      /\ UNCHANGED <<tier, group, history, prediction, page>>
  BY AskTypes DEF ReadPrices, BidIInv, BidTypeOK
<1>3. CASE result = NoResult
  <2>1. ask' = [ask EXCEPT ![p] = IdleAsk]
    BY <1>2, <1>3
  <2> QED BY <1>2, <2>1, AskTypes, GoIdle
<1>4. CASE result # NoResult
  <2>1. IsSample(s)
    BY <1>1, SampleOf
  <2>2. Cardinality(DOMAIN s) >= MinRecords /\ result \in Result /\ Band(s, result)
    <3> HIDE DEF s
    <3> QED BY <1>4, <2>1, PredictionIsBand
  <2>3. Storable(result) /\ result.size >= MinRecords
    <3> HIDE DEF s, result
    <3> QED BY <2>2 DEF Band
  <2>4. Earned(result)
    <3>1. Len(history) \in 0..Len(history) /\ SubSeq(history, 1, Len(history)) = history
      BY <1>1 DEF History
    <3>2. result = ComputePrediction(PricesOf(SubSeq(history, 1, Len(history)), g))
      BY <3>1
    <3> HIDE DEF result, g
    <3> QED BY <1>1, <2>3, <3>1, <3>2 DEF Earned
  <2> HIDE DEF result
  <2>5. r \in AskRecord /\ r.pc = "store" /\ r.result = result /\ ~r.without
    BY <2>2, AskTypes DEF AskRecord, AskFits
  <2>6. ask' = [ask EXCEPT ![p] = r]
    BY <1>2, <1>4
  <2> HIDE DEF r
  <2> QED BY <1>2, <1>4, <2>3, <2>4, <2>5, <2>6, AskTypes, OneAsk
<1> QED BY <1>3, <1>4

LEMMA StoreStep ==
  ASSUME BidIInv, NEW p \in Asks, Store(p)
  PROVE  BidIInv'
<1>1. ask[p].result \in Result /\ Earned(ask[p].result)
  BY AskTypes DEF Store, AskFits, AskRecord
<1>2. /\ ask' = [ask EXCEPT ![p] = IdleAsk] /\ UNCHANGED <<tier, group, history, page>>
      /\ prediction' = ask[p].result
  BY DEF Store
<1> QED BY <1>1, <1>2, GoIdle

LEMMA AskFailsStep ==
  ASSUME BidIInv, NEW p \in Asks, AskFails(p)
  PROVE  BidIInv'
<1>1. ask' = [ask EXCEPT ![p] = IdleAsk] /\ UNCHANGED <<tier, group, history, prediction, page>>
  BY DEF AskFails
<1> QED BY <1>1, AskTypes, GoIdle

LEMMA SetTierStep ==
  ASSUME BidIInv, NEW t \in Tiers, SetTier(t)
  PROVE  BidIInv'
<1> DEFINE Without(x) == x /\ t \notin Entitled
<1>0. ask \in [Asks -> AskRecord] /\ history \in History /\ page \in [pc : {"idle", "read"}, without : BOOLEAN]
  BY DEF BidIInv, BidTypeOK, AskRecord, History
<1>1. ASSUME NEW p \in Asks
      PROVE  /\ ask'[p] \in AskRecord /\ ask'[p].pc = ask[p].pc /\ ask'[p].group = ask[p].group
             /\ ask'[p].result = ask[p].result /\ (ask'[p].without => ask[p].without)
  <2>1. ask'[p] = [ask[p] EXCEPT !.without = @ /\ t \notin Entitled]
    BY DEF SetTier
  <2>2. ask[p] \in AskRecord
    BY <1>0
  <2> QED BY <2>1, <2>2 DEF AskRecord
<1>2. ask' \in [Asks -> AskRecord]
  <2>1. ask' = [p \in Asks |-> [ask[p] EXCEPT !.without = @ /\ t \notin Entitled]]
    BY DEF SetTier
  <2>2. ask' = [p \in Asks |-> ask'[p]]
    BY <2>1
  <2> QED BY <1>1, <2>2
<1>3. page' \in [pc : {"idle", "read"}, without : BOOLEAN] /\ (page'.without => page.without)
  BY <1>0 DEF SetTier
<1>4. \A x : Earned(x) => Earned(x)'
  BY <1>0, StaysEarned DEF SetTier
<1>5. ASSUME NEW p \in Asks PROVE AskFits(p)'
  <2>1. AskFits(p)
    BY DEF BidIInv
  <2> QED BY <1>1, <1>4, <2>1 DEF AskFits
<1>6. prediction' = prediction /\ history' = history /\ group' = group /\ tier' = t
  BY DEF SetTier
<1>7. BidTypeOK'
  BY <1>2, <1>3, <1>5, <1>6 DEF BidIInv, BidTypeOK, AskFits, AskRecord
<1>8. (prediction # NoResult => Earned(prediction))'
  BY <1>4, <1>6 DEF BidIInv
<1> QED BY <1>3, <1>5, <1>7, <1>8 DEF BidIInv

LEMMA RecordStep ==
  ASSUME BidIInv, NEW g \in Groups, NEW price \in Prices, RecordOutcome(g, price)
  PROVE  BidIInv'
<1> DEFINE x == [group |-> g, price |-> price]
<1>0. history \in History /\ Len(history) < MaxRecords
  BY DEF BidIInv, BidTypeOK, History, RecordOutcome
<1>1. x \in [group : Groups, price : Nat \ {0}] /\ history' = Append(history, x)
  BY BidBrainAssumption DEF RecordOutcome, Known, BidBrainAssumption
<1>2. UNCHANGED <<tier, group, prediction, ask, page>>
  BY DEF RecordOutcome
<1> HIDE DEF x
<1>3. history' \in History /\ Len(history') <= MaxRecords
  BY <1>0, <1>1, BidBrainAssumption DEF History, BidBrainAssumption
<1>4. \A r : Earned(r) => Earned(r)'
  BY <1>0, <1>1, StaysEarned
<1>5. \A p \in Asks : AskFits(p)'
  BY <1>2, <1>4 DEF BidIInv, AskFits
<1>6. BidTypeOK'
  BY <1>2, <1>3 DEF BidIInv, BidTypeOK, History
<1> QED BY <1>2, <1>4, <1>5, <1>6 DEF BidIInv

LEMMA BidStep == BidIInv /\ [BidNext]_bidVars => BidIInv'
<1> SUFFICES ASSUME BidIInv, [BidNext]_bidVars PROVE BidIInv'
  OBVIOUS
<1>0. history \in History
  BY DEF BidIInv, BidTypeOK, History
<1>1. CASE \E t \in Tiers : SetTier(t)
  BY <1>1, SetTierStep
<1>2. CASE \E g \in Groups : Regroup(g)
  <2>1. PICK g \in Groups : group' = g /\ UNCHANGED <<tier, history, prediction, ask, page>>
    BY <1>2 DEF Regroup
  <2>2. \A r : Earned(r) => Earned(r)'
    BY <1>0, <2>1, StaysEarned
  <2>3. \A p \in Asks : AskFits(p)'
    BY <2>1, <2>2 DEF BidIInv, AskFits
  <2> QED BY <2>1, <2>2, <2>3 DEF BidIInv, BidTypeOK
<1>3. CASE \E g \in Groups, price \in Prices : RecordOutcome(g, price)
  BY <1>3, RecordStep
<1>4. CASE \E p \in Asks : AskPrediction(p) \/ ReadTender(p) \/ ReadPrices(p) \/ Store(p) \/ AskFails(p)
  BY <1>4, AskStep, ReadTenderStep, ReadPricesStep, StoreStep, AskFailsStep
<1>5. CASE OpenPage \/ ShowPredictions
  <2>1. UNCHANGED <<tier, group, history, prediction, ask>>
    BY <1>5 DEF OpenPage, ShowPredictions
  <2>2. page' \in [pc : {"idle", "read"}, without : BOOLEAN] /\ ~page'.without
    <3>1. CASE OpenPage
      BY <3>1 DEF OpenPage, MayAsk
    <3>2. CASE ShowPredictions
      BY <3>2 DEF ShowPredictions, IdlePage
    <3> QED BY <1>5, <3>1, <3>2
  <2>3. \A r : Earned(r) => Earned(r)'
    BY <1>0, <2>1, StaysEarned
  <2>4. \A p \in Asks : AskFits(p)'
    BY <2>1, <2>3 DEF BidIInv, AskFits
  <2> QED BY <2>1, <2>2, <2>3, <2>4 DEF BidIInv, BidTypeOK
<1>6. CASE UNCHANGED bidVars
  <2>1. UNCHANGED <<tier, group, history, prediction, ask, page>>
    BY <1>6 DEF bidVars
  <2>2. \A r : Earned(r) => Earned(r)'
    BY <1>0, <2>1, StaysEarned
  <2>3. \A p \in Asks : AskFits(p)'
    BY <2>1, <2>2 DEF BidIInv, AskFits
  <2> QED BY <2>1, <2>2, <2>3 DEF BidIInv, BidTypeOK
<1> QED BY <1>1, <1>2, <1>3, <1>4, <1>5, <1>6 DEF BidNext

LEMMA BidInvariance == BidSpec => []BidIInv
BY InitBid, BidStep, PTL DEF BidSpec

LEMMA BandOfEveryGroup ==
  ASSUME BidIInv
  PROVE  BandIsInterquartile
<1> SUFFICES ASSUME NEW g \in Groups, ComputePrediction(PricesOf(history, g)) # NoResult
             PROVE  LET s == PricesOf(history, g)
                        r == ComputePrediction(s)
                        quarter == (Cardinality(DOMAIN s) + 2) \div 4
                    IN  Outside(s, r).below <= quarter /\ Outside(s, r).above <= quarter
  BY DEF BandIsInterquartile
<1> DEFINE s == PricesOf(history, g)
           r == ComputePrediction(s)
<1>1. IsSample(s)
  BY SampleOf DEF BidIInv, BidTypeOK, History
<1>2. Band(s, r)
  <2> HIDE DEF s
  <2>1. r # NoResult
    BY DEF s
  <2> QED BY <1>1, <2>1, PredictionIsBand
<1> HIDE DEF s, r
<1>3. Outside(s, r).below <= (Cardinality(DOMAIN s) + 2) \div 4
      /\ Outside(s, r).above <= (Cardinality(DOMAIN s) + 2) \div 4
  BY <1>2 DEF Outside, Band
<1> QED BY <1>3 DEF s, r

\* REQ 7.4, 7.5, INV3: the state has its types, every prediction is earned by a sample
\* there was, is an interquartile range whatever the prices, and fits its table.
THEOREM PredictionsAlwaysSound == BidSpec => []PredictionsAreSound
<1>1. BidIInv => PredictionsAreSound
  <2> SUFFICES ASSUME BidIInv PROVE PredictionsAreSound
    OBVIOUS
  <2>1. BidTypeOK /\ ResultsAreStorable
    BY DEF BidIInv, ResultsAreStorable, AskFits
  <2>2. PredictionIsEarned
    <3> SUFFICES ASSUME prediction # NoResult
                 PROVE  \E g \in Groups, n \in 0..Len(history) :
                          /\ prediction = ComputePrediction(PricesOf(SubSeq(history, 1, n), g))
                          /\ prediction.size >= MinRecords
      BY DEF PredictionIsEarned
    <3>1. Earned(prediction)
      BY DEF BidIInv
    <3> QED BY <3>1 DEF Earned
  <2> QED BY <2>1, <2>2, BandOfEveryGroup DEF PredictionsAreSound
<1> QED BY <1>1, BidInvariance, PTL

\* REQ 7.2, 10.5: a prediction is stored and shown only upon a request in whose course
\* the account was entitled to it.
THEOREM AlwaysEntitled == BidSpec => EntitledOnce
<1>1. BidIInv /\ [BidNext]_bidVars =>
        [/\ \A p \in Asks : Store(p) => ~ask[p].without
         /\ ShowPredictions => ~page.without]_bidVars
  BY DEF BidIInv, AskFits
<1> QED BY <1>1, BidInvariance, PTL DEF BidSpec, EntitledOnce

\* MM1, INV4, REQ 5.3, 5.6: whatever the tier of the account becomes, its cap holds, the
\* scores of its matches are in range before evaluateMatch clamps them, and no tender
\* gains by waiting.
THEOREM ScoringAlwaysSound == BidSpec => []ScoringIsSound
<1>1. ASSUME tier \in Tiers PROVE ScoringIsSound
  <2> SUFFICES ASSUME NEW t \in Tenders, NEW f \in Filters, NEW now \in Times
               PROVE  /\ \A region \in Regions : CapHolds(t, f, Caps[tier], now, region)
                      /\ InRange(t, f, Caps[tier], now)
                      /\ \A later \in Times : now <= later => NeverGains(t, f, Caps[tier], now, later)
    BY DEF ScoringIsSound
  <2>1. /\ t \in TendersOf(Regions, Categories) /\ f \in FiltersOf(Regions, Categories)
        /\ Caps[tier] \in Nat /\ now \in Int /\ \A later \in Times : later \in Int
    BY <1>1, InsightsAssumption DEF InsightsAssumption
  <2>2. \A region \in Regions : CapHolds(t, f, Caps[tier], now, region)
    BY <2>1, ScoresAlwaysSound
  <2>3. t.region \in Regions
    BY <2>1 DEF TendersOf
  <2>4. InRange(t, f, Caps[tier], now)
    <3>1. now <= now
      BY <2>1
    <3> QED BY <2>1, <2>3, <3>1, ScoresAlwaysSound
  <2>5. ASSUME NEW later \in Times, now <= later PROVE NeverGains(t, f, Caps[tier], now, later)
    BY <2>1, <2>3, <2>5, ScoresAlwaysSound
  <2> QED BY <2>2, <2>4, <2>5
<1>2. BidIInv => tier \in Tiers
  BY DEF BidIInv, BidTypeOK
<1> QED BY <1>1, <1>2, BidInvariance, PTL
=============================================================================
