-------------------------- MODULE DocumentsProofs --------------------------
(***************************************************************************)
(* Proofs about Documents, for any accounts, documents, requests and       *)
(* failures: the row and the file of a document stay in step, and nobody   *)
(* is handed the bytes of another account's document.                      *)
(***************************************************************************)
EXTENDS Documents, TLAPS

Request == [pc : {"idle", "put", "insert", "mark", "unlink", "read"},
            account : Accounts, doc : Docs \union {NoDoc}]
Row == {"none", "active", "deleted"}

\* What a request relies on from one step to the next, though it holds no lock.
Fits(r) ==
  /\ r.pc = "idle" => r.doc = NoDoc
  /\ r.pc # "idle" => r.doc \in Docs /\ owner[r.doc] = r.account
  /\ r.pc = "put" => row[r.doc] = "none" /\ r.doc \notin blob
  /\ r.pc = "insert" => row[r.doc] = "none" /\ r.doc \in blob
  /\ r.pc \in {"read", "mark"} => row[r.doc] # "none"
  /\ r.pc = "unlink" => row[r.doc] = "deleted"

RequestsFit == \A q \in Requests : Fits(req[q])

\* The storage key of an upload is its own.
Uploading(q) == req[q].pc \in {"put", "insert"}
UploadsApart == \A q, x \in Requests : Uploading(q) /\ req[x].doc = req[q].doc => x = q

IInv == StoresAgree /\ OwnBytesOnly /\ RequestsFit /\ UploadsApart

-----------------------------------------------------------------------------
LEMMA IdleRequest == Idle \in Request /\ Fits(Idle)
BY DocumentsAssumption DEF DocumentsAssumption, Idle, Request, Fits

LEMMA Start == Init => IInv
<1> SUFFICES ASSUME Init PROVE IInv OBVIOUS
<1> USE DocumentsAssumption DEF DocumentsAssumption, Init
<1>1. TypeOK
  BY IdleRequest DEF TypeOK, Request, NoScan
<1>2. RequestsFit /\ UploadsApart
  BY IdleRequest DEF RequestsFit, UploadsApart, Uploading, Idle
<1>3. RowHasBlob /\ RemovedIsGone /\ OrphansAccounted /\ OwnBytesOnly
  BY DEF RowHasBlob, RemovedIsGone, OrphansAccounted, OwnBytesOnly
<1> QED BY <1>1, <1>2, <1>3 DEF IInv, StoresAgree

\* Facts about the request that takes a step.
LEMMA InHand ==
  ASSUME IInv, NEW q \in Requests, req[q].pc # "idle"
  PROVE  /\ req[q] \in Request /\ req[q].doc \in Docs /\ req[q].doc # NoDoc
         /\ owner[req[q].doc] = req[q].account /\ Fits(req[q])
BY DocumentsAssumption
   DEF IInv, StoresAgree, TypeOK, RequestsFit, Fits, Request, DocumentsAssumption

-----------------------------------------------------------------------------
(* A step of request q that makes r of it, and changes the row and the     *)
(* file of its document only.                                              *)

LEMMA OneRequest ==
  ASSUME IInv, NEW q \in Requests, NEW r \in Request, NEW d \in Docs,
         req' = [req EXCEPT ![q] = r], owner' = owner,
         row' \in [Docs -> Row], blob' \subseteq Docs,
         \A e \in Docs \ {d} : row'[e] = row[e] /\ (e \in blob' <=> e \in blob),
         Fits(req[q])',
         r.pc # "idle" => r.doc = d,
         r.pc \in {"put", "insert"} => \A x \in Requests \ {q} : req[x].doc # d,
         \A x \in Requests \ {q} : req[x].doc = d /\ req[x].pc # "idle" => Fits(req[x])'
  PROVE  RequestsFit' /\ UploadsApart'
<1>0. \A x \in Requests : req[x] \in Request /\ Fits(req[x])
  BY DEF IInv, StoresAgree, TypeOK, RequestsFit, Request
<1>1. req'[q] = r /\ \A x \in Requests \ {q} : req'[x] = req[x]
  BY DEF IInv, StoresAgree, TypeOK
<1>2. ASSUME NEW x \in Requests PROVE Fits(req[x])' 
  <2>1. CASE x = q
    BY <2>1, <1>1 DEF Fits
  <2>2. CASE x # q /\ req[x].doc = d /\ req[x].pc # "idle"
    BY <2>2, <1>1 DEF Fits
  <2>3. CASE x # q /\ ~(req[x].doc = d /\ req[x].pc # "idle")
    BY <2>3, <1>0, <1>1 DEF Fits, Request
  <2> QED BY <2>1, <2>2, <2>3
<1>3. RequestsFit'
  BY <1>2 DEF RequestsFit
<1>4. UploadsApart'
  <2> SUFFICES ASSUME NEW x \in Requests, NEW y \in Requests, Uploading(x)', req'[y].doc = req'[x].doc
               PROVE  y = x
    BY DEF UploadsApart
  <2>1. CASE x # q /\ y # q
    BY <2>1, <1>1 DEF IInv, UploadsApart, Uploading
  <2>2. CASE x = q
    BY <2>2, <1>1 DEF Uploading
  <2>3. CASE x # q /\ y = q
    <3>1. req[x].doc = d /\ Fits(req[x])'
      BY <1>0, <1>1, <1>2, <2>3, DocumentsAssumption DEF Fits, Uploading, Request, DocumentsAssumption
    <3>2. r.pc \notin {"put", "insert"} /\ r.pc # "idle" /\ r.doc = d
      BY <1>0, <1>1, <2>3, <3>1, DocumentsAssumption DEF Fits, Uploading, DocumentsAssumption
    <3> QED BY <1>1, <2>3, <3>1, <3>2 DEF Fits, Uploading, Request
  <2> QED BY <2>1, <2>2, <2>3
<1> QED BY <1>3, <1>4

-----------------------------------------------------------------------------
(* Upload. *)

LEMMA BeginUploadStep ==
  ASSUME IInv, NEW q \in Requests, NEW d \in Docs, BeginUpload(q, d)
  PROVE  IInv'
<1> DEFINE r == [pc |-> "put", account |-> owner[d], doc |-> d]
<1> USE DEF BeginUpload, answers, scanVars
<1>1. r \in Request
  BY DEF IInv, StoresAgree, TypeOK, Request
<1>2. RequestsFit' /\ UploadsApart'
  <2>1. Fits(req[q])'
    BY DEF Fits, IInv, StoresAgree, TypeOK
  <2>2. row' \in [Docs -> Row] /\ blob' \subseteq Docs
    BY DEF IInv, StoresAgree, TypeOK, Row
  <2> QED BY <1>1, <2>1, <2>2, OneRequest
<1>3. TypeOK'
  BY <1>1 DEF IInv, StoresAgree, TypeOK, Request
<1>4. RowHasBlob' /\ RemovedIsGone' /\ OwnBytesOnly'
  BY DEF IInv, StoresAgree, RowHasBlob, RemovedIsGone, OwnBytesOnly
<1>5. OrphansAccounted'
  BY DEF IInv, StoresAgree, TypeOK, OrphansAccounted
<1> QED BY <1>2, <1>3, <1>4, <1>5 DEF IInv, StoresAgree

LEMMA PutStep ==
  ASSUME IInv, NEW q \in Requests, Put(q)
  PROVE  IInv'
<1> DEFINE d == req[q].doc
           r == [req[q] EXCEPT !.pc = "insert"]
<1> USE DEF Put, Step, answers, scanVars
<1>0. req[q] \in Request /\ d \in Docs /\ Fits(req[q])
  BY InHand
<1>1. r \in Request /\ r.pc = "insert" /\ r.doc = d /\ r.account = req[q].account
  BY <1>0 DEF Request
<1>2. RequestsFit' /\ UploadsApart'
  <2>1. Fits(req[q])'
    BY <1>0, <1>1 DEF Fits, IInv, StoresAgree, TypeOK
  <2>2. row' \in [Docs -> Row] /\ blob' \subseteq Docs
    BY <1>0 DEF IInv, StoresAgree, TypeOK, Row
  <2>3. \A x \in Requests \ {q} : req[x].doc # d
    BY DEF IInv, UploadsApart, Uploading
  <2>4. req' = [req EXCEPT ![q] = r] /\ owner' = owner
    BY DEF IInv, StoresAgree, TypeOK
  <2>5. \A e \in Docs \ {d} : row'[e] = row[e] /\ (e \in blob' <=> e \in blob)
    OBVIOUS
  <2> HIDE DEF r, d, Put
  <2> QED BY <1>0, <1>1, <2>1, <2>2, <2>3, <2>4, <2>5, OneRequest
<1>3. TypeOK'
  BY <1>0, <1>1 DEF IInv, StoresAgree, TypeOK, Request
<1>4. RowHasBlob' /\ RemovedIsGone' /\ OwnBytesOnly'
  BY <1>0 DEF IInv, StoresAgree, TypeOK, RowHasBlob, RemovedIsGone, OwnBytesOnly, Fits
<1>5. OrphansAccounted'
  BY <1>0, <1>1 DEF IInv, StoresAgree, TypeOK, OrphansAccounted
<1> QED BY <1>2, <1>3, <1>4, <1>5 DEF IInv, StoresAgree

LEMMA InsertStep ==
  ASSUME IInv, NEW q \in Requests, Insert(q)
  PROVE  IInv'
<1> DEFINE d == req[q].doc
<1> USE DEF Insert, Done, answers, scanVars
<1>0. d \in Docs /\ Fits(req[q])
  BY InHand
<1>1. RequestsFit' /\ UploadsApart'
  <2>1. Fits(req[q])' /\ Idle.pc = "idle"
    BY IdleRequest DEF Fits, Idle, IInv, StoresAgree, TypeOK
  <2>2. row' \in [Docs -> Row] /\ blob' \subseteq Docs
    BY DEF IInv, StoresAgree, TypeOK, Row
  <2>3. \A x \in Requests \ {q} : req[x].doc # d
    BY DEF IInv, UploadsApart, Uploading
  <2>4. req' = [req EXCEPT ![q] = Idle] /\ owner' = owner
    OBVIOUS
  <2>5. \A e \in Docs \ {d} : row'[e] = row[e] /\ (e \in blob' <=> e \in blob)
    BY DEF IInv, StoresAgree, TypeOK
  <2> HIDE DEF d, Insert
  <2> QED BY <1>0, <2>1, <2>2, <2>3, <2>4, <2>5, IdleRequest, OneRequest
<1>2. TypeOK'
  BY <1>0, IdleRequest DEF IInv, StoresAgree, TypeOK, Request, Fits
<1>3. RowHasBlob' /\ RemovedIsGone' /\ OwnBytesOnly'
  BY <1>0 DEF IInv, StoresAgree, TypeOK, RowHasBlob, RemovedIsGone, OwnBytesOnly, Fits
<1>4. OrphansAccounted'
  BY <1>0 DEF IInv, StoresAgree, TypeOK, OrphansAccounted
<1> QED BY <1>1, <1>2, <1>3, <1>4 DEF IInv, StoresAgree

-----------------------------------------------------------------------------
(* Retrieval and deletion. *)

LEMMA FindStep ==
  ASSUME IInv, NEW q \in Requests, NEW a \in Accounts, NEW d \in Docs,
         NEW pc \in {"read", "mark"}, Find(q, a, d, pc)
  PROVE  IInv'
<1> DEFINE r == [pc |-> pc, account |-> a, doc |-> d]
<1> USE DEF Find, Visible, answers, scanVars
<1>1. r \in Request
  BY DEF Request
<1>2. RequestsFit' /\ UploadsApart'
  <2>1. Fits(req[q])'
    BY DEF Fits, IInv, StoresAgree, TypeOK
  <2>2. row' \in [Docs -> Row] /\ blob' \subseteq Docs
    BY DEF IInv, StoresAgree, TypeOK, Row
  <2>3. \A x \in Requests \ {q} : Fits(req[x])'
    BY DEF IInv, StoresAgree, TypeOK, RequestsFit, Fits
  <2> QED BY <1>1, <2>1, <2>2, <2>3, OneRequest
<1>3. TypeOK'
  BY <1>1 DEF IInv, StoresAgree, TypeOK, Request
<1>4. RowHasBlob' /\ RemovedIsGone' /\ OwnBytesOnly'
  BY DEF IInv, StoresAgree, RowHasBlob, RemovedIsGone, OwnBytesOnly
<1>5. OrphansAccounted'
  BY DEF IInv, StoresAgree, TypeOK, OrphansAccounted
<1> QED BY <1>2, <1>3, <1>4, <1>5 DEF IInv, StoresAgree

\* What ends a request that leaves rows and files alone.
LEMMA EndsOnly ==
  ASSUME IInv, NEW q \in Requests, Done(q), UNCHANGED <<row, owner, blob>>
  PROVE  RequestsFit' /\ UploadsApart'
<1> USE DEF Done
<1>1. Idle.pc = "idle" /\ Idle.doc = NoDoc
  BY DEF Idle
<1>2. req'[q] = Idle /\ \A x \in Requests \ {q} : req'[x] = req[x]
  BY DEF IInv, StoresAgree, TypeOK
<1>3. RequestsFit'
  BY <1>1, <1>2 DEF IInv, RequestsFit, Fits
<1>4. UploadsApart'
  <2> SUFFICES ASSUME NEW x \in Requests, NEW y \in Requests, Uploading(x)', req'[y].doc = req'[x].doc
               PROVE  y = x
    BY DEF UploadsApart
  <2>1. x # q
    BY <1>1, <1>2 DEF Uploading
  <2>2. CASE y = q
    <3>1. req[x].doc \in Docs /\ req'[y].doc = NoDoc
      BY <2>1, <2>2, <1>2, InHand DEF Uploading, Idle
    <3> QED BY <3>1, <2>1, <1>2, DocumentsAssumption DEF DocumentsAssumption
  <2> QED BY <2>1, <2>2, <1>2 DEF IInv, UploadsApart, Uploading
<1> QED BY <1>3, <1>4

LEMMA ReadStep ==
  ASSUME IInv, NEW q \in Requests, Read(q)
  PROVE  IInv'
<1> USE DEF Read, scanVars
<1>0. req[q] \in Request /\ req[q].doc \in Docs /\ owner[req[q].doc] = req[q].account
  BY InHand
<1>1. RequestsFit' /\ UploadsApart'
  BY EndsOnly
<1>2. read' \subseteq Accounts \X Docs /\ \A x \in read' : owner[x[2]] = x[1]
  BY <1>0 DEF IInv, StoresAgree, TypeOK, OwnBytesOnly, Request
<1>3. TypeOK'
  BY <1>2, IdleRequest DEF IInv, StoresAgree, TypeOK, Request, Done
<1>4. RowHasBlob' /\ RemovedIsGone' /\ OwnBytesOnly'
  BY <1>2 DEF IInv, StoresAgree, RowHasBlob, RemovedIsGone, OwnBytesOnly
<1>5. OrphansAccounted'
  BY DEF IInv, StoresAgree, TypeOK, OrphansAccounted, Done
<1> QED BY <1>1, <1>3, <1>4, <1>5 DEF IInv, StoresAgree

LEMMA MarkStep ==
  ASSUME IInv, NEW q \in Requests, Mark(q)
  PROVE  IInv'
<1> DEFINE d == req[q].doc
           r == [req[q] EXCEPT !.pc = "unlink"]
<1> USE DEF Mark, Step, answers, scanVars
<1>0. req[q] \in Request /\ d \in Docs /\ Fits(req[q])
  BY InHand
<1>1. r \in Request /\ r.pc = "unlink" /\ r.doc = d /\ r.account = req[q].account
  BY <1>0 DEF Request
<1>2. row' \in [Docs -> Row] /\ row'[d] = "deleted" /\ \A e \in Docs \ {d} : row'[e] = row[e]
  BY <1>0 DEF IInv, StoresAgree, TypeOK, Row
<1>3. RequestsFit' /\ UploadsApart'
  <2>1. Fits(req[q])'
    BY <1>0, <1>1, <1>2 DEF Fits, IInv, StoresAgree, TypeOK
  <2>2. blob' \subseteq Docs
    BY DEF IInv, StoresAgree, TypeOK
  <2>3. \A x \in Requests \ {q} : Fits(req[x])'
    BY <1>0, <1>2 DEF IInv, StoresAgree, TypeOK, RequestsFit, Fits, Request
  <2>4. req' = [req EXCEPT ![q] = r] /\ owner' = owner /\ blob' = blob
    BY DEF IInv, StoresAgree, TypeOK
  <2> HIDE DEF r, d, Mark
  <2> QED BY <1>0, <1>1, <1>2, <2>1, <2>2, <2>3, <2>4, OneRequest
<1>4. TypeOK'
  BY <1>0, <1>1, <1>2 DEF IInv, StoresAgree, TypeOK, Request, Row
<1>5. RowHasBlob' /\ RemovedIsGone' /\ OwnBytesOnly'
  BY <1>2 DEF IInv, StoresAgree, TypeOK, RowHasBlob, RemovedIsGone, OwnBytesOnly
<1>6. OrphansAccounted'
  BY <1>1, <1>2 DEF IInv, StoresAgree, TypeOK, OrphansAccounted
<1> QED BY <1>3, <1>4, <1>5, <1>6 DEF IInv, StoresAgree

LEMMA UnlinkStep ==
  ASSUME IInv, NEW q \in Requests, Unlink(q)
  PROVE  IInv'
<1> DEFINE d == req[q].doc
<1> USE DEF Unlink, Done, scanVars
<1>0. d \in Docs /\ Fits(req[q]) /\ row[d] = "deleted"
  BY InHand DEF Fits
<1>1. RequestsFit' /\ UploadsApart'
  <2>1. Fits(req[q])' /\ Idle.pc = "idle"
    BY IdleRequest DEF Fits, Idle, IInv, StoresAgree, TypeOK
  <2>2. row' \in [Docs -> Row] /\ blob' \subseteq Docs
    BY DEF IInv, StoresAgree, TypeOK, Row
  <2>3. \A x \in Requests \ {q} : Fits(req[x])'
    BY <1>0 DEF IInv, StoresAgree, TypeOK, RequestsFit, Fits
  <2>4. req' = [req EXCEPT ![q] = Idle] /\ owner' = owner
    OBVIOUS
  <2>5. \A e \in Docs \ {d} : row'[e] = row[e] /\ (e \in blob' <=> e \in blob)
    OBVIOUS
  <2> HIDE DEF d, Unlink
  <2> QED BY <1>0, <2>1, <2>2, <2>3, <2>4, <2>5, IdleRequest, OneRequest
<1>2. TypeOK'
  BY <1>0, IdleRequest DEF IInv, StoresAgree, TypeOK, Request
<1>3. RowHasBlob' /\ RemovedIsGone' /\ OwnBytesOnly'
  BY <1>0 DEF IInv, StoresAgree, TypeOK, RowHasBlob, RemovedIsGone, OwnBytesOnly
<1>4. OrphansAccounted'
  BY <1>0 DEF IInv, StoresAgree, TypeOK, OrphansAccounted
<1> QED BY <1>1, <1>2, <1>3, <1>4 DEF IInv, StoresAgree

LEMMA UnlinkFailsStep ==
  ASSUME IInv, NEW q \in Requests, UnlinkFails(q)
  PROVE  IInv'
<1> USE DEF UnlinkFails, Fault, scanVars
<1>0. req[q].doc \in Docs /\ row[req[q].doc] = "deleted"
  BY InHand DEF Fits
<1>1. RequestsFit' /\ UploadsApart'
  BY EndsOnly
<1>2. TypeOK'
  BY <1>0, IdleRequest, DocumentsAssumption DEF IInv, StoresAgree, TypeOK, Request, Done, DocumentsAssumption
<1>3. RowHasBlob' /\ RemovedIsGone' /\ OwnBytesOnly'
  BY DEF IInv, StoresAgree, RowHasBlob, RemovedIsGone, OwnBytesOnly
<1>4. OrphansAccounted'
  BY DEF IInv, StoresAgree, TypeOK, OrphansAccounted, Done
<1> QED BY <1>1, <1>2, <1>3, <1>4 DEF IInv, StoresAgree

-----------------------------------------------------------------------------
(* Failures. *)

LEMMA HalfwayDocs ==
  ASSUME IInv, NEW Q \in SUBSET Requests
  PROVE  Halfway(Q) \subseteq Docs
BY InHand DEF Halfway

LEMMA FailsStep ==
  ASSUME IInv, NEW q \in Requests, Fails(q)
  PROVE  IInv'
<1> USE DEF Fails, Fault, scanVars
<1>1. RequestsFit' /\ UploadsApart'
  BY EndsOnly
<1>2. TypeOK'
  BY HalfwayDocs, IdleRequest, DocumentsAssumption
     DEF IInv, StoresAgree, TypeOK, Request, Done, DocumentsAssumption
<1>3. RowHasBlob' /\ RemovedIsGone' /\ OwnBytesOnly'
  BY DEF IInv, StoresAgree, RowHasBlob, RemovedIsGone, OwnBytesOnly
<1>4. OrphansAccounted'
  BY DEF IInv, StoresAgree, TypeOK, OrphansAccounted, Done, Halfway
<1> QED BY <1>1, <1>2, <1>3, <1>4 DEF IInv, StoresAgree

LEMMA CrashStep ==
  ASSUME IInv, Crash
  PROVE  IInv'
<1> USE DEF Crash, Fault
<1>1. RequestsFit' /\ UploadsApart'
  BY IdleRequest DEF RequestsFit, UploadsApart, Uploading, Fits, Idle
<1>2. TypeOK'
  BY HalfwayDocs, IdleRequest, DocumentsAssumption
     DEF IInv, StoresAgree, TypeOK, Request, NoScan, DocumentsAssumption
<1>3. RowHasBlob' /\ RemovedIsGone' /\ OwnBytesOnly'
  BY DEF IInv, StoresAgree, RowHasBlob, RemovedIsGone, OwnBytesOnly
<1>4. OrphansAccounted'
  BY DEF IInv, StoresAgree, OrphansAccounted, Halfway
<1> QED BY <1>1, <1>2, <1>3, <1>4 DEF IInv, StoresAgree

\* Time, the channels and the scan job touch no row, file or request.
Aside == (\E d \in Docs : Age(d)) \/ (\E a \in Accounts : SetChannels(a)) \/ JobStep \/ JobFails

LEMMA ScanStep ==
  ASSUME IInv, Aside \/ UNCHANGED vars
  PROVE  IInv'
<1> DEFINE Job == [pc : {"idle", "earlier", "listed"}, todo : SUBSET Docs, wrote : SUBSET Docs]
<1> USE DEF answers, scanVars, Aside, JobStep, Age, SetChannels, BeginJob, ScanList, Remind, ScanCommit, JobFails, Fault, vars
<1>0. scan \in Job /\ expiring \subseteq Docs /\ reminded \subseteq Docs /\ muted \subseteq Accounts
  BY DEF IInv, StoresAgree, TypeOK
<1>1. UNCHANGED <<row, owner, blob, req, removed, stuck, cut, read>>
  OBVIOUS
<1>2. expiring' \subseteq Docs /\ muted' \subseteq Accounts
  BY <1>0
<1>N. NoScan \in Job
  BY DEF NoScan
<1>3. scan' \in Job
  <2>1. CASE BeginJob
    BY <2>1, <1>0
  <2>2. CASE ScanList
    BY <2>2, <1>0
  <2>3. ASSUME NEW d \in Docs, Remind(d) PROVE scan' \in Job
    BY <2>3, <1>0
  <2>4. CASE ScanCommit \/ JobFails
    BY <2>4, <1>N
  <2>5. CASE UNCHANGED scan
    BY <2>5, <1>0
  <2> QED BY <2>1, <2>2, <2>3, <2>4, <2>5
<1>4. reminded' \subseteq Docs
  <2>1. scan.wrote \subseteq Docs
    BY <1>0
  <2>2. reminded' = reminded \/ reminded' = reminded \union scan.wrote
    OBVIOUS
  <2> QED BY <2>1, <2>2, <1>0
<1>5. faults' \in 0..MaxFaults
  <2>1. faults \in 0..MaxFaults /\ MaxFaults \in Nat
    BY DocumentsAssumption DEF DocumentsAssumption, IInv, StoresAgree, TypeOK
  <2>2. faults' = faults \/ (faults < MaxFaults /\ faults' = faults + 1)
    OBVIOUS
  <2> HIDE DEF Aside, vars
  <2> QED BY <2>1, <2>2
<1> HIDE DEF Aside
<1>6. TypeOK'
  BY <1>1, <1>2, <1>3, <1>4, <1>5 DEF IInv, StoresAgree, TypeOK
<1>7. RequestsFit' /\ UploadsApart'
  BY <1>1 DEF IInv, RequestsFit, UploadsApart, Uploading, Fits
<1>8. RowHasBlob' /\ RemovedIsGone' /\ OrphansAccounted' /\ OwnBytesOnly'
  BY <1>1 DEF IInv, StoresAgree, RowHasBlob, RemovedIsGone, OrphansAccounted, OwnBytesOnly
<1> QED BY <1>6, <1>7, <1>8 DEF IInv, StoresAgree

-----------------------------------------------------------------------------
LEMMA Invariance == IInv /\ [Next]_vars => IInv'
<1> SUFFICES ASSUME IInv, [Next]_vars PROVE IInv' OBVIOUS
<1>1. ASSUME NEW q \in Requests, NEW d \in Docs, BeginUpload(q, d) PROVE IInv'
  BY <1>1, BeginUploadStep
<1>2. ASSUME NEW q \in Requests, NEW a \in Accounts, NEW d \in Docs, NEW pc \in {"read", "mark"},
             Find(q, a, d, pc)
      PROVE  IInv'
  BY <1>2, FindStep
<1>3. ASSUME NEW q \in Requests, RequestStep(q) PROVE IInv'
  BY <1>3, PutStep, InsertStep, ReadStep, MarkStep, UnlinkStep DEF RequestStep
<1>4. ASSUME NEW q \in Requests, UnlinkFails(q) \/ Fails(q) PROVE IInv'
  BY <1>4, UnlinkFailsStep, FailsStep
<1>5. CASE Crash
  BY <1>5, CrashStep
<1>6. CASE Aside \/ UNCHANGED vars
  BY <1>6, ScanStep
<1> QED BY <1>1, <1>2, <1>3, <1>4, <1>5, <1>6 DEF Next, Aside

LEMMA Inductive == Spec => []IInv
<1>1. Init => IInv
  BY Start
<1>2. IInv /\ [Next]_vars => IInv'
  BY Invariance
<1> QED BY <1>1, <1>2, PTL DEF Spec

\* REQ 9.3, 9.5: a listed row has its file, a confirmed deletion leaves one only if
\* the driver failed, and any file without a listed row is accounted for by a request
\* under way or a failure (uploadDocument and deleteDocument), however many
\* uploads, deletions, failures and crashes interleave.
THEOREM StoresAlwaysAgree == Spec => []StoresAgree
<1>1. IInv => StoresAgree
  BY DEF IInv
<1> QED BY <1>1, Inductive, PTL

\* REQ 16.3, 16.4: whatever happens between the lookup of a document and the read of
\* its file (retrieveDocument), an account is handed the bytes of its own only.
THEOREM BytesAreOwn == Spec => []OwnBytesOnly
<1>1. IInv => OwnBytesOnly
  BY DEF IInv
<1> QED BY <1>1, Inductive, PTL
=============================================================================
