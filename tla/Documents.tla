----------------------------- MODULE Documents -----------------------------
(***************************************************************************)
(* Document Helper: a document is a row of business_document and a blob in *)
(* object storage, and no transaction spans the two.  Upload stores the    *)
(* blob, then inserts the row; deletion looks the row up, marks it and     *)
(* removes the blob, whose failure is swallowed; retrieval looks the row   *)
(* up and reads the blob.  The expiry scan, the last of the three scans of *)
(* the deadline.scan job, enqueues one reminder per document for the       *)
(* accounts that have a notification channel enabled.  Row level security  *)
(* hides the rows of other accounts.                                       *)
(***************************************************************************)
EXTENDS Naturals, FiniteSets

CONSTANTS Accounts,  \* business accounts
          Docs,      \* documents; the storage key is a fresh UUID of its own
          Requests,  \* requests that may be in progress at once
          NoDoc,     \* no document
          MaxFaults  \* bound: storage or database failures

ASSUME DocumentsAssumption == Accounts # {} /\ NoDoc \notin Docs /\ MaxFaults \in Nat

VARIABLES row,      \* business_document: "none", "active" or "deleted"
          owner,    \* the account of each row
          expiring, \* documents whose expiry date is within the reminder window
          blob,     \* blobs in storage
          req,      \* the requests
          removed,  \* documents whose deletion was answered with success
          stuck,    \* documents whose blob the driver failed to delete
          cut,      \* ghost: documents an upload or deletion of which was cut short
          read,     \* what retrievals returned: <<account, document>>
          muted,    \* accounts with preferences that are all disabled
          scan,     \* the deadline.scan job
          reminded, \* documents a reminder was enqueued for
          faults    \* failures so far

vars == <<row, owner, expiring, blob, req, removed, stuck, cut, read, muted, scan, reminded, faults>>
scanVars == <<muted, scan, reminded>>
answers == <<removed, stuck, cut, read>>

Idle == [pc |-> "idle", account |-> CHOOSE a \in Accounts : TRUE, doc |-> NoDoc]
NoScan == [pc |-> "idle", todo |-> {}, wrote |-> {}]

TypeOK ==
  /\ row \in [Docs -> {"none", "active", "deleted"}]
  /\ owner \in [Docs -> Accounts]
  /\ expiring \subseteq Docs
  /\ blob \subseteq Docs
  /\ req \in [Requests -> [pc : {"idle", "put", "insert", "mark", "unlink", "read"},
                           account : Accounts, doc : Docs \union {NoDoc}]]
  /\ removed \subseteq {d \in Docs : row[d] = "deleted"}
  /\ stuck \subseteq removed
  /\ cut \subseteq Docs
  /\ read \subseteq Accounts \X Docs
  /\ muted \subseteq Accounts
  /\ scan \in [pc : {"idle", "earlier", "listed"}, todo : SUBSET Docs, wrote : SUBSET Docs]
  /\ reminded \subseteq Docs
  /\ faults \in 0..MaxFaults

Init ==
  /\ row = [d \in Docs |-> "none"]
  /\ owner \in [Docs -> Accounts]
  /\ expiring = {}
  /\ blob = {}
  /\ req = [q \in Requests |-> Idle]
  /\ removed = {}
  /\ stuck = {}
  /\ cut = {}
  /\ read = {}
  /\ muted = {}
  /\ scan = NoScan
  /\ reminded = {}
  /\ faults = 0

Step(q, pc) == req' = [req EXCEPT ![q].pc = pc]
Done(q) == req' = [req EXCEPT ![q] = Idle]
Fault == faults < MaxFaults /\ faults' = faults + 1

-----------------------------------------------------------------------------
(* Upload. *)

\* uploadDocument draws a storage key; the key and the row's id are fresh.
BeginUpload(q, d) ==
  /\ req[q].pc = "idle"
  /\ row[d] = "none" /\ d \notin blob
  /\ \A x \in Requests : req[x].doc # d
  /\ req' = [req EXCEPT ![q] = [pc |-> "put", account |-> owner[d], doc |-> d]]
  /\ UNCHANGED <<row, owner, expiring, blob, answers, scanVars, faults>>

Put(q) ==
  /\ req[q].pc = "put"
  /\ blob' = blob \union {req[q].doc}
  /\ Step(q, "insert")
  /\ UNCHANGED <<row, owner, expiring, answers, scanVars, faults>>

Insert(q) ==
  /\ req[q].pc = "insert"
  /\ row' = [row EXCEPT ![req[q].doc] = "active"]
  /\ \E soon \in BOOLEAN : expiring' = IF soon THEN expiring \union {req[q].doc} ELSE expiring
  /\ Done(q)
  /\ UNCHANGED <<owner, blob, answers, scanVars, faults>>

-----------------------------------------------------------------------------
(* Retrieval and deletion. *)

\* Mutant: the lookup runs in the system context, where no row is hidden.
VisibleToAll(a, d) == row[d] = "active"
\* findDocumentById inside withTenant.
Visible(a, d) == row[d] = "active" /\ owner[d] = a

\* The lookup both start with; an absent or foreign document ends the request.
Find(q, a, d, pc) ==
  /\ req[q].pc = "idle"
  /\ pc \in {"read", "mark"}
  /\ Visible(a, d)
  /\ req' = [req EXCEPT ![q] = [pc |-> pc, account |-> a, doc |-> d]]
  /\ UNCHANGED <<row, owner, expiring, blob, answers, scanVars, faults>>

\* getStorageDriver().get: the blob may be gone by now, which is an error.
Read(q) ==
  LET d == req[q].doc IN
  /\ req[q].pc = "read"
  /\ read' = IF d \in blob THEN read \union {<<req[q].account, d>>} ELSE read
  /\ Done(q)
  /\ UNCHANGED <<row, owner, expiring, blob, removed, stuck, cut, scanVars, faults>>

\* Mutant: the blob is removed before the row is marked.
MarkAfterUnlink(q) ==
  /\ req[q].pc = "mark"
  /\ blob' = blob \ {req[q].doc}
  /\ Step(q, "unlink")
  /\ UNCHANGED <<row, owner, expiring, answers, scanVars, faults>>

\* softDeleteDocument: a row that another request has marked stays as it is.
Mark(q) ==
  /\ req[q].pc = "mark"
  /\ row' = [row EXCEPT ![req[q].doc] = "deleted"]
  /\ Step(q, "unlink")
  /\ UNCHANGED <<owner, expiring, blob, answers, scanVars, faults>>

\* The driver's delete; a blob that is gone already is no error.
Unlink(q) ==
  /\ req[q].pc = "unlink"
  /\ blob' = blob \ {req[q].doc}
  /\ removed' = removed \union {req[q].doc}
  /\ Done(q)
  /\ UNCHANGED <<row, owner, expiring, stuck, cut, read, scanVars, faults>>

\* A failing delete of the blob is swallowed: the request still succeeds.
UnlinkFails(q) ==
  /\ req[q].pc = "unlink"
  /\ Fault
  /\ removed' = removed \union {req[q].doc}
  /\ stuck' = stuck \union {req[q].doc}
  /\ Done(q)
  /\ UNCHANGED <<row, owner, expiring, blob, cut, read, scanVars>>

\* The documents of which requests Q have done one half.
Halfway(Q) == {req[q].doc : q \in {x \in Q : req[x].pc \in {"insert", "unlink"}}}

\* Any other storage or database failure ends the request with an error; what
\* it has done so far stays done.
Fails(q) ==
  /\ req[q].pc \in {"put", "insert", "mark", "read"}
  /\ Fault
  /\ cut' = cut \union Halfway({q})
  /\ Done(q)
  /\ UNCHANGED <<row, owner, expiring, blob, removed, stuck, read, scanVars>>

\* The process dies with all its requests.
Crash ==
  /\ Fault
  /\ req' = [q \in Requests |-> Idle]
  /\ scan' = NoScan
  /\ cut' = cut \union Halfway(Requests)
  /\ UNCHANGED <<row, owner, expiring, blob, removed, stuck, read, muted, reminded>>

-----------------------------------------------------------------------------
(* The expiry scan. *)

\* Time brings a document into the reminder window.
Age(d) ==
  /\ row[d] = "active"
  /\ d \notin expiring
  /\ expiring' = expiring \union {d}
  /\ UNCHANGED <<row, owner, blob, req, answers, scanVars, faults>>

\* Mutant: the list keeps only documents whose row is deleted.
ListedInverted(d) == row[d] = "deleted" /\ d \in expiring
\* listDocumentsExpiringWithin.
Listed(d) == row[d] = "active" /\ d \in expiring

\* upsertNotificationPref: without a preference the account has one channel, and
\* with some it has those that are enabled.
SetChannels(a) ==
  /\ muted' = IF a \in muted THEN muted \ {a} ELSE muted \union {a}
  /\ UNCHANGED <<row, owner, expiring, blob, req, answers, scan, reminded, faults>>

\* The job begins with scanReminders and scanGraceClosures.
BeginJob ==
  /\ scan.pc = "idle"
  /\ scan' = [scan EXCEPT !.pc = "earlier"]
  /\ UNCHANGED <<row, owner, expiring, blob, req, answers, muted, reminded, faults>>

ScanList ==
  /\ scan.pc = "earlier"
  /\ scan' = [pc |-> "listed", todo |-> {d \in Docs : Listed(d)}, wrote |-> {}]
  /\ UNCHANGED <<row, owner, expiring, blob, req, answers, muted, reminded, faults>>

\* notifyAccount for one of them: it reads the channels of the account, and what
\* has the dedupe key already stays as it is.
Remind(d) ==
  /\ d \in scan.todo
  /\ scan' = [scan EXCEPT !.todo = @ \ {d},
                         !.wrote = IF owner[d] \in muted THEN @ ELSE @ \union {d}]
  /\ UNCHANGED <<row, owner, expiring, blob, req, answers, muted, reminded, faults>>

ScanCommit ==
  /\ scan.pc = "listed" /\ scan.todo = {}
  /\ reminded' = reminded \union scan.wrote
  /\ scan' = NoScan
  /\ UNCHANGED <<row, owner, expiring, blob, req, answers, muted, faults>>

\* An earlier scan of the job throws, so that this one is not run at all, or its own
\* transaction fails; safeJob logs it and the next tick begins anew.
JobFails ==
  /\ scan.pc # "idle"
  /\ Fault
  /\ scan' = NoScan
  /\ UNCHANGED <<row, owner, expiring, blob, req, answers, muted, reminded>>

-----------------------------------------------------------------------------
RequestStep(q) ==
  Put(q) \/ Insert(q) \/ Read(q) \/ Mark(q) \/ Unlink(q)

JobStep ==
  \/ BeginJob
  \/ ScanList
  \/ \E d \in Docs : Remind(d)
  \/ ScanCommit

Next ==
  \/ \E q \in Requests, d \in Docs : BeginUpload(q, d)
  \/ \E q \in Requests, a \in Accounts, d \in Docs, pc \in {"read", "mark"} : Find(q, a, d, pc)
  \/ \E q \in Requests : RequestStep(q) \/ UnlinkFails(q) \/ Fails(q)
  \/ \E d \in Docs : Age(d)
  \/ \E a \in Accounts : SetChannels(a)
  \/ JobStep
  \/ JobFails
  \/ Crash

Spec == Init /\ [][Next]_vars

\* The timer starts the job again and again, and a job that can go on does.
FairSpec == Spec /\ WF_vars(JobStep)

-----------------------------------------------------------------------------
(* Properties. *)

\* REQ 9.3: the document behind a listed row can be read, whichever step of an
\* upload or a deletion fails and whoever deletes it at the same time.
RowHasBlob == \A d \in Docs : row[d] = "active" => d \in blob

\* REQ 16.3, 16.4: an account is handed the bytes of its own documents only.
OwnBytesOnly == \A x \in read : owner[x[2]] = x[1]

\* REQ 9.5: once a deletion is confirmed the file is gone from storage, except
\* when the driver failed to remove it, which nobody is told.
RemovedIsGone == removed \intersect blob \subseteq stuck

\* REQ 9.5 at documents/service.ts:43: a file without a listed row, which nothing
\* ever collects, is one whose upload or deletion failed half way; no overlap of
\* requests that succeed leaves one.
OrphansAccounted ==
  \A d \in blob : row[d] # "active" =>
    d \in stuck \union cut \/ \E q \in Requests : req[q].doc = d /\ req[q].pc \in {"insert", "unlink"}

\* REQ 9.4: a document that expires soon is reminded of, as long as it is not deleted
\* and its account keeps a channel enabled, although the job may fail before it gets
\* to the documents (server.ts:83), or with some of them written.
Expires(d) == row[d] = "active" /\ d \in expiring /\ owner[d] \notin muted
ExpiringIsReminded ==
  \A d \in Docs : Expires(d) ~> (~Expires(d) \/ d \in reminded)

\* The rows have their types, and the two stores agree, of which the database
\* knows one only: a listed row has its file, a file without one is accounted for.
StoresAgree == TypeOK /\ RowHasBlob /\ RemovedIsGone /\ OrphansAccounted
=============================================================================
