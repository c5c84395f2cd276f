------------------------------ MODULE Realtime ------------------------------
(***************************************************************************)
(* The Realtime Hub and the dashboard page of one account.  The hub tracks *)
(* the sockets of the account and pushes events to them; the page uses an  *)
(* event only as the signal to fetch the dashboard again.  What the        *)
(* database holds for the account is a version number here: every commit   *)
(* that changes its matches, or the tenders they are shown with, makes the *)
(* next version.  An event follows the commit of a match only; deletions,  *)
(* and the batch with the tenders' own columns, are committed without one. *)
(* The session of the page may end at any time, by a logout elsewhere or   *)
(* for want of activity; the hub does not look at it again once a socket   *)
(* is subscribed.                                                          *)
(***************************************************************************)
EXTENDS Naturals, FiniteSets

CONSTANTS MaxSockets, \* bound: connections the page opens
          MaxVersion, \* bound: changes
          MaxFetches, \* bound: fetches the page has under way
          MaxPolls    \* bound: polls between the commit of a match and its event

ASSUME RealtimeAssumption ==
  /\ MaxSockets \in Nat \ {0}
  /\ MaxVersion \in Nat
  /\ MaxFetches \in Nat \ {0}
  /\ MaxPolls \in Nat

VARIABLES db,         \* version in the database
          unsaid,     \* how many polls have committed a match and not published it yet
          socket,     \* the sockets
          validating, \* sockets whose token onConnection is still validating
          subscribed, \* RealtimeHub.connections of the account
          ws,         \* the page's current socket
          pushed,     \* sockets with a message under way to the page
          reload,     \* whether the page's reload timer is set
          fetch,      \* the page's fetches
          view,       \* the version the page shows
          ended,      \* the page's session is revoked or has expired
          early,      \* sockets whose validation may have found it before it ended
          signed,     \* the page has a token
          told,       \* ghost: the version there was at the last event or greeting
          matched,    \* ghost: the version with which a match was last committed
          newest      \* ghost: the newest version the page has shown

vars == <<db, unsaid, socket, validating, subscribed, ws, pushed, reload, fetch, view, ended, early, signed,
          told, matched, newest>>
ghosts == <<told, matched, newest>>
changeVars == <<db, unsaid>>
sessionVars == <<ended, early, signed>>
hubVars == <<socket, validating, subscribed, ws, ended, early, signed>>

Sockets == 1..MaxSockets
NoSocket == 0
New == {s \in Sockets : socket[s] = "new"}

Fetches == 1..MaxFetches
Free == [pc |-> "free", version |-> 0]

TypeOK ==
  /\ db \in 0..MaxVersion
  /\ unsaid \in 0..MaxPolls
  /\ socket \in [Sockets -> {"new", "open", "closed"}]
  /\ validating \subseteq Sockets
  /\ subscribed \subseteq Sockets
  /\ ws \in Sockets \union {NoSocket}
  /\ pushed \subseteq {s \in subscribed : socket[s] = "open"}
  /\ reload \in BOOLEAN
  /\ fetch \in [Fetches -> [pc : {"free", "asked", "early", "answered"}, version : 0..MaxVersion]]
  /\ view \in 0..MaxVersion
  /\ ended \in BOOLEAN /\ signed \in BOOLEAN
  /\ early \subseteq validating
  /\ told \in 0..MaxVersion /\ matched \in 0..MaxVersion /\ newest \in 0..MaxVersion

\* The page has fetched the dashboard and is about to connect.
Init ==
  /\ db = 0
  /\ unsaid = 0
  /\ socket = [s \in Sockets |-> "new"]
  /\ validating = {}
  /\ subscribed = {}
  /\ ws = NoSocket
  /\ pushed = {}
  /\ reload = FALSE
  /\ fetch = [f \in Fetches |-> Free]
  /\ view = 0
  /\ ended = FALSE /\ early = {} /\ signed = TRUE
  /\ told = 0 /\ matched = 0 /\ newest = 0

-----------------------------------------------------------------------------
(* Changes and their events. *)

\* publish skips the sockets that are not open.
Receivers == {s \in subscribed : socket[s] = "open"}
Publish ==
  /\ pushed' = pushed \union Receivers
  /\ told' = db

\* evaluateTender commits the match of an eligible account ...
PollMatches ==
  /\ unsaid < MaxPolls
  /\ db < MaxVersion
  /\ db' = db + 1
  /\ unsaid' = unsaid + 1
  /\ matched' = db + 1
  /\ UNCHANGED <<hubVars, pushed, reload, fetch, view, told, newest>>

\* ... and onMatched publishes it.
PollPublishes ==
  /\ unsaid > 0
  /\ unsaid' = unsaid - 1
  /\ Publish
  /\ UNCHANGED <<db, hubVars, reload, fetch, view, matched, newest>>

\* match.maintenance publishes the tenders it has closed, before it prunes.  The page
\* does not show their status, so that closing them changes nothing it shows.
MaintainPublishes ==
  /\ Publish
  /\ UNCHANGED <<changeVars, hubVars, reload, fetch, view, matched, newest>>

\* A change no event follows.
Silently ==
  /\ db < MaxVersion
  /\ db' = db + 1
  /\ UNCHANGED <<unsaid, hubVars, pushed, reload, fetch, view, ghosts>>

\* evaluateTender deletes the match of an account that is not eligible any more;
\* it tells the eligible ones only.
PollUnmatches == Silently

\* The batch commits the tenders' columns, after the events of its evaluations.
PollStores == Silently

\* Maintenance prunes: what it has told of, and what an earlier run has closed.
MaintainPrunes == Silently

-----------------------------------------------------------------------------
(* The session. *)

\* Another tab logs out, or the session is refused as idle.  What has been asked
\* for by then may have found it valid.
EndSession ==
  /\ ~ended
  /\ ended' = TRUE
  /\ early' = validating
  /\ fetch' = [f \in Fetches |-> IF fetch[f].pc = "asked" THEN [fetch[f] EXCEPT !.pc = "early"] ELSE fetch[f]]
  /\ UNCHANGED <<changeVars, socket, validating, subscribed, ws, signed, pushed, reload, view, ghosts>>

\* logout(), by its button or after a refusal: drop the token and close the
\* socket.  A reload that is still due and answers still to come change nothing
\* that is shown.
SignOut ==
  /\ signed' = FALSE
  /\ ws' = NoSocket
  /\ socket' = [s \in Sockets |-> IF s = ws THEN "closed" ELSE socket[s]]
  /\ subscribed' = subscribed \ {ws}
  /\ pushed' = pushed \ {ws}
  /\ reload' = FALSE
  /\ fetch' = [f \in Fetches |-> Free]
  /\ UNCHANGED <<changeVars, validating, ended, early, view, ghosts>>

Logout == signed /\ SignOut

-----------------------------------------------------------------------------
(* Connections. *)

\* Starting a fetch: loadDashboard.
Ask(f) == fetch[f].pc = "free" /\ fetch' = [fetch EXCEPT ![f].pc = "asked"]

\* connectWs, unless the page has no token; when it reconnects, it fetches the
\* dashboard as well.
Connect(s, f) ==
  /\ signed
  /\ ws = NoSocket
  /\ s \in New /\ \A x \in New : s <= x
  /\ ws' = s
  /\ socket' = [socket EXCEPT ![s] = "open"]
  /\ validating' = validating \union {s}
  /\ IF \E x \in Sockets : socket[x] = "closed" THEN Ask(f) ELSE UNCHANGED fetch
  /\ UNCHANGED <<changeVars, subscribed, sessionVars, pushed, reload, view, ghosts>>

\* onConnection has awaited validateSession, which found the session.
Validated(s) ==
  /\ s \in validating
  /\ ended => s \in early
  /\ validating' = validating \ {s}
  /\ early' = early \ {s}
  /\ told' = IF socket[s] = "open" THEN db ELSE told

\* Mutant: the hub does not greet the socket it subscribes.
SubscribeSilently(s) ==
  /\ Validated(s)
  /\ subscribed' = subscribed \union {s}
  /\ UNCHANGED <<changeVars, socket, ws, ended, signed, pushed, reload, fetch, view, matched, newest>>

\* onConnection after validateSession: subscribe, listen for "close" from now
\* on, send "connected"; nothing asks whether the socket is still open.
Subscribe(s) ==
  /\ Validated(s)
  /\ subscribed' = subscribed \union {s}
  /\ pushed' = IF socket[s] = "open" THEN pushed \union {s} ELSE pushed
  /\ UNCHANGED <<changeVars, socket, ws, ended, signed, reload, fetch, view, matched, newest>>

\* validateSession throws: the hub closes the socket, which the page notices.
Reject(s) ==
  /\ s \in validating
  /\ ended
  /\ validating' = validating \ {s}
  /\ early' = early \ {s}
  /\ socket' = [socket EXCEPT ![s] = "closed"]
  /\ ws' = IF ws = s THEN NoSocket ELSE ws
  /\ UNCHANGED <<changeVars, subscribed, ended, signed, pushed, reload, fetch, view, ghosts>>

\* The connection drops: messages under way are lost, the page notices and so
\* does the close listener, if it is there.  The page's last two sockets stay.
Drop(s) ==
  /\ ws = s
  /\ Cardinality(New) > 1
  /\ ws' = NoSocket
  /\ socket' = [socket EXCEPT ![s] = "closed"]
  /\ subscribed' = subscribed \ {s}
  /\ pushed' = pushed \ {s}
  /\ UNCHANGED <<changeVars, validating, sessionVars, reload, fetch, view, ghosts>>

\* The server dies and comes back: events not yet published and requests under
\* way are lost.
Crash ==
  /\ ws # NoSocket
  /\ Cardinality(New) > 1
  /\ unsaid' = 0
  /\ ws' = NoSocket
  /\ socket' = [s \in Sockets |-> IF socket[s] = "open" THEN "closed" ELSE socket[s]]
  /\ validating' = {} /\ subscribed' = {} /\ pushed' = {} /\ early' = {}
  /\ fetch' = [f \in Fetches |-> IF fetch[f].pc = "answered" THEN fetch[f] ELSE Free]
  /\ UNCHANGED <<db, reload, view, ended, signed, ghosts>>

-----------------------------------------------------------------------------
(* The page. *)

\* onmessage sets the reload timer, once for any number of messages.
Receive ==
  /\ ws \in pushed
  /\ pushed' = pushed \ {ws}
  /\ reload' = TRUE
  /\ UNCHANGED <<changeVars, hubVars, fetch, view, ghosts>>

Reload(f) ==
  /\ reload
  /\ reload' = FALSE
  /\ Ask(f)
  /\ UNCHANGED <<changeVars, hubVars, pushed, view, ghosts>>

\* requireAuth and getDashboard.
Answer(f) ==
  /\ fetch[f].pc = IF ended THEN "early" ELSE "asked"
  /\ fetch' = [fetch EXCEPT ![f] = [pc |-> "answered", version |-> db]]
  /\ UNCHANGED <<changeVars, hubVars, pushed, reload, view, ghosts>>

\* Mutant: the page takes the refusal for any other error.
RefuseQuietly(f) ==
  /\ ended
  /\ fetch[f].pc \in {"asked", "early"}
  /\ fetch' = [fetch EXCEPT ![f] = Free]
  /\ UNCHANGED <<changeVars, hubVars, pushed, reload, view, ghosts>>

\* requireAuth refuses, upon which loadDashboard signs out.
Refuse(f) ==
  /\ ended
  /\ fetch[f].pc \in {"asked", "early"}
  /\ SignOut

\* The answer is rendered whenever it arrives.
Render(f) ==
  /\ fetch[f].pc = "answered"
  /\ view' = fetch[f].version
  /\ newest' = IF fetch[f].version > newest THEN fetch[f].version ELSE newest
  /\ fetch' = [fetch EXCEPT ![f] = Free]
  /\ UNCHANGED <<changeVars, hubVars, pushed, reload, told, matched>>

PageStep ==
  \/ \E s \in Sockets, f \in Fetches : Connect(s, f)
  \/ Receive
  \/ \E f \in Fetches : Reload(f)

Next ==
  \/ PollMatches \/ PollPublishes \/ PollUnmatches \/ PollStores
  \/ MaintainPublishes \/ MaintainPrunes
  \/ EndSession \/ Logout
  \/ \E s \in Sockets : Subscribe(s) \/ Reject(s) \/ Drop(s)
  \/ Crash
  \/ PageStep
  \/ \E f \in Fetches : Answer(f) \/ Refuse(f) \/ Render(f)

Spec == Init /\ [][Next]_vars

\* Timers fire, awaited calls return and messages arrive.
FairSpec ==
  /\ Spec
  /\ WF_vars(PollPublishes)
  /\ WF_vars(\E s \in Sockets, f \in Fetches : Connect(s, f))
  /\ WF_vars(Receive) /\ WF_vars(\E f \in Fetches : Reload(f))
  /\ \A s \in Sockets : WF_vars(Subscribe(s) \/ Reject(s))
  /\ \A f \in Fetches : WF_vars(Answer(f) \/ Refuse(f)) /\ WF_vars(Render(f))

-----------------------------------------------------------------------------
(* Properties. *)

\* REQ 11.1, 11.3: every match a poll has committed is shown at some time, although
\* events published while the page is not subscribed, or to a connection that drops,
\* are lost; unless the page signs out.
NewsArrives ==
  \A v \in 1..MaxVersion : matched = v ~> (newest >= v \/ ~signed)

\* REQ 2.3 at hub.ts:101: a socket outlives its session and keeps receiving
\* events, but the first of them, as any reconnection, makes the page find out
\* and sign out, whatever connections and answers are lost or overtaken.
EndIsNoticed ==
  (ended /\ signed /\ (ws = NoSocket \/ ws \in pushed \/ reload)) ~> ~signed

\* REQ 11.3: a connected page with nothing under way has shown everything there was
\* when the hub last sent to it, and every match that was made.  What it may lack is
\* what has been changed silently since; what it may have gone back from is a newer
\* answer that an older one overtook (view < newest).
Quiet ==
  /\ ws \in subscribed /\ pushed = {} /\ ~reload
  /\ unsaid = 0
  /\ \A f \in Fetches : fetch[f].pc = "free"
QuietIsCurrent == Quiet => newest >= told /\ newest >= matched

\* The hub and the page have their types, and a page at rest has shown what it was told of.
PageIsSound == TypeOK /\ QuietIsCurrent
=============================================================================
