---------------------------- MODULE MCDocuments ----------------------------
(***************************************************************************)
(* An instance of Documents for TLC.  Accounts are interchangeable: the    *)
(* first document is a1's, the other anyone's, and a1 is the one that      *)
(* changes its channels.                                                   *)
(***************************************************************************)
EXTENDS Documents

CONSTANTS a1, d1

MCInit == Init /\ owner[d1] = a1
Scope == muted \subseteq {a1}

MCSpec == MCInit /\ [][Next /\ Scope']_vars /\ WF_vars(JobStep)
=============================================================================
