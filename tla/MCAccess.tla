------------------------------ MODULE MCAccess ------------------------------
(***************************************************************************)
(* One instance of Access and one of Tenancy: which requests get through,  *)
(* and which rows the transactions of their handlers see.  The two meet in *)
(* the account of the session only, so each behaviour explores one of them. *)
(***************************************************************************)
EXTENDS Access, Tenancy, TLC

VARIABLE layer \* which of the two this behaviour explores

Init2 == layer \in {"requests", "rows"} /\ AccessInit /\ TenancyInit

Next2 ==
  \/ layer = "requests" /\ AccessNext /\ UNCHANGED <<layer, tenancyVars>>
  \/ layer = "rows" /\ TenancyNext /\ UNCHANGED <<layer, allVars>>

LayersSpec == Init2 /\ [][Next2]_<<layer, allVars, tenancyVars>>

\* Requests, accounts (the tenants are the same) and users are alike.
Alike == Permutations(Requests) \union Permutations(Accounts)
           \union Permutations(Emails)
=============================================================================
