----------------------------- MODULE MCBilling -----------------------------
(***************************************************************************)
(* An instance of Billing for TLC.  A behaviour either keeps its runs      *)
(* apart and has every request and fault, or lets two runs meet and has    *)
(* the payments of the owner only.                                         *)
(***************************************************************************)
EXTENDS Billing

CONSTANTS basic, premium,
          r1 \* the run of the behaviours that keep them apart

VARIABLE apart

\* The tiers differ in the regions they allow; the real 5, 20 and 100 scaled down.
MCMaxRegions == [t \in {basic, premium} |-> IF t = basic THEN 1 ELSE 2]

\* The owner has subscribed anew while restricted, and the failures count on.
Resumed == sub.retry >= MaxRetries /\ (sub.status = "active" \/ sub.retry > MaxRetries)

\* That is left to the behaviours that keep the runs apart, and there to those in which
\* no other request of the owner and no mishap comes before or meanwhile.  A region list
\* does not meet a lost answer, which is to the account what a refusal is.
Scope ==
  IF apart THEN /\ \A r \in Runs \ {r1} : runs[r] = Idle
                /\ regions = 0 \/ lost = 0
                /\ Resumed => anew > 0 /\ inflight = {} /\ regions + faults + lost = 0
  ELSE /\ inflight = {} /\ regions + faults + lost + anew = 0
       /\ sub.retry >= MaxRetries => sub.retry = MaxRetries /\ sub.status = "read_only"

MCInit == Init /\ apart \in BOOLEAN
Within(A) == A /\ Watch /\ UNCHANGED apart /\ Scope'

MCSpec == MCInit /\ [][Next /\ UNCHANGED apart /\ Scope']_<<vars, apart>>

\* The job is scheduled again and again, and a run that can go on does.
FairSpec == MCSpec /\ \A r \in Runs : WF_<<vars, apart>>(Within(RunStep(r)))
=============================================================================
