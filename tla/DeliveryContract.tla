------------------------- MODULE DeliveryContract --------------------------
(***************************************************************************)
(* What notifyAccount promises of a notification it has enqueued: delivery *)
(* at least once or MaxRetries tries, an outcome that is final, and one    *)
(* delivery or try more only for each time the record of some was lost.    *)
(***************************************************************************)
EXTENDS Naturals

CONSTANTS Notes,       \* notifications
          MaxRetries   \* tries after which a notification has failed

VARIABLES log,     \* "absent", "pending", "delivered" or "failed"
          got,     \* how often the recipient has got it
          tries,   \* how often it was tried
          losses   \* how often the record of tries was lost

vars == <<log, got, tries, losses>>

Init ==
  /\ log = [n \in Notes |-> "absent"]
  /\ got = [n \in Notes |-> 0]
  /\ tries = [n \in Notes |-> 0]
  /\ losses = 0

Enqueue(New) ==
  /\ \A n \in New : log[n] = "absent"
  /\ log' = [n \in Notes |-> IF n \in New THEN "pending" ELSE log[n]]
  /\ UNCHANGED <<got, tries, losses>>

Try(n, delivered) ==
  /\ log[n] = "pending"
  /\ got[n] <= losses
  /\ tries[n] < MaxRetries + losses
  /\ tries' = [tries EXCEPT ![n] = @ + 1]
  /\ got' = IF delivered THEN [got EXCEPT ![n] = @ + 1] ELSE got
  /\ UNCHANGED <<log, losses>>

\* The outcomes of some notifications are recorded together.
Settle(Good, Bad) ==
  /\ \A n \in Good \union Bad : log[n] = "pending"
  /\ \A n \in Good : got[n] > 0
  /\ \A n \in Bad : tries[n] >= MaxRetries
  /\ log' = [n \in Notes |-> IF n \in Good THEN "delivered" ELSE IF n \in Bad THEN "failed" ELSE log[n]]
  /\ UNCHANGED <<got, tries, losses>>

Lose == losses' = losses + 1 /\ UNCHANGED <<log, got, tries>>

Next ==
  \/ \E New \in SUBSET Notes : Enqueue(New)
  \/ \E n \in Notes, delivered \in BOOLEAN : Try(n, delivered)
  \/ \E Good, Bad \in SUBSET Notes : Settle(Good, Bad)
  \/ Lose

Spec == Init /\ [][Next]_vars
=============================================================================
