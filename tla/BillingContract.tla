-------------------------- MODULE BillingContract --------------------------
(***************************************************************************)
(* What an owner is promised of a subscription: a period that is over is   *)
(* renewed for a payment and not otherwise, the next tier comes with the   *)
(* renewal, access ends after MaxRetries refusals of the period and comes  *)
(* back with the payment, and nothing is paid twice.  A lost answer or a   *)
(* subscription made anew is a mishap, which may cost one payment more or  *)
(* count as one refusal.                                                   *)
(***************************************************************************)
EXTENDS Naturals

CONSTANTS Tiers,       \* subscription tiers
          Basic,       \* the tier of a new account
          NoTier,      \* no other tier is asked for
          Periods,     \* billing periods, in order
          MaxRetries   \* refusals after which access ends

VARIABLES period,    \* the period that is to be paid next
          access,    \* "none", "active" or "restricted"
          tier,      \* the tier in force
          wanted,    \* the tier of the periods to come
          captured,  \* payments taken, per period
          declined,  \* payments refused, per period
          mishaps,   \* lost answers and subscriptions made anew
          void       \* whoever charges has got in the way of another: nothing is promised

promise == <<period, access, tier, wanted, captured, declined, mishaps>>
vars == <<promise, void>>

Init ==
  /\ period = 0
  /\ access = "none"
  /\ tier = Basic
  /\ wanted = NoTier
  /\ captured = [e \in Periods |-> 0]
  /\ declined = [e \in Periods |-> 0]
  /\ mishaps = 0
  /\ void = FALSE

Subscribe(t) ==
  /\ access' = "active"
  /\ tier' = t
  /\ mishaps' = IF access = "none" THEN mishaps ELSE mishaps + 1
  /\ UNCHANGED <<period, wanted, captured, declined>>

AskForTier(t) ==
  /\ access # "none"
  /\ wanted' = t
  /\ UNCHANGED <<period, access, tier, captured, declined, mishaps>>

Capture ==
  /\ captured[period] <= mishaps
  /\ captured' = [captured EXCEPT ![period] = @ + 1]
  /\ UNCHANGED declined

Decline ==
  /\ declined' = [declined EXCEPT ![period] = @ + 1]
  /\ UNCHANGED captured

\* The provider repeats what it has said, or says something new; the answer may be lost.
Charge ==
  /\ access # "none"
  /\ Capture \/ Decline \/ UNCHANGED <<captured, declined>>
  /\ mishaps' \in {mishaps, mishaps + 1}
  /\ UNCHANGED <<period, access, tier, wanted>>

Renew ==
  /\ captured[period] > 0
  /\ period + 1 \in Periods
  /\ period' = period + 1
  /\ access' = "active"
  /\ tier' = IF wanted = NoTier THEN tier ELSE wanted
  /\ wanted' = NoTier
  /\ UNCHANGED <<captured, declined, mishaps>>

Restrict ==
  /\ access = "active"
  /\ declined[period] + mishaps >= MaxRetries
  /\ access' = "restricted"
  /\ UNCHANGED <<period, tier, wanted, captured, declined, mishaps>>

Step ==
  \/ \E t \in Tiers : Subscribe(t) \/ AskForTier(t)
  \/ Charge
  \/ Renew
  \/ Restrict

Next ==
  \/ Step /\ UNCHANGED void
  \/ void'

Spec == Init /\ [][Next]_vars
=============================================================================
