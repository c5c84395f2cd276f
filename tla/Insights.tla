------------------------------ MODULE Insights ------------------------------
(***************************************************************************)
(* What the tier of an account buys: the predictions of BidBrain, and the  *)
(* match scores of as many of its regions as the cap of the tier permits.  *)
(***************************************************************************)
EXTENDS BidBrain, Scoring

CONSTANTS Regions,     \* regions of tenders and filters; a tender's may be null
          Categories,  \* product categories; a tender's may be null
          Tenders,     \* tenders that are scored ...
          Filters,     \* ... against filters ...
          Caps,        \* ... with the region cap of each tier ...
          Times        \* ... at these times

\* The columns of a tender and of a filter that scoring looks at; values, deadlines
\* and the bounds of a range may be null, and a range may be the wrong way round.
Maybe == Int \union {Absent}
TendersOf(R, C) == [open : BOOLEAN, region : R, category : C, value : Maybe, deadline : Maybe]
FiltersOf(R, C) == [regions : Seq(R), categories : SUBSET C, min : Maybe, max : Maybe]

ASSUME InsightsAssumption ==
  /\ Tenders \subseteq TendersOf(Regions, Categories)
  /\ Filters \subseteq FiltersOf(Regions, Categories)
  /\ Caps \in [Tiers -> Nat]
  /\ Times \subseteq Int

\* The score is a pure function of the account's tier: the states without a
\* historical record, which have every tier, are enough for it.
Fresh == history = <<>>

\* MM1, INV4, REQ 5.3, 5.6: over tenders and filters of every shape, a region
\* beyond the cap of the tier changes no match (scoring.ts:36); the score of a match
\* is in range before it is clamped; and a tender that has not changed neither
\* starts to match by waiting nor gains in score, which orders the dashboard's list.
ScoringIsSound ==
  Fresh => \A t \in Tenders, f \in Filters, now \in Times :
    /\ \A region \in Regions : CapHolds(t, f, Caps[tier], now, region)
    /\ InRange(t, f, Caps[tier], now)
    /\ \A later \in Times : now <= later => NeverGains(t, f, Caps[tier], now, later)
=============================================================================
