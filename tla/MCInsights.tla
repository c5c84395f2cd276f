----------------------------- MODULE MCInsights -----------------------------
(* One instance of Insights: a few groups and prices, tenders and filters. *)
EXTENDS Insights, TLC

MCCaps == [basic |-> 1, premium |-> 2]
MCDays == {0, 1, 3, 25}

Alike == Permutations(Asks)
MCGroups == {<<"pipes", "gaya">>, <<Absent, "gaya">>}

T(region, category, value, deadline) ==
  [open |-> TRUE, region |-> region, category |-> category, value |-> value, deadline |-> deadline]
F(regions, categories, min, max) ==
  [regions |-> regions, categories |-> categories, min |-> min, max |-> max]

\* A known and an unknown value, at the middle and the ends of the range; a
\* deadline that is near, one two weeks off and none.  The range of a filter is bounded,
\* open-ended, a single value or reversed.
MCTenders == {T("gaya", "pipes", v, d) : v \in {10, 20, 30, Absent}, d \in {1, 30, Absent}}
MCFilters == {F(<<"gaya", "arrah">>, {"pipes"}, 10, 30), F(<<"arrah", "gaya">>, {}, 10, Absent),
              F(<<"gaya">>, {}, 20, 20), F(<<"gaya">>, {"pipes"}, 30, 10)}

\* Ascending is what a sort returns, for short samples with equal prices.
ASSUME AscendingSorts ==
  \A n \in 0..4 : \A s \in [1..n -> 1..3] : Ascending(s) = SortSeq(s, LAMBDA x, y : x < y)
=============================================================================
