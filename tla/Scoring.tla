------------------------------ MODULE Scoring ------------------------------
(***************************************************************************)
(* evaluateMatch: whether a tender matches a filter, and its Match_Score.  *)
(* Pure functions of the tender, the filter, the cap of the tier and the   *)
(* time.  Points are counted in hundredths, the parts of them that ranges  *)
(* and days make in exact fractions.                                       *)
(***************************************************************************)
EXTENDS Integers, Sequences, SequencesExt

CONSTANTS Day,    \* a day, in ticks of the clock
          Absent  \* a field or a bound that is null

ASSUME ScoringAssumption == Day \in Nat \ {0} /\ Absent \notin Int

Clamp(x, lo, hi) == IF x < lo THEN lo ELSE IF x > hi THEN hi ELSE x
\* Math.round(x / d).
Round(x, d) == (2 * x + d) \div (2 * d)
Distance(x, y) == IF x < y THEN y - x ELSE x - y

PermittedRegions(f, cap) ==
  LET n == Len(f.regions) IN SubSeq(f.regions, 1, IF n <= cap THEN n ELSE cap)

Eligible(t, f, cap, now) ==
  /\ t.open
  /\ t.deadline # Absent => t.deadline >= now
  /\ t.region \in ToSet(PermittedRegions(f, cap))
  /\ f.categories # {} => t.category \in f.categories
  /\ t.value # Absent /\ f.min # Absent => t.value >= f.min
  /\ t.value # Absent /\ f.max # Absent => t.value <= f.max

\* The width of a range that is closed on both sides, else 1.
Width(f) == IF f.min # Absent /\ f.max # Absent /\ f.max > f.min THEN f.max - f.min ELSE 1

\* In hundredths / Width(f): 25 points, weighed by how close the value is to the middle.
ValueScore(t, f) ==
  IF t.value = Absent THEN 1200 * Width(f)
  ELSE IF f.min # Absent /\ f.max # Absent /\ f.max > f.min
  THEN LET off == Distance(2 * t.value, f.min + f.max) IN
       1300 * Width(f) + 1200 * (IF off < Width(f) THEN Width(f) - off ELSE 0)
  ELSE 1900 * Width(f)

\* In hundredths / 14: 15 points two weeks ahead of the deadline, less from then on.
DeadlineScore(t, now) ==
  IF t.deadline = Absent THEN 14 * 705
  ELSE LET days == (t.deadline - now) \div Day IN
       IF days >= 14 THEN 14 * 1500 ELSE 14 * 795 + 705 * Clamp(days, 0, 14)

\* Mutant: a filter without categories counts as much as one that has the category.
BaseScoreRich(f) == 3000 + 3000 + (IF f.categories = {} THEN 1500 ELSE 0)
\* In hundredths: 30 points for the region, 30 for the category or half of it.
BaseScore(f) == 3000 + (IF f.categories = {} THEN 1500 ELSE 3000)

\* The weighted blend, rounded, before it is clamped.
RawScore(t, f, now) ==
  Round(14 * Width(f) * BaseScore(f) + 14 * ValueScore(t, f) + Width(f) * DeadlineScore(t, now),
        1400 * Width(f))

Score(t, f, now) == Clamp(RawScore(t, f, now), 0, 100)

-----------------------------------------------------------------------------
(* What the callers rely on, for given inputs. *)

\* MM1: a region beyond the cap changes nothing.
CapHolds(t, f, cap, now, region) ==
  Len(f.regions) >= cap =>
    (Eligible(t, [f EXCEPT !.regions = Append(@, region)], cap, now) <=> Eligible(t, f, cap, now))

\* INV4: the weights keep the score in range by themselves; were they to leave it
\* to the clamp, the best tenders would all have the same score.
InRange(t, f, cap, now) == Eligible(t, f, cap, now) => RawScore(t, f, now) \in 0..100

\* ID2, and time: a tender that has not changed gains nothing by waiting.
NeverGains(t, f, cap, now, later) ==
  Eligible(t, f, cap, later) => Eligible(t, f, cap, now) /\ Score(t, f, later) <= Score(t, f, now)
=============================================================================
