------------------------------ MODULE BidBrain ------------------------------
(***************************************************************************)
(* Bid Brain and the part of the dashboard that shows its predictions.     *)
(* predict reads the account's tier, the tender, the awarded prices and    *)
(* stores its result in four transactions; the summary reads the tier in   *)
(* one and the predictions in another.  Outcomes, tier changes and polls   *)
(* that move the tender come in between, and predictions overlap.          *)
(***************************************************************************)
EXTENDS Integers, Sequences, SequencesExt, FiniteSets

CONSTANTS Tiers,       \* subscription tiers
          Entitled,    \* tiers with bidBrainEnabled
          Groups,      \* pairs of a category and a region; null matches null
          Prices,      \* awarded prices, in hundredths; not positive: unknown
          Asks,        \* predictions that may be computed at once
          MinRecords,  \* MIN_HISTORICAL_RECORDS_FOR_PREDICTION
          FullSample,  \* the sample that makes for full confidence
          NoResult,    \* no prediction
          MaxRecords   \* bound: historical records

ASSUME BidBrainAssumption ==
  /\ Entitled \subseteq Tiers
  /\ Prices \subseteq Int
  /\ MinRecords \in Nat \ {0} /\ FullSample \in Nat \ {0} /\ MaxRecords \in Nat

VARIABLES tier,       \* subscription_tier of the account
          group,      \* product_category and region of the tender
          history,    \* the known prices of historical_tender_record, in commit order
          prediction, \* the account's price_prediction for the tender
          ask,        \* the predictions under way
          page        \* the summary under way

bidVars == <<tier, group, history, prediction, ask, page>>

-----------------------------------------------------------------------------
(* computePrediction. *)

\* Math.round(x / d).
Nearest(x, d) == (2 * x + d) \div (2 * d)

\* percentile: linear interpolation in an ascending sequence, in hundredths of
\* its unit.
Percentile(s, p) ==
  LET i == p * (Len(s) - 1)
      lo == i \div 100
      frac == i % 100
  IN  IF frac = 0 THEN 100 * s[lo + 1] ELSE (100 - frac) * s[lo + 1] + frac * s[lo + 2]

\* In thousandths: min(1, n / FullSample) / (1 + spread / median).
Confidence(n, median, spread) ==
  LET size == IF n < FullSample THEN n ELSE FullSample IN
  IF median > 0 THEN Nearest(1000 * size * median, FullSample * (median + 100 * spread))
  ELSE Nearest(1000 * size, FullSample * 2)

\* The prices in order: the k-th is the least one that k of them do not exceed.
UpTo(prices, v) == {i \in DOMAIN prices : prices[i] <= v}
Ascending(prices) ==
  [k \in 1..Cardinality(DOMAIN prices) |-> Min({v \in Range(prices) : k <= Cardinality(UpTo(prices, v))})]

\* Of a sample: a price for each of its records.
ComputePrediction(prices) ==
  LET n == Cardinality(DOMAIN prices)
      s == Ascending(prices)
      p25 == Percentile(s, 25)
      p75 == Percentile(s, 75)
      lower == Nearest(p25, 100)
      upper == Nearest(IF p75 > p25 THEN p75 ELSE p25, 100)
  IN  IF n < MinRecords THEN NoResult
      ELSE [lower |-> lower, upper |-> upper,
            confidence |-> Confidence(n, Percentile(s, 50), upper - lower), size |-> n]

\* listAwardedPrices.
PricesOf(h, g) == [i \in {j \in DOMAIN h : h[j].group = g} |-> h[i].price]

-----------------------------------------------------------------------------
Result == [lower : Int, upper : Int, confidence : Int, size : Nat] \union {NoResult}

\* without: the tier has had no Bid Brain ever since the request began.
IdleAsk == [pc |-> "idle", group |-> NoResult, result |-> NoResult, without |-> FALSE]
IdlePage == [pc |-> "idle", without |-> FALSE]

\* The table's checks: lower_bound <= upper_bound, confidence between 0 and 1.
Storable(r) == r.lower <= r.upper /\ r.confidence \in 0..1000

BidTypeOK ==
  /\ tier \in Tiers /\ group \in Groups
  /\ history \in Seq([group : Groups, price : Nat \ {0}]) /\ Len(history) <= MaxRecords
  /\ prediction \in Result
  /\ ask \in [Asks -> [pc : {"idle", "tender", "prices", "store"}, group : Groups \union {NoResult},
                      result : Result, without : BOOLEAN]]
  /\ \A p \in Asks : /\ ask[p].pc = "prices" => ask[p].group \in Groups
                    /\ ask[p].pc = "store" => ask[p].result # NoResult
  /\ page \in [pc : {"idle", "read"}, without : BOOLEAN]

BidInit ==
  /\ tier \in Tiers
  /\ group \in Groups
  /\ history = <<>>
  /\ prediction = NoResult
  /\ ask = [p \in Asks |-> IdleAsk]
  /\ page = IdlePage

\* Billing gives the account another tier.
SetTier(t) ==
  /\ t # tier
  /\ tier' = t
  /\ ask' = [p \in Asks |-> [ask[p] EXCEPT !.without = @ /\ t \notin Entitled]]
  /\ page' = [page EXCEPT !.without = @ /\ t \notin Entitled]
  /\ UNCHANGED <<group, history, prediction>>

\* A poll stores another category or region of the tender.
Regroup(g) == group' = g /\ UNCHANGED <<tier, history, prediction, ask, page>>

Known(price) == price > 0

\* recordOutcome, which nothing but its tests calls so far; a record whose price is unknown is no part of any sample.
RecordOutcome(g, price) ==
  /\ Len(history) < MaxRecords
  /\ Known(price)
  /\ history' = Append(history, [group |-> g, price |-> price])
  /\ UNCHANGED <<tier, group, prediction, ask, page>>

-----------------------------------------------------------------------------
(* GET /bid-brain/predict. *)

\* Mutant: everybody is entitled.
MayAskAnyone(t) == t \in Tiers
MayAsk(t) == t \in Entitled

\* The route reads the account; predict denies tiers without Bid Brain.
AskPrediction(p) ==
  /\ ask[p].pc = "idle"
  /\ MayAsk(tier)
  /\ ask' = [ask EXCEPT ![p] = [IdleAsk EXCEPT !.pc = "tender", !.without = tier \notin Entitled]]
  /\ UNCHANGED <<tier, group, history, prediction, page>>

ReadTender(p) ==
  /\ ask[p].pc = "tender"
  /\ ask' = [ask EXCEPT ![p] = [@ EXCEPT !.pc = "prices", !.group = group]]
  /\ UNCHANGED <<tier, group, history, prediction, page>>

\* Too small a sample is answered as such, and what is stored stays.
ReadPrices(p) ==
  LET result == ComputePrediction(PricesOf(history, ask[p].group)) IN
  /\ ask[p].pc = "prices"
  /\ ask' = [ask EXCEPT ![p] =
       IF result = NoResult THEN IdleAsk
       ELSE [@ EXCEPT !.pc = "store", !.group = NoResult, !.result = result]]
  /\ UNCHANGED <<tier, group, history, prediction, page>>

\* Mutant: the sample size of the row that is there is kept.
StoreKeepingSize(p) ==
  /\ ask[p].pc = "store"
  /\ Storable(ask[p].result)
  /\ prediction' = IF prediction = NoResult THEN ask[p].result
                   ELSE [ask[p].result EXCEPT !.size = prediction.size]
  /\ ask' = [ask EXCEPT ![p] = IdleAsk]
  /\ UNCHANGED <<tier, group, history, page>>

\* upsertPrediction, over whatever another request has stored meanwhile.
Store(p) ==
  /\ ask[p].pc = "store"
  /\ Storable(ask[p].result)
  /\ prediction' = ask[p].result
  /\ ask' = [ask EXCEPT ![p] = IdleAsk]
  /\ UNCHANGED <<tier, group, history, page>>

\* A transaction of the request fails, or the process dies.
AskFails(p) ==
  /\ ask[p].pc # "idle"
  /\ ask' = [ask EXCEPT ![p] = IdleAsk]
  /\ UNCHANGED <<tier, group, history, prediction, page>>

-----------------------------------------------------------------------------
(* GET /dashboard/summary, as far as predictions are concerned. *)

\* The route reads the account; without Bid Brain no predictions are read.
OpenPage ==
  /\ page.pc = "idle"
  /\ MayAsk(tier)
  /\ page' = [pc |-> "read", without |-> tier \notin Entitled]
  /\ UNCHANGED <<tier, group, history, prediction, ask>>

ShowPredictions ==
  /\ page.pc = "read"
  /\ page' = IdlePage
  /\ UNCHANGED <<tier, group, history, prediction, ask>>

-----------------------------------------------------------------------------
BidNext ==
  \/ \E t \in Tiers : SetTier(t)
  \/ \E g \in Groups : Regroup(g) \/ \E price \in Prices : RecordOutcome(g, price)
  \/ \E p \in Asks : AskPrediction(p) \/ ReadTender(p) \/ ReadPrices(p) \/ Store(p) \/ AskFails(p)
  \/ OpenPage \/ ShowPredictions

BidSpec == BidInit /\ [][BidNext]_bidVars

-----------------------------------------------------------------------------
(* Properties. *)

\* INV3: no prediction that is computed is turned down by the table's checks.
ResultsAreStorable == \A p \in Asks : ask[p].pc = "store" => Storable(ask[p].result)

Outside(prices, r) ==
  [below |-> Cardinality({i \in DOMAIN prices : prices[i] < r.lower}),
   above |-> Cardinality({i \in DOMAIN prices : prices[i] > r.upper})]

\* REQ 7.4: the range is interquartile, whatever the sample: below it lie at most a
\* quarter of the sample but for one price, rounded up, and so many above it.
BandIsInterquartile ==
  \A g \in Groups :
    LET prices == PricesOf(history, g)
        r == ComputePrediction(prices)
        quarter == (Cardinality(DOMAIN prices) + 2) \div 4
    IN  r # NoResult => Outside(prices, r).below <= quarter /\ Outside(prices, r).above <= quarter

\* REQ 7.4, 7.5: what is stored for the tender is computed from a sample the
\* history held at one moment for one category and region, and one of sufficient
\* size, although its reads are transactions of their own and requests overlap.
PredictionIsEarned ==
  prediction # NoResult =>
    \E g \in Groups, n \in 0..Len(history) :
      /\ prediction = ComputePrediction(PricesOf(SubSeq(history, 1, n), g))
      /\ prediction.size >= MinRecords

\* REQ 7.2, 10.5: predictions are stored and shown only upon a request in whose
\* course the account was entitled to them; a downgrade is too late for one
\* that has read the tier.
EntitledOnce ==
  [][/\ \A p \in Asks : Store(p) => ~ask[p].without
     /\ ShowPredictions => ~page.without]_bidVars

\* The state has its types, and every prediction is earned by a sample, is an
\* interquartile range and fits its table.
PredictionsAreSound == BidTypeOK /\ ResultsAreStorable /\ BandIsInterquartile /\ PredictionIsEarned
=============================================================================
