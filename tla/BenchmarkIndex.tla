--------------------------- MODULE BenchmarkIndex ---------------------------
(***************************************************************************)
(* The virtual benchmark portfolio (internal/benchmark): versioned recipes *)
(* are flattened to target weights, and an index of 100 is carried from    *)
(* close to close, valued first and rebalanced afterwards by the recipe's  *)
(* policy.                                                                 *)
(*                                                                         *)
(* Instants are days.  A series has a close per day, 0 where it has none.  *)
(* Quantisation is left out: values are exact.  Cash is always zero and    *)
(* every series declares its currency.                                     *)
(***************************************************************************)
EXTENDS Rational, Sequences, SequencesExt, FiniteSets, FiniteSetsExt

CONSTANTS
  Symbols, Foreign,   \* those not quoted in the base currency
  Stores,             \* sets of recipe versions a deployment may ship
  Recipe,             \* the recipe asked for
  Series,             \* Series[s]: what the provider may answer for s
  FxRates,            \* what the FX provider may answer: a rate per day, 0 for none
  Windows,            \* <<start, end>> asked for
  Preview,            \* whether synthetic, stale and raw series are let in
  DaysPerMonth, WeightTolerance

ASSUME BenchmarkAssumption ==
  /\ Foreign \subseteq Symbols
  /\ DaysPerMonth \in Nat \ {0}
  /\ \A w \in Windows : w[1] \in Nat /\ w[2] \in Nat

VARIABLE bench  \* the evaluation under way

benchVars == <<bench>>

Unit == Rat(100)

weigh(alloc) == FoldSet(LAMBDA s, sum : sum ++ alloc[s], Zero, Symbols)

\* The total is within the tolerance of one.
fullyInvested(total) == (IF One \preceq total THEN total -- One ELSE One -- total) \prec WeightTolerance

-----------------------------------------------------------------------------
(* Recipe versions (recipe_version.go).  A leg names a symbol or a recipe. *)

Validate(v) ==
  /\ v.legs # <<>>
  /\ \A i \in DOMAIN v.legs : Positive(v.legs[i].weight) /\ (v.legs[i].symbol = "") # (v.legs[i].ref = "")
  /\ fullyInvested(FoldSeq(LAMBDA leg, sum : sum ++ leg.weight, Zero, v.legs))
  /\ v.until # 0 => v.until > v.from

\* Validated versions whose effective ranges do not overlap.
NewVersionedRecipeStore(store) ==
  /\ \A v \in store : Validate(v)
  /\ \A v, w \in store : v.recipe = w.recipe /\ v # w =>
       /\ v.id # w.id
       /\ v.until = 0 /\ v.known = w.known => w.from < v.from \/ v.from < w.from
       /\ v.until # 0 /\ v.known < w.known /\ ~(\E x \in store : x.recipe = v.recipe /\ v.known < x.known /\ x.known < w.known)
            => w.from >= v.until

\* The newest version that was public at the time; none when there was none.
SelectVersion(store, recipe, at) ==
  LET public == {v \in store : v.recipe = recipe /\ v.known <= at}
  IN  {v \in public : \A w \in public : w.known <= v.known}

\* That version and those made public during the window, oldest first.
RelevantVersions(store, recipe, start, end) ==
  LET later == {v \in store : v.recipe = recipe /\ start < v.known /\ v.known <= end}
  IN  SetToSortSeq(SelectVersion(store, recipe, start) \cup later,
                   LAMBDA v, w : v.known < w.known \/ (v.known = w.known /\ v.id < w.id))

-----------------------------------------------------------------------------
(* Target weights (engine.go, engine_return.go) *)

\* Weights by symbol: duplicates merge.
mergeDuplicateSymbols(a, b) == [s \in Symbols |-> a[s] ++ b[s]]

NoWeights == [s \in Symbols |-> Zero]

\* Nested recipes as known at asOf, their weights scaled by the leg's; empty when
\* a recipe refers to itself or has no version yet.
flattenConcreteVersion(store, version, asOf) ==
  LET flat[v \in store, visited \in SUBSET {w.recipe : w \in store}] ==
        LET leg(l) ==
              IF l.symbol # "" THEN {[NoWeights EXCEPT ![l.symbol] = l.weight]}
              ELSE {[s \in Symbols |-> l.weight ** a[s]] :
                      a \in UNION {flat[child, visited \cup {v.recipe}] : child \in SelectVersion(store, l.ref, asOf)}}
        IN  IF v.recipe \in visited THEN {}
            ELSE FoldSeq(LAMBDA l, sums : {mergeDuplicateSymbols(a, b) : a \in leg(l), b \in sums}, {NoWeights}, v.legs)
  IN  flat[version, {}]

\* Only filing snapshots follow later versions; empty when a version cannot be
\* flattened or is not fully invested.
resolveTimeline(store, recipe, start, end) ==
  LET all      == RelevantVersions(store, recipe, start, end)
      versions == IF all # <<>> /\ all[1].policy # "filing_snapshot_hold" THEN <<all[1]>> ELSE all
      weights  == [i \in DOMAIN versions |-> flattenConcreteVersion(store, versions[i], versions[i].known)]
  IN  IF SelectVersion(store, recipe, start) # {}
         /\ \A i \in DOMAIN versions : \E a \in weights[i] : fullyInvested(weigh(a))
      THEN [i \in DOMAIN versions |-> [version |-> versions[i], weights |-> CHOOSE a \in weights[i] : TRUE]]
      ELSE <<>>

supportedPolicy(policy) ==
  policy \in {"daily_target_weight", "buy_and_hold", "periodic_monthly", "filing_snapshot_hold"}

symbolsOf(timeline) == {s \in Symbols : \E i \in DOMAIN timeline : timeline[i].weights[s] # Zero}

-----------------------------------------------------------------------------
(* Prices (series.go, engine_return.go) *)

\* The grade of a series under the requirement; none when it is refused.
validateSeries(x) ==
  IF Cardinality({d \in DOMAIN x.close : x.close[d] # 0}) < 2 THEN {}
  ELSE IF x.synthetic THEN IF Preview THEN {"synthetic"} ELSE {}
  ELSE IF ~Preview /\ (x.stale \/ ~x.adjusted) THEN {}
  ELSE {IF x.stale THEN "stale" ELSE IF x.adjusted THEN "verified" ELSE "acceptable"}

qualityRank(q) == CASE q = "synthetic" -> 2 [] q = "stale" -> 3 [] q = "acceptable" -> 4 [] q = "verified" -> 5

\* The weakest leg.
worseQuality(grades) == CHOOSE q \in grades : \A r \in grades : qualityRank(q) <= qualityRank(r)

\* Days of the window on which every series that has any close in it has one.
commonDates(series, window) ==
  LET days == window[1]..window[2]
      has(s, d) == d \in DOMAIN series[s].close /\ series[s].close[d] # 0
      seen == {s \in DOMAIN series : \E d \in days : has(s, d)}
  IN  SetToSortSeq({d \in days : seen # {} /\ \A s \in seen : has(s, d)}, <)

\* Closes in the base currency, at the rate of their own day; 0 where the close or
\* the rate is missing, which refuses the evaluation.
convertedPrices(series, dates, rates) ==
  [s \in DOMAIN series |-> [d \in ToSet(dates) |-> series[s].close[d] * IF s \in Foreign THEN rates[d] ELSE 1]]

-----------------------------------------------------------------------------
(* The virtual portfolio *)

\* Units that hold the target weights at the value of the day.
allocateAtNAV(nav, weights, prices, day) ==
  [s \in {x \in Symbols : weights[x] # Zero} |-> (nav ** weights[s]) // Rat(prices[s][day])]

valueState(holdings, prices, day) ==
  FoldSet(LAMBDA s, sum : sum ++ (holdings[s] ** Rat(prices[s][day])), Zero, DOMAIN holdings)

monthOf(day) == day \div DaysPerMonth

isFinalCommonTradingDateOfMonth(k, dates, end) ==
  IF k < Len(dates) THEN monthOf(dates[k]) # monthOf(dates[k + 1])
  ELSE end >= (monthOf(dates[k]) + 1) * DaysPerMonth - 1

\* A filing that takes effect on the day it is published.
activatesAtOnce(item, day) == day >= item.version.known

\* A filing takes effect at the first close after the day it was public.
activates(item, day) == day > item.version.known

IdleBench == [at |-> "idle"]

refused == [at |-> "refused"]

\* Everything up to the first allocation.
CalculateIndex(store, series, rates, window) ==
  LET timeline == resolveTimeline(store, Recipe, window[1], window[2])
      used     == [s \in symbolsOf(timeline) |-> series[s]]
      dates    == commonDates(used, window)
      prices   == convertedPrices(used, dates, rates)
      sound    == /\ window[2] > window[1] /\ timeline # <<>>
                  /\ \A i \in DOMAIN timeline :
                       supportedPolicy(timeline[i].version.policy) /\ timeline[i].version.policy = timeline[1].version.policy
                  /\ \A s \in DOMAIN used : validateSeries(used[s]) # {}
                  /\ Len(dates) >= 2
                  /\ \A s \in DOMAIN used, d \in ToSet(dates) : prices[s][d] # 0
  IN  /\ NewVersionedRecipeStore(store)
      /\ bench' = IF ~sound THEN refused
                  ELSE [at |-> "valuing", store |-> store, window |-> window, timeline |-> timeline, prices |-> prices,
                        dates |-> dates, current |-> 1,
                        holdings |-> allocateAtNAV(Unit, timeline[1].weights, prices, dates[1]),
                        points |-> <<Unit>>,
                        grade |-> worseQuality(UNION {validateSeries(used[s]) : s \in DOMAIN used})]

\* One close: valued with the units held so far, then rebalanced for the next.
nextClose ==
  LET k       == Len(bench.points) + 1
      day     == bench.dates[k]
      nav     == valueState(bench.holdings, bench.prices, day)
      policy  == bench.timeline[1].version.policy
      filed   == /\ policy = "filing_snapshot_hold" /\ bench.current < Len(bench.timeline)
                 /\ activates(bench.timeline[bench.current + 1], day)
      current == IF filed THEN bench.current + 1 ELSE bench.current
      due     == \/ filed \/ policy = "daily_target_weight"
                 \/ policy = "periodic_monthly" /\ isFinalCommonTradingDateOfMonth(k, bench.dates, bench.window[2])
      units   == allocateAtNAV(nav, bench.timeline[current].weights, bench.prices, day)
  IN  /\ bench.at = "valuing" /\ k <= Len(bench.dates)
      /\ bench' = IF due /\ valueState(units, bench.prices, day) # nav THEN refused
                  ELSE [bench EXCEPT !.points = Append(@, nav), !.current = current,
                                     !.holdings = IF due THEN units ELSE @]

BenchmarkInit == bench = IdleBench

BenchmarkNext ==
  \/ /\ bench = IdleBench
     /\ \E store \in Stores, rates \in FxRates, window \in Windows,
           series \in {x \in [Symbols -> UNION {Series[s] : s \in Symbols}] : \A s \in Symbols : x[s] \in Series[s]} :
          CalculateIndex(store, series, rates, window)
  \/ nextClose

-----------------------------------------------------------------------------
(* The recipe version a holder who only reads published filings would hold    *)
(* after the close of a day, and the last close at which such a holder traded. *)

Public(day) ==
  SelectVersion(bench.store, Recipe,
    IF bench.timeline[1].version.policy = "filing_snapshot_hold" /\ day > bench.dates[1]
    THEN LET before == day - 1 IN IF before > bench.window[1] THEN before ELSE bench.window[1]
    ELSE bench.window[1])

TradedBefore(k) ==
  LET dates  == bench.dates
      traded == {j \in 1..(k - 1) :
                   \/ j = 1
                   \/ bench.timeline[1].version.policy = "daily_target_weight"
                   \/ bench.timeline[1].version.policy = "periodic_monthly" /\ monthOf(dates[j]) # monthOf(dates[j + 1])
                   \/ Public(dates[j]) # Public(dates[j - 1])}
  IN  Max(traded)

(* "Selection is deterministic and avoids look-ahead": every point of the      *)
(* index is what a holder had who bought the target weights of the newest      *)
(* version then published at the last trading close, at that day's prices and  *)
(* exchange rates: no version, weight or price enters the index before it was  *)
(* known, and no rebalancing moves it.  Two filings due at one close are       *)
(* activated one close apart, so the instances keep them apart.                *)
IndexFollowsPublished ==
  bench.at = "valuing" => \A k \in 2..Len(bench.points) :
    LET j == TradedBefore(k)
        v == CHOOSE x \in Public(bench.dates[j]) : TRUE
        w == CHOOSE x \in flattenConcreteVersion(bench.store, v, v.known) : TRUE
        relative(s) == Rat(bench.prices[s][bench.dates[k]]) // Rat(bench.prices[s][bench.dates[j]])
    IN  bench.points[k] = bench.points[j] ** FoldSet(LAMBDA s, sum : sum ++ (w[s] ** relative(s)), Zero,
                                                     {s \in Symbols : w[s] # Zero})
=============================================================================
