-------------------------- MODULE CompetitionRules --------------------------
(***************************************************************************)
(* The rules of a competition edition: eligibility and scoring documents,  *)
(* their admission checks, and the evaluation of a portfolio against them  *)
(* (internal/competitions/rules and the parts of eligibility.go, join.go   *)
(* and basket_adjustments.go that use it).                                 *)
(*                                                                         *)
(* A document is a record instead of JSON.  A position is a function from  *)
(* dimensions (asset type, sector, issuer country, instrument) to values,  *)
(* a filter maps the dimensions it restricts to the values it accepts.     *)
(* Weights are exact fractions (the code divides to 18 places).            *)
(***************************************************************************)
EXTENDS Rational, FiniteSets, FiniteSetsExt

CONSTANTS
  KnownUniverses,     \* universes the resolver knows: name -> instruments
  ResolverWired       \* whether a universe resolver is attached

NoUniverse == ""
NoFilter   == [dims |-> [d \in {} |-> {}], universe |-> NoUniverse]
IsZero(f)  == DOMAIN f.dims = {} /\ f.universe = NoUniverse

Metrics   == {"portfolio_weight", "cash_weight", "largest_position_weight",
              "position_count", "asset_class_count", "portfolio_age_days"}
Operators == {"gte", "gt", "lte", "lt", "eq", "between"}
Scopes    == {"full_portfolio", "matching_assets", "custom_universe"}

metricsAcceptingFilter == {"portfolio_weight", "position_count"}

-----------------------------------------------------------------------------
(* Admission of a document *)

validateFilter(f) == \A d \in DOMAIN f.dims : "" \notin f.dims[d]

validateRule(r) ==
  /\ r.code # "" /\ r.metric \in Metrics /\ r.operator \in Operators
  /\ Zero \preceq r.value
  /\ r.operator = "between" => r.value \prec r.high
  /\ validateFilter(r.filter)
  /\ ~IsZero(r.filter) => r.metric \in metricsAcceptingFilter
  /\ r.metric = "portfolio_weight" => ~IsZero(r.filter)

\* Rules are numbered within their group, so that codes may collide.
ParseEligibility(e) ==
  /\ Cardinality(DOMAIN e.all) + Cardinality(DOMAIN e.any) > 0
  /\ \A i \in DOMAIN e.all : validateRule(e.all[i])
  /\ \A i \in DOMAIN e.any : validateRule(e.any[i])
  /\ \A i, j \in DOMAIN e.all : e.all[i].code = e.all[j].code => i = j
  /\ \A i, j \in DOMAIN e.any : e.any[i].code = e.any[j].code => i = j
  /\ \A i \in DOMAIN e.all, j \in DOMAIN e.any : e.all[i].code # e.any[j].code

ParseScoring(s) ==
  /\ validateFilter(s.filter)
  /\ s.scope \in Scopes
  /\ s.scope = "full_portfolio" => IsZero(s.filter)
  /\ s.scope = "matching_assets" => ~IsZero(s.filter)
  /\ s.scope = "custom_universe" => s.filter.universe # NoUniverse

\* No sector or issuer data is wired; universes need a resolver.
validateFilterCapabilities(f) ==
  /\ DOMAIN f.dims \cap {"sector", "issuer"} = {}
  /\ f.universe # NoUniverse => ResolverWired

ValidateCapabilities(e, s) ==
  /\ \A i \in DOMAIN e.all : validateFilterCapabilities(e.all[i].filter)
  /\ \A i \in DOMAIN e.any : validateFilterCapabilities(e.any[i].filter)
  /\ validateFilterCapabilities(s.filter)

ValidateRules(doc) ==
  /\ ParseEligibility(doc.eligibility) /\ ParseScoring(doc.scoring)
  /\ ValidateCapabilities(doc.eligibility, doc.scoring)

-----------------------------------------------------------------------------
(* Evaluation *)

Matches(f, p) ==
  /\ \A d \in DOMAIN f.dims : p[d] \in f.dims[d]
  /\ f.universe # NoUniverse =>
       f.universe \in DOMAIN KnownUniverses /\ p.instrument \in KnownUniverses[f.universe]

Worth(positions) == MapThenSumSet(LAMBDA p : p.value, positions)

investedValueBaseWithCash(facts) == Worth(facts.positions) + facts.cash

\* Idle cash is not part of what weights are measured against.
investedValueBase(facts) == Worth(facts.positions)

Uncomputable == [known |-> FALSE, value |-> Zero]
Metric(v)    == [known |-> TRUE, value |-> v]

filteredWeight(f, facts) ==
  IF investedValueBase(facts) <= 0 \/ (f.universe # NoUniverse /\ f.universe \notin DOMAIN KnownUniverses)
  THEN Uncomputable
  ELSE Metric(Frac(Worth({p \in facts.positions : Matches(f, p)}), investedValueBase(facts)))

largestPositionWeight(facts) ==
  IF investedValueBase(facts) <= 0 THEN Uncomputable
  ELSE Metric(Frac(Max({p.value : p \in facts.positions}), investedValueBase(facts)))

cashWeight(facts) ==
  IF Worth(facts.positions) + facts.cash <= 0 THEN Uncomputable
  ELSE Metric(Frac(facts.cash, Worth(facts.positions) + facts.cash))

metricValue(r, facts) ==
  CASE r.metric = "portfolio_weight"        -> filteredWeight(r.filter, facts)
    [] r.metric = "cash_weight"             -> cashWeight(facts)
    [] r.metric = "largest_position_weight" -> largestPositionWeight(facts)
    [] r.metric = "position_count"          -> Metric(Rat(Cardinality({p \in facts.positions : Matches(r.filter, p)})))
    [] r.metric = "asset_class_count"       -> Metric(Rat(Cardinality({p.class : p \in facts.positions} \ {""})))
    [] r.metric = "portfolio_age_days"      -> Metric(Rat(facts.age))

\* compare.
Satisfies(actual, r) ==
  CASE r.operator = "gte"     -> r.value \preceq actual
    [] r.operator = "gt"      -> r.value \prec actual
    [] r.operator = "lte"     -> actual \preceq r.value
    [] r.operator = "lt"      -> actual \prec r.value
    [] r.operator = "eq"      -> actual = r.value
    [] r.operator = "between" -> r.value \preceq actual /\ actual \preceq r.high

evaluateRule(r, facts) == metricValue(r, facts).known /\ Satisfies(metricValue(r, facts).value, r)

Evaluate(e, facts) ==
  /\ \A i \in DOMAIN e.all : evaluateRule(e.all[i], facts)
  /\ DOMAIN e.any # {} => \E i \in DOMAIN e.any : evaluateRule(e.any[i], facts)

scoringIncludesPosition(s, p) == s.scope = "full_portfolio" \/ Matches(s.filter, p)

\* buildEngineEntry freezes the positions the scoring selects, and the cash.
FrozenBasket(s, facts) ==
  [held |-> {p \in facts.positions : scoringIncludesPosition(s, p)},
   cash |-> IF s.includeCash THEN facts.cash ELSE 0]

Scorable(basket) == Worth(basket.held) + basket.cash > 0

-----------------------------------------------------------------------------
(* Splits between two instants (AdjustPosition).  A split is [instrument,
   at, num, den]; the identity of the instrument decides, not its symbol. *)

AdjustPosition(splits, p, from, through) ==
  LET due == {x \in splits : x.instrument = p.instrument /\ from < x.at /\ x.at <= through}
  IN  FoldSet(LAMBDA x, q : q ** Frac(x.num, x.den), p.quantity, due)
=============================================================================
