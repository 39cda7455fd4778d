--------------------------- MODULE MCCompetitions ---------------------------
(* Small instances of Competitions for TLC. *)
EXTENDS Competitions

Position(i, class, value) ==
  [instrument |-> i, class |-> class, sector |-> "", issuer |-> "", value |-> value, quantity |-> One]

Stocks == [dims |-> [d \in {"class"} |-> {"stock"}], universe |-> NoUniverse]
Sector == [dims |-> [d \in {"sector"} |-> {"tech"}], universe |-> NoUniverse]

Rule(code, metric, operator, value, filter) ==
  [code |-> code, metric |-> metric, operator |-> operator, value |-> value, high |-> Zero, filter |-> filter]

\* At least half of what is invested in stocks; the whole portfolio is scored.
HalfStocks ==
  [eligibility |-> [all |-> <<Rule("stocks", "portfolio_weight", "gte", Frac(1, 2), Stocks)>>, any |-> <<>>],
   scoring     |-> [scope |-> "full_portfolio", filter |-> NoFilter, includeCash |-> TRUE]]

\* Refused: no sector data is wired.
SectorOnly == [HalfStocks EXCEPT !.eligibility.all[1].filter = Sector]

MCDocuments == {HalfStocks, SectorOnly}

MCPortfolios ==
  [u \in Users |->
     IF u = 1 THEN {[positions |-> {Position("A", "stock", 2)}, cash |-> 1, age |-> 1]}
     ELSE {[positions |-> {Position("B", "stock", 1)}, cash |-> 0, age |-> 1],
           [positions |-> {Position("A", "crypto", 2), Position("B", "stock", 1)}, cash |-> 1, age |-> 1]}]

MCQuotes == [i \in {"A", "B"} |-> IF i = "A" THEN {0, 1, 2} ELSE {1}]
MCSplits == {[instrument |-> "A", at |-> EndsAt, num |-> 2, den |-> 1]}
MCUniverses == [u \in {} |-> {}]
=============================================================================
