------------------------------ MODULE MCLedger ------------------------------
(* Small instances of PortfolioLedger for TLC: each cfg picks the kinds. *)
EXTENDS PortfolioLedger

MCFloor == Frac(1, 1000)

Trading      == {"deposit", "withdrawal", "buy", "sell", "close", "fee", "ensure", "auto_fund"}
Correcting   == {"deposit", "buy", "sell", "correct_cash", "correct_buy", "correct_sell", "snapshot"}
Distributing == {"buy", "income", "stock_dividend", "income_event", "split", "write_off"}
Reshaping    == {"deposit", "buy", "symbol_change", "replace", "add", "resize", "delete", "split"}
Events       == Distributing \cup Reshaping

TwoForOne == {Rat(2)}
NoRatios  == {}

AllA    == [s \in Symbols |-> IF s = "A" THEN One ELSE Zero]
HalfA   == [s \in Symbols |-> IF s = "A" THEN Frac(1, 2) ELSE Zero]
Targets == {AllA, HalfA}
NoTargets == {}
=============================================================================
