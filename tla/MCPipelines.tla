---- MODULE MCPipelines ----
(* Small instances of the two event pipelines for TLC.  They share no state, so
   a behaviour exercises one of them while the other stays in its first state. *)
EXTENDS IncomePipeline, CorporateActionPipeline

Dividend(perUnit, payment, cancelled) ==
  [type |-> "cash_dividend", perUnit |-> perUnit, parts |-> <<>>, ex |-> 1, record |-> 0,
   payment |-> payment, cancelled |-> cancelled]

Mixed == [Dividend(4, 2, FALSE) EXCEPT !.type = "etf_distribution", !.ex = 0,
            !.parts = <<[type |-> "cash_dividend", perUnit |-> 2], [type |-> "return_of_capital", perUnit |-> 2]>>]

\* Announced without terms, then complete, cancelled, and announced again.
MCRevisions == <<[Dividend(0, 0, FALSE) EXCEPT !.ex = 0], Mixed, Dividend(4, 2, TRUE), Dividend(2, 3, FALSE)>>
MCHoldings  == [h1 |-> <<5, 5, 5>>, h2 |-> <<0, 5, 5>>]
MCTypeRates == [t \in {"cash_dividend"} |-> 10]
MCCorrections == [c1 |-> [holder |-> "h1", kind |-> "actual_withholding", value |-> 3],
                  c2 |-> [holder |-> "h1", kind |-> "actual_net", value |-> 11]]

Split(num, effective) ==
  [type |-> "split", num |-> num, den |-> 1, target |-> "", effectiveAt |-> 2, effective |-> effective, cancelled |-> FALSE]

\* Incomplete, complete and in effect, revised, withdrawn, announced again.
MCNotices  == <<Split(0, FALSE), Split(2, TRUE), Split(3, TRUE), [Split(3, TRUE) EXCEPT !.cancelled = TRUE], Split(4, TRUE)>>
MCAcquired == [p1 |-> 2, p2 |-> 1, p3 |-> 3]

IncomeUntouched == incomePass = IdlePass /\ day = 1 /\ said = 1 /\ event = NoEvent /\ faults = 0
ActionUntouched == pass = NoPass /\ announced = 1 /\ action = NoAction /\ trades + mishaps = 0

PipelinesInit == IncomeInit /\ ActionInit

PipelinesNext ==
  \/ IncomeNext /\ ActionUntouched /\ UNCHANGED actionVars
  \/ ActionNext /\ IncomeUntouched /\ UNCHANGED incomeVars

\* The worker of the pipeline at hand is ticked for ever and days go by.
PipelinesSpec ==
  /\ PipelinesInit /\ [][PipelinesNext]_<<incomeVars, actionVars>>
  /\ WF_<<incomeVars, actionVars>>(RunOnce /\ ActionUntouched /\ UNCHANGED actionVars)
  /\ WF_<<incomeVars, actionVars>>(nextDay /\ ActionUntouched /\ UNCHANGED actionVars)
  /\ WF_<<incomeVars, actionVars>>(RunActions /\ IncomeUntouched /\ UNCHANGED incomeVars)
=============================================================================
