-------------------------- MODULE PortfolioLedger ---------------------------
(***************************************************************************)
(* The portfolio aggregate as one locked transaction sees it: what every   *)
(* mutation kind of internal/portfolio/coordinator.go writes to the        *)
(* position episodes, the cash balance, the activity ledger and the ranked *)
(* state, and what service.go and service_activities.go later derive from  *)
(* the ledger.  A commit is one step: WithLockedPortfolio stages every     *)
(* write and publishes them together or not at all.  The protocol around   *)
(* the transaction (retries, quotes, idempotency) is MutationCoordinator.  *)
(*                                                                         *)
(* Abstractions: one currency, so an exchange rate is part of the price;   *)
(* an instrument is its symbol; the clock is the aggregate version, which  *)
(* every commit advances; a price of 0 is a symbol the provider cannot     *)
(* quote.  Values are exact rationals (module Rational).                   *)
(***************************************************************************)
EXTENDS RankedIndex, Sequences, FiniteSets, SequencesExt

CONSTANTS
  Symbols,      \* tradeable symbols
  Prices,       \* quotes the provider may report; 0 is an outage
  Quantities,   \* quantities a request may name
  Amounts,      \* cash amounts a request may name
  Fees,         \* fees a request may name, 0 included
  Ratios,       \* split and stock-dividend factors
  Allocations,  \* strategy targets: weight of each symbol, the rest is cash
  Kinds,        \* the operations this instance lets happen
  Store,        \* "memory" or "postgres": the repository behind the service
  Backdating,   \* whether a corporate action may be effective before it is recorded
  MaxCommits,   \* bound on committed mutations
  MaxMoves      \* bound on price changes

NoSymbol == "-"  \* of an activity about cash alone

ASSUME LedgerAssumption ==
  /\ Prices \subseteq Nat /\ Quantities \subseteq Nat \ {0}
  /\ Amounts \subseteq Nat \ {0} /\ Fees \subseteq Nat
  /\ IsFiniteSet(Symbols) /\ NoSymbol \notin Symbols
  /\ \A r \in Ratios : IsRat(r) /\ Positive(r)
  /\ \A t \in Allocations : DOMAIN t = Symbols /\ \A s \in Symbols : IsRat(t[s])
  /\ Store \in {"memory", "postgres"} /\ Backdating \in BOOLEAN
  /\ MaxCommits \in Nat /\ MaxMoves \in Nat

VARIABLES
  position,  \* rows of the positions table: an episode is its index
  cash,      \* the cash balance
  autoFund,  \* Portfolio.AutoFundPurchases
  ledger,    \* portfolio_activities, in commit order: an id is its index
  ranked,    \* portfolio_performance_state
  version,   \* Portfolio.Version, also the clock
  audit,     \* the newest portfolio_mutation_audit row
  trusted,   \* the newest trusted ranked snapshot
  price,     \* what the provider quotes now
  moves      \* price changes so far

vars == <<position, cash, autoFund, ledger, ranked, version, audit, trusted, price, moves>>

Now      == version
Neutral  == "neutral"
Return   == "return"

-----------------------------------------------------------------------------
(* Positions *)

OpenIds(p) == {i \in DOMAIN p : p[i].status = "open"}

findOpenBySymbol(b, s) == {i \in b.open : b.pos[i].sym = s}

The(ids) == CHOOSE i \in ids : \A j \in ids : i <= j

PutRow(p, i, row) == IF i > Len(p) THEN Append(p, row) ELSE ReplaceAt(p, i, row)

Row(s, q, avg) == [sym |-> s, qty |-> q, avg |-> avg, status |-> "open", acquired |-> Now]

Basis(row) == row.qty ** row.avg

Total(v) ==
  LET upTo[n \in 0..Len(v)] == IF n = 0 THEN Zero ELSE upTo[n - 1] ++ v[n]
  IN  upTo[Len(v)]

-----------------------------------------------------------------------------
(* Valuation at the quotes pinned for the mutation *)

Quoted(s) == price[s] > 0

MarketValue(row) == row.qty ** Rat(price[row.sym])

ValueOpen(p, ids, atCost) ==
  Total([i \in DOMAIN p |-> IF i \notin ids THEN Zero
                            ELSE IF i \in atCost THEN Basis(p[i]) ELSE MarketValue(p[i])])

BasisOf(p, ids) == Total([i \in DOMAIN p |-> IF i \in ids THEN Basis(p[i]) ELSE Zero])

ValueTracked(p, ids, c, atCost) == c ++ ValueOpen(p, ids, atCost)

BookValue == ValueTracked(position, OpenIds(position), cash, {})

\* What CurrentRankedPerformance reports for the committed book.
LiveIndex == IF ranked = NoState THEN Hundred ELSE CalculateCurrentIndex(ranked, BookValue)

BookQuoted == \A i \in OpenIds(position) : Quoted(position[i].sym)

-----------------------------------------------------------------------------
(* Activities and plans *)

Activity(type, s, ep) ==
  [type |-> type, sym |-> s, ep |-> ep, qty |-> Zero, gross |-> Zero, fee |-> Zero,
   net |-> Zero, basis |-> Zero, realized |-> Zero, ratio |-> One, boxed |-> FALSE,
   at |-> Now, created |-> Now, of |-> 0]

CashActivity(type, amount, of) == [Activity(type, NoSymbol, 0) EXCEPT !.gross = amount, !.of = of]

FeeLeg(type, s, ep, f) ==
  IF Positive(f) THEN <<[Activity(type, s, ep) EXCEPT !.gross = f]>> ELSE <<>>

\* The plan of a mutation that changes nothing: pos is what will be written,
\* open the ids newOpen values, atCost the ids valued at their cost basis.
Book ==
  [pos |-> position, open |-> OpenIds(position), cash |-> cash, acts |-> <<>>,
   effect |-> Neutral, ret |-> Zero, inv |-> FALSE, atCost |-> {}]

planCashFlow(type, amount, of) ==
  [Book EXCEPT !.cash = IF type = "deposit" THEN cash ++ amount ELSE cash -- amount,
               !.acts = <<CashActivity(type, amount, of)>>]

planBuy(s, q, p, f) ==
  LET gross    == q ** p
      total    == gross ++ f
      funding  == MaxRat(total -- cash, Zero)
      held     == findOpenBySymbol(Book, s)
      id       == IF held = {} THEN Len(position) + 1 ELSE The(held)
      row      == IF held = {} THEN Row(s, q, total // q)
                  ELSE [position[id] EXCEPT !.qty = @ ++ q,
                          !.avg = (Basis(position[id]) ++ total) // (position[id].qty ++ q)]
      buy      == [Activity("buy", s, id) EXCEPT !.qty = q, !.gross = gross, !.fee = f, !.net = total]
      fundLeg  == IF Positive(funding) THEN <<CashActivity("deposit", funding, 0)>> ELSE <<>>
  IN [Book EXCEPT !.pos  = PutRow(position, id, row),
                  !.open = @ \cup {id},
                  !.cash = (cash ++ funding) -- total,
                  !.acts = <<buy>> \o fundLeg \o FeeLeg("buy_fee", s, id, f),
                  !.ret  = Zero -- f]

NetProceedsIgnoringFee(q, p, f) == q ** p

NetProceeds(q, p, f) == (q ** p) -- f

SaleActivity(i, q, p, f, at, of) ==
  LET net == NetProceeds(q, p, f)
      alloc == q ** position[i].avg
  IN [Activity("sell", position[i].sym, i) EXCEPT
        !.qty = q, !.gross = q ** p, !.fee = f, !.net = net, !.basis = alloc,
        !.realized = net -- alloc, !.at = at, !.of = of]

SaleEffect(i, p, f) ==
  IF Positive(f) \/ p # Rat(price[position[i].sym]) THEN Return ELSE Neutral

planSell(i, q, p, f) ==
  LET left == position[i].qty -- q
      sale == SaleActivity(i, q, p, f, Now, 0)
      row  == IF left = Zero THEN [position[i] EXCEPT !.status = "closed"]
              ELSE [position[i] EXCEPT !.qty = left]
  IN [Book EXCEPT !.pos    = PutRow(position, i, row),
                  !.open   = IF left = Zero THEN @ \ {i} ELSE @,
                  !.cash   = cash ++ sale.net,
                  !.acts   = <<sale>> \o FeeLeg("sell_fee", position[i].sym, i, f),
                  !.effect = SaleEffect(i, p, f)]

-----------------------------------------------------------------------------
(* Corrections: the original is read back through the repository *)

\* scanOptionalActivity restores neither FeeAmount nor NetAmount, which
\* prepareActivity wrote only into the metadata document.
ReadBack(i) ==
  IF Store = "postgres" THEN [ledger[i] EXCEPT !.fee = Zero, !.net = Zero] ELSE ledger[i]

FindCorrectionForActivity(i) == {j \in DOMAIN ledger : ledger[j].of = i}

isLastEpisodeEvent(i) ==
  \A j \in DOMAIN ledger :
    (j # i /\ ledger[j].ep = ledger[i].ep /\ ledger[j].created # ledger[i].created) =>
      /\ ledger[j].at <= ledger[i].at
      /\ ledger[j].at = ledger[i].at => ledger[j].created <= ledger[i].created

validateCorrectionIgnoringBoundary(i) == isLastEpisodeEvent(i)

validateCorrectionIgnoringEpisode(i) == ledger[i].at >= trusted.at

validateCorrection(i) == isLastEpisodeEvent(i) /\ ledger[i].at >= trusted.at

planCorrectBuy(i, q, p, f) ==
  LET orig  == ReadBack(i)
      e     == orig.ep
      qty   == (position[e].qty -- orig.qty) ++ q
      basis == (((Basis(position[e]) -- orig.gross) -- orig.fee) ++ (q ** p)) ++ f
      total == (q ** p) ++ f
  IN [Book EXCEPT !.pos  = PutRow(position, e, [position[e] EXCEPT !.qty = qty, !.avg = basis // qty]),
                  !.cash = cash -- (total -- (orig.gross ++ orig.fee)),
                  !.acts = <<[Activity("buy", position[e].sym, e) EXCEPT
                               !.qty = q, !.gross = q ** p, !.fee = f, !.net = total,
                               !.at = orig.at, !.of = i]>>,
                  !.ret  = orig.fee -- f]

HeldBeforeSale(orig) ==
  LET row == position[orig.ep]
  IN  IF row.status = "closed" THEN row.qty ELSE row.qty ++ orig.qty

\* replaceInSet keeps the open set's ids: an episode this correction reopens is
\* not among the positions valued after the mutation.
planCorrectSell(i, q, p, f) ==
  LET orig == ReadBack(i)
      e    == orig.ep
      left == HeldBeforeSale(orig) -- q
      sale == SaleActivity(e, q, p, f, orig.at, i)
      row  == IF left = Zero THEN [position[e] EXCEPT !.status = "closed"]
              ELSE [position[e] EXCEPT !.status = "open", !.qty = left]
  IN [Book EXCEPT !.pos    = PutRow(position, e, row),
                  !.open   = IF left = Zero THEN @ \ {e} ELSE @,
                  !.cash   = cash ++ (sale.net -- orig.net),
                  !.acts   = <<sale>>,
                  !.effect = SaleEffect(e, p, f)]

-----------------------------------------------------------------------------
(* Income components, applied to a book: one for a single-component mutation, *)
(* several in a row for an income event.                                      *)

Component == [sub : {"cash", "reinvest", "roc"}, sym : Symbols, amount : Amounts]
             \cup [sub : {"stock"}, sym : Symbols, ratio : {r \in Ratios : One \prec r}]

ComponentApplies(b, c) ==
  CASE c.sub = "cash"          -> TRUE
    [] c.sub = "reinvest"      -> Quoted(c.sym)
    [] c.sub \in {"roc", "stock"} -> findOpenBySymbol(b, c.sym) # {}

creditIncome(b, c, at) ==
  LET held == findOpenBySymbol(b, c.sym)
      ep   == IF held = {} THEN 0 ELSE The(held)
  IN [b EXCEPT !.cash = @ ++ Rat(c.amount),
               !.acts = Append(@, [Activity("cash_dividend", c.sym, ep) EXCEPT
                                     !.gross = Rat(c.amount), !.at = at])]

planReinvestedDividend(b, c, at) ==
  LET net  == Rat(c.amount)
      p    == Rat(price[c.sym])
      q    == net // p
      held == findOpenBySymbol(b, c.sym)
      id   == IF held = {} THEN Len(b.pos) + 1 ELSE The(held)
      row  == IF held = {} THEN Row(c.sym, q, p)
              ELSE [b.pos[id] EXCEPT !.qty = @ ++ q,
                      !.avg = (Basis(b.pos[id]) ++ net) // (b.pos[id].qty ++ q)]
  IN [b EXCEPT !.pos  = PutRow(b.pos, id, row),
               !.open = @ \cup {id},
               !.acts = @ \o << [Activity("reinvested_dividend", c.sym, id) EXCEPT
                                   !.gross = net, !.at = at],
                                [Activity("buy", c.sym, id) EXCEPT !.qty = q, !.gross = net] >>]

BasisReductionUnbounded(net, row) == net

BasisReduction(net, row) == MinRat(net, Basis(row))

planReturnOfCapital(b, c, at) ==
  LET id  == The(findOpenBySymbol(b, c.sym))
      row == b.pos[id]
      net == Rat(c.amount)
      cut == BasisReduction(net, row)
  IN [b EXCEPT !.pos  = PutRow(b.pos, id, [row EXCEPT !.avg = (Basis(row) -- cut) // row.qty]),
               !.cash = @ ++ net,
               !.acts = Append(@, [Activity("return_of_capital", c.sym, id) EXCEPT
                                     !.gross = net, !.basis = cut, !.at = at])]

\* An income event stores the ratio in the activity's metadata as a decimal
\* value (boxed), a single stock dividend stores it as text.
planStockDividend(b, c, at, boxed) ==
  LET id  == The(findOpenBySymbol(b, c.sym))
      row == b.pos[id]
  IN [b EXCEPT !.pos  = PutRow(b.pos, id, [row EXCEPT !.qty = @ ** c.ratio, !.avg = @ // c.ratio]),
               !.acts = Append(@, [Activity("stock_dividend", c.sym, id) EXCEPT
                                     !.ratio = c.ratio, !.boxed = boxed, !.at = at])]

applyComponent(b, c, at, boxed) ==
  CASE c.sub = "cash"     -> creditIncome(b, c, at)
    [] c.sub = "reinvest" -> planReinvestedDividend(b, c, at)
    [] c.sub = "roc"      -> planReturnOfCapital(b, c, at)
    [] c.sub = "stock"    -> planStockDividend(b, c, at, boxed)

componentEffect(c) == IF c.sub = "stock" THEN Neutral ELSE Return

planIncome(c, at) == [applyComponent(Book, c, at, FALSE) EXCEPT !.effect = componentEffect(c)]

\* One event, several components, each applied to what the previous one left;
\* the event is return-bearing when one of its components is.
planIncomeEvent(c1, c2, at) ==
  [applyComponent(applyComponent(Book, c1, at, TRUE), c2, at, TRUE) EXCEPT
     !.effect = IF Return \in {componentEffect(c1), componentEffect(c2)} THEN Return ELSE Neutral]

-----------------------------------------------------------------------------
(* Standalone fees, write-offs, corporate actions, whole-book replacement *)

planFee(amount) ==
  [Book EXCEPT !.cash = cash -- amount, !.effect = Return,
               !.acts = <<[Activity("management_fee", NoSymbol, 0) EXCEPT !.gross = amount]>>]

planWriteOff(i) ==
  [Book EXCEPT !.pos = PutRow(position, i, [position[i] EXCEPT !.status = "closed"]),
               !.open = @ \ {i}, !.atCost = {i}, !.effect = Return,
               !.acts = <<[Activity("write_off", position[i].sym, i) EXCEPT
                            !.qty = position[i].qty, !.basis = Basis(position[i]),
                            !.realized = Zero -- Basis(position[i])]>>]

planSplit(i, ratio, at) ==
  [Book EXCEPT !.pos = PutRow(position, i, [position[i] EXCEPT !.qty = @ ** ratio, !.avg = @ // ratio]),
               !.acts = <<[Activity("split", position[i].sym, i) EXCEPT
                            !.qty = position[i].qty ** ratio, !.ratio = ratio, !.at = at]>>,
               !.inv = TRUE]

planSymbolChange(i, s) ==
  [Book EXCEPT !.pos = PutRow(position, i, [position[i] EXCEPT !.sym = s]),
               !.acts = <<Activity("symbol_change", s, i)>>,
               !.inv = TRUE]

\* The open rows are deleted, closed history stays, the whole value is spread
\* over the target weights; no activity is recorded.
planReplace(target) ==
  LET total   == BookValue
      symbols == SetToSeq({s \in Symbols : Positive(target[s])})
      row(k)  == LET s == symbols[k] IN
                 Row(s, (total ** target[s]) // Rat(price[s]), Rat(price[s]))
      gone    == [i \in DOMAIN position |->
                    IF i \in OpenIds(position) THEN [position[i] EXCEPT !.status = "deleted"] ELSE position[i]]
  IN [Book EXCEPT !.pos  = gone \o [k \in DOMAIN symbols |-> row(k)],
                  !.open = (Len(position) + 1)..(Len(position) + Len(symbols)),
                  !.cash = total ** (One -- Total([k \in DOMAIN symbols |-> target[symbols[k]]]))]

planAdd(s, q) ==
  [Book EXCEPT !.pos  = Append(position, Row(s, q, Rat(price[s]))),
               !.open = @ \cup {Len(position) + 1}]

planResize(i, q) == [Book EXCEPT !.pos = PutRow(position, i, [position[i] EXCEPT !.qty = q])]

planDelete(i) ==
  [Book EXCEPT !.pos = PutRow(position, i, [position[i] EXCEPT !.status = "deleted"]),
               !.open = @ \ {i}]

-----------------------------------------------------------------------------
(* The commit: applyLocked from the plan to the last write *)

\* The income kinds may not lower the ranked index, a fee or write-off may not
\* raise it; sales, corrections and income events have no direction of their own.
assertReturnDirection(kind, before, after) ==
  /\ kind = "income" => before \preceq after
  /\ kind \in {"fee", "write_off"} => after \preceq before

RankedStep(kind, plan) ==
  LET before  == ValueTracked(position, OpenIds(position), cash, plan.atCost)
      after   == IF plan.inv THEN before
                 ELSE ValueTracked(plan.pos, plan.open, plan.cash, plan.atCost)
      ab      == Positive(before)
      aa      == Positive(after)
      st      == IF ranked = NoState THEN [ActivateState(before, ab) EXCEPT !.version = 0] ELSE ranked
      index   == CalculateIndexBeforeMutation(st, before, ab)
      neutral == after -- plan.ret
      mid     == ApplyCheckpoint(st, before, ab, neutral, aa)
      charged == ApplyReturnCheckpoint(mid, neutral, aa, after, aa)
      earned  == ApplyReturnCheckpoint(st, before, ab, after, aa)
      moved   == ApplyCheckpoint(st, before, ab, after, aa)
  IN CASE plan.ret # Zero ->
            [next |-> charged,
             ok   |-> /\ ValidateState(mid)
                      /\ CalculateCurrentIndex(mid, neutral) = index
                      /\ plan.ret \prec Zero => CalculateCurrentIndex(charged, after) \preceq index]
       [] plan.ret = Zero /\ plan.effect = Return ->
            [next |-> earned,
             ok   |-> assertReturnDirection(kind, index, CalculateCurrentIndex(earned, after))]
       [] OTHER ->
            [next |-> moved, ok |-> CalculateCurrentIndex(moved, after) = index]

\* What the valuation and the store refuse: an open holding without a quote, a
\* total, a balance or a quantity out of range and, in PostgreSQL, a second open
\* row of the same instrument (migrations/0022).
Writable(plan) ==
  /\ \A i \in OpenIds(position) \ plan.atCost : Quoted(position[i].sym)
  /\ Zero \preceq ValueOpen(position, OpenIds(position), plan.atCost)
  /\ ~plan.inv => \A i \in plan.open : Quoted(plan.pos[i].sym) /\ Positive(plan.pos[i].qty)
  /\ Zero \preceq plan.cash
  /\ Store = "postgres" =>
       \A i, j \in OpenIds(plan.pos) : plan.pos[i].sym = plan.pos[j].sym => i = j

RecordActivity(acts) == ledger' = ledger \o acts

applyLocked(kind, planned) ==
  /\ kind \in Kinds
  /\ version <= MaxCommits
  /\ \E plan \in {planned} :
       /\ Writable(plan)
       /\ \E step \in {RankedStep(kind, plan)} :
            step.ok /\ ValidateState(step.next) /\ ranked' = step.next
       /\ position' = plan.pos
       /\ cash' = plan.cash
       /\ RecordActivity(plan.acts)
       /\ audit' = [kind |-> kind, effect |-> plan.effect, ret |-> plan.ret, inv |-> plan.inv]
  /\ version' = version + 1
  /\ UNCHANGED <<autoFund, trusted, price, moves>>

-----------------------------------------------------------------------------
(* The operations *)

Fee(f)   == Rat(f)
Orders   == (Quantities \X (Prices \ {0})) \X Fees
Dates    == IF Backdating THEN 1..Now ELSE {Now}

validateLiveExecutionPrice(s, p) == p <= 5 * price[s] /\ price[s] <= 5 * p

Deposit(a)  == applyLocked("deposit", planCashFlow("deposit", Rat(a), 0))

Withdraw(a) ==
  /\ Rat(a) \preceq cash
  /\ applyLocked("withdrawal", planCashFlow("withdrawal", Rat(a), 0))

Buy(s, q, p, f) ==
  /\ Quoted(s) /\ validateLiveExecutionPrice(s, p)
  /\ autoFund \/ Rat(q * p + f) \preceq cash
  /\ applyLocked("buy", planBuy(s, Rat(q), Rat(p), Fee(f)))

Sell(i, q, p, f) ==
  /\ i \in OpenIds(position)
  /\ q \preceq position[i].qty
  /\ Quoted(position[i].sym) /\ validateLiveExecutionPrice(position[i].sym, p)
  /\ Fee(f) \prec (q ** Rat(p))
  /\ applyLocked("sell", planSell(i, q, Rat(p), Fee(f)))

\* A close names the episode: the whole quantity, at the quote, without a fee.
Close(i) ==
  /\ i \in OpenIds(position)
  /\ Quoted(position[i].sym)
  /\ applyLocked("close", planSell(i, position[i].qty, Rat(price[position[i].sym]), Zero))

\* Service.CorrectActivity on a cash flow books the difference as a new flow.
CorrectCashFlow(i, a) ==
  LET actual == Rat(a)
      delta  == actual -- ledger[i].gross
      more   == Positive(delta)
      type   == IF (ledger[i].type = "deposit") = more THEN "deposit" ELSE "withdrawal"
      amount == IF more THEN delta ELSE Zero -- delta
  IN /\ ledger[i].type \in {"deposit", "withdrawal"}
     /\ FindCorrectionForActivity(i) = {}
     /\ delta # Zero
     /\ type = "withdrawal" => amount \preceq cash
     /\ applyLocked("correct_cash", planCashFlow(type, amount, i))

\* The conditions Service.CorrectActivity and the plan put on a trade correction.
Correctable(i, type, q, p, f) ==
  LET orig == ReadBack(i)
  IN /\ orig.type = type
     /\ FindCorrectionForActivity(i) = {}
     /\ ~(orig.qty = Rat(q) /\ orig.gross = Rat(q * p) /\ orig.fee = Fee(f))
     /\ position[orig.ep].status # "deleted"
     /\ LET s == position[orig.ep].sym IN Quoted(s) /\ validateLiveExecutionPrice(s, p)
     /\ validateCorrection(i)

CorrectBuy(i, q, p, f) ==
  /\ Correctable(i, "buy", q, p, f)
  /\ (position[ledger[i].ep].qty -- ledger[i].qty) ++ Rat(q) # Zero
  /\ applyLocked("correct_buy", planCorrectBuy(i, Rat(q), Rat(p), Fee(f)))

CorrectSell(i, q, p, f) ==
  /\ Correctable(i, "sell", q, p, f)
  /\ Rat(q) \preceq HeldBeforeSale(ReadBack(i))
  /\ f < q * p
  /\ applyLocked("correct_sell", planCorrectSell(i, Rat(q), Rat(p), Fee(f)))

Income(c, at) ==
  /\ ComponentApplies(Book, c)
  /\ applyLocked(IF c.sub = "stock" THEN "stock_dividend" ELSE "income", planIncome(c, at))

IncomeEvent(c1, c2, at) ==
  /\ ComponentApplies(Book, c1)
  /\ ComponentApplies(applyComponent(Book, c1, at, TRUE), c2)
  /\ applyLocked("income_event", planIncomeEvent(c1, c2, at))

RecordFee(a) == Rat(a) \preceq cash /\ applyLocked("fee", planFee(Rat(a)))

\* Offered only for a holding the provider cannot price.
WriteOff(i) ==
  /\ i \in OpenIds(position)
  /\ ~Quoted(position[i].sym)
  /\ applyLocked("write_off", planWriteOff(i))

\* processEvent skips a holder whose episode began after the effective date, and
\* planSplit refuses one whose cost basis a return of capital has used up.
Split(i, r, at) ==
  /\ i \in OpenIds(position) /\ position[i].acquired <= at
  /\ Positive(position[i].avg)
  /\ applyLocked("split", planSplit(i, r, at))

SymbolChange(i, s) ==
  /\ i \in OpenIds(position) /\ s # position[i].sym
  /\ findOpenBySymbol(Book, s) = {}
  /\ applyLocked("symbol_change", planSymbolChange(i, s))

Replace(target) ==
  /\ BookQuoted /\ Positive(BookValue)
  /\ \A s \in Symbols : Positive(target[s]) => Quoted(s)
  /\ applyLocked("replace", planReplace(target))

Add(s, q)    == Quoted(s) /\ applyLocked("add", planAdd(s, Rat(q)))
Resize(i, q) == i \in OpenIds(position) /\ applyLocked("resize", planResize(i, Rat(q)))
Delete(i)    == i \in OpenIds(position) /\ applyLocked("delete", planDelete(i))

\* The startup backfill. It prices held symbols only, so an account with cash
\* and no holding has no exchange rate pinned and is refused.
EnsureRankedEpoch ==
  /\ "ensure" \in Kinds
  /\ ranked = NoState
  /\ BookQuoted /\ (cash = Zero \/ OpenIds(position) # {})
  /\ ranked' = ActivateState(BookValue, Positive(BookValue))
  /\ UNCHANGED <<position, cash, autoFund, ledger, version, audit, trusted, price, moves>>

SetAutoFundPurchases(b) ==
  /\ "auto_fund" \in Kinds /\ version <= MaxCommits
  /\ b # autoFund
  /\ autoFund' = b
  /\ UNCHANGED <<position, cash, ledger, ranked, version, audit, trusted, price, moves>>

\* Bounded: what comes after the last commit is not followed.
MovePrice(s, p) ==
  /\ moves < MaxMoves /\ version <= MaxCommits /\ p # price[s]
  /\ price' = [price EXCEPT ![s] = p]
  /\ moves' = moves + 1
  /\ UNCHANGED <<position, cash, autoFund, ledger, ranked, version, audit, trusted>>

-----------------------------------------------------------------------------
(* What the ledger says was held *)

CorrectedAwayNever(i) == FALSE

\* A corrected trade is superseded by its correction; a corrected cash flow is
\* completed by it.
CorrectedAway(i) == FindCorrectionForActivity(i) # {}

\* ratioFactor reads text and numbers; the in-memory store hands the boxed
\* decimal of an income event back as it is, and the factor is ignored.
ratioFactor(a) == IF a.boxed /\ Store = "memory" THEN One ELSE a.ratio

\* The legs of a symbol up to a day that still count, each with its place in
\* commit order.
ReplayedLegs(s, asOf) ==
  {[id |-> i, leg |-> ledger[i]] :
     i \in {j \in DOMAIN ledger : ledger[j].sym = s /\ ledger[j].at <= asOf /\ ~CorrectedAway(j)}}

LatestLeg(legs) ==
  CHOOSE x \in legs : \A y \in legs :
    y.leg.at < x.leg.at \/ (y.leg.at = x.leg.at /\ y.id <= x.id)

\* In order of occurrence: the latest leg applies to what all earlier ones left.
replayHoldings(legs) ==
  LET apply(a, held) ==
        CASE a.type = "buy"                          -> held ++ a.qty
          [] a.type = "sell"                         -> held -- a.qty
          [] a.type \in {"split", "stock_dividend"}  -> held ** ratioFactor(a)
          [] a.type = "write_off"                    -> Zero
          [] OTHER                                   -> held
  IN MaxRat(MapThenFoldSet(apply, Zero, LAMBDA x : x.leg, LatestLeg, legs), Zero)

EligibleQuantity(s, asOf) == replayHoldings(ReplayedLegs(s, asOf))

HeldNow(s) ==
  Total([i \in DOMAIN position |->
           IF position[i].status = "open" /\ position[i].sym = s THEN position[i].qty ELSE Zero])

\* A ranked snapshot of the committed book becomes the trusted boundary.
TakeSnapshot ==
  /\ "snapshot" \in Kinds
  /\ ranked # NoState /\ BookQuoted /\ trusted.at < version
  /\ trusted' = [at |-> version, held |-> [s \in Symbols |-> EligibleQuantity(s, version - 1)]]
  /\ UNCHANGED <<position, cash, autoFund, ledger, ranked, version, audit, price, moves>>

-----------------------------------------------------------------------------

Init ==
  /\ position = <<>> /\ cash = Zero /\ autoFund = TRUE
  /\ ledger = <<>> /\ ranked = NoState /\ version = 1
  /\ audit = [kind |-> "none", effect |-> Neutral, ret |-> Zero, inv |-> FALSE]
  /\ trusted = [at |-> 0, held |-> [s \in Symbols |-> Zero]]
  /\ price \in [Symbols -> Prices \ {0}]
  /\ moves = 0

\* The bound of applyLocked comes first: past it no input need be tried.
CashFlow   == \E a \in Amounts : Deposit(a) \/ Withdraw(a) \/ RecordFee(a)
Trade      == /\ version <= MaxCommits
              /\ \E o \in Orders :
                   LET q == o[1][1]  p == o[1][2]  f == o[2] IN
                   \/ \E s \in Symbols : Buy(s, q, p, f)
                   \/ \E i \in DOMAIN position : Sell(i, Rat(q), p, f)
Correction == /\ version <= MaxCommits
              /\ \E i \in DOMAIN ledger :
                   \/ \E a \in Amounts : CorrectCashFlow(i, a)
                   \/ \E o \in Orders :
                        \/ CorrectBuy(i, o[1][1], o[1][2], o[2])
                        \/ CorrectSell(i, o[1][1], o[1][2], o[2])
Distribute == /\ version <= MaxCommits
              /\ \E c \in Component, at \in Dates :
                   Income(c, at) \/ \E d \in Component : IncomeEvent(c, d, at)
Transform  == /\ version <= MaxCommits
              /\ \E i \in DOMAIN position :
                   \/ Close(i) \/ WriteOff(i) \/ Delete(i)
                   \/ \E r \in Ratios, at \in Dates : Split(i, r, at)
                   \/ \E s \in Symbols : SymbolChange(i, s)
                   \/ \E q \in Quantities : Resize(i, q)
Reallocate == /\ version <= MaxCommits
              /\ \/ \E t \in Allocations : Replace(t)
                 \/ \E s \in Symbols, q \in Quantities : Add(s, q)
Background == \/ EnsureRankedEpoch \/ TakeSnapshot
              \/ \E b \in BOOLEAN : SetAutoFundPurchases(b)
              \/ \E s \in Symbols, p \in Prices : MovePrice(s, p)

Next == CashFlow \/ Trade \/ Correction \/ Distribute \/ Transform \/ Reallocate \/ Background

Spec == Init /\ [][Next]_vars

-----------------------------------------------------------------------------
(* The economic result Service.Summary derives from the ledger *)

Gross(a)    == a.gross
Realized(a) == a.realized

LedgerSum(f(_), types) ==
  Total([i \in DOMAIN ledger |-> IF ledger[i].type \in types THEN f(ledger[i]) ELSE Zero])

IncomeTypesPaidInCash == {"cash_dividend"}

IncomeTypes == {"cash_dividend", "reinvested_dividend"}

StandaloneFeesWithTradeFees == {"management_fee", "buy_fee", "sell_fee"}

\* StandaloneFeesBase: buy and sell fees are already in basis and realized P&L.
StandaloneFees == {"management_fee"}

\* What the Performance tab is built from: the book at today's quotes, and the
\* sums summarizeLedger takes over the activities.
Summary ==
  LET held == OpenIds(position)
  IN  [current    |-> BookValue,
       unrealized |-> ValueOpen(position, held, {}) -- BasisOf(position, held),
       realized   |-> LedgerSum(Realized, {"sell", "write_off"}),
       income     |-> LedgerSum(Gross, IncomeTypes),
       fees       |-> LedgerSum(Gross, StandaloneFees)]

TotalPnL ==
  (Summary.current ++ LedgerSum(Gross, {"withdrawal"})) -- LedgerSum(Gross, {"deposit"})

AttributedTotal == ((Summary.unrealized ++ Summary.realized) ++ Summary.income) -- Summary.fees

\* calculateEconomicPerformance calls the figure complete only then.
IsComplete ==
  \/ \A i \in DOMAIN position : position[i].status = "deleted"
  \/ \E i \in DOMAIN ledger : ledger[i].type = "buy"

-----------------------------------------------------------------------------
(* Properties *)

\* The rows, balances and ranked state are well formed and the version counts
\* the commits.
TypeOK ==
  /\ \A i \in DOMAIN position :
       /\ position[i].sym \in Symbols /\ IsRat(position[i].qty) /\ IsRat(position[i].avg)
       /\ position[i].status \in {"open", "closed", "deleted"}
  /\ IsRat(cash) /\ autoFund \in BOOLEAN
  /\ \A i \in DOMAIN ledger :
       /\ IsRat(ledger[i].gross) /\ IsRat(ledger[i].qty) /\ ledger[i].ep \in 0..Len(position)
       /\ ledger[i].of < i /\ ledger[i].at <= ledger[i].created
  /\ ranked = NoState \/ ValidateState(ranked)
  /\ version \in 1..(MaxCommits + 1) /\ trusted.at \in 0..version
  /\ price \in [Symbols -> Prices] /\ moves \in 0..MaxMoves

\* No sequence of income, fees, trades and corporate actions leaves a negative
\* balance, an open episode with nothing in it, or a cost basis below zero
\* (planReturnOfCapital floors it, planCorrectBuy recomputes it).
SolventBook ==
  /\ Zero \preceq cash
  /\ \A i \in OpenIds(position) : Positive(position[i].qty) /\ Zero \preceq position[i].avg

\* What an activity says about cash; a corrected trade says nothing any more.
CashEffectOf(a) ==
  CASE a.type \in {"deposit", "cash_dividend", "reinvested_dividend", "return_of_capital"} -> a.gross
    [] a.type \in {"withdrawal", "management_fee"} -> Zero -- a.gross
    [] a.type = "buy"  -> Zero -- (a.gross ++ a.fee)
    [] a.type = "sell" -> a.gross -- a.fee
    [] OTHER -> Zero

CashEffect(i) ==
  IF ledger[i].type \in {"buy", "sell"} /\ CorrectedAway(i) THEN Zero ELSE CashEffectOf(ledger[i])

\* The balance is what the immutable ledger adds up to: every handler that moves
\* cash records exactly what it moved, a corrected trade counting once, as
\* corrected (the legs a plan writes and its PutCashBalance are built apart).
CashMatchesLedger == cash = Total([i \in DOMAIN ledger |-> CashEffect(i)])

SaleCorrectedTwice(s) ==
  \E i \in DOMAIN ledger : ledger[i].type = "sell" /\ ledger[i].sym = s
                           /\ ledger[i].of # 0 /\ ledger[ledger[i].of].of # 0

\* The quantity EligibleQuantity reconstructs from the ledger for today is the
\* quantity the open positions hold, through sales, corrections, reinvestments,
\* stock dividends, splits and write-offs.  A sale corrected twice is left out:
\* planCorrectSell takes a closed episode's quantity for what was held before the
\* sale, which an earlier correction may have reduced.
HoldingsMatchLedger ==
  \A s \in Symbols : ~SaleCorrectedTwice(s) => EligibleQuantity(s, Now) = HeldNow(s)

\* The breakdown the Performance tab shows adds up to the ledger's own total:
\* realized + unrealized + income - standalone fees = value + withdrawals -
\* deposits, as ReconcilePortfolioFinancials demands; a return of capital beyond
\* the remaining basis and a corrected sale, whose original summarizeLedger still
\* counts, are the two cases it does not cover.
EconomicIdentity ==
  (/\ BookQuoted /\ IsComplete
   /\ \A i \in DOMAIN ledger :
        /\ ledger[i].type = "return_of_capital" => ledger[i].gross = ledger[i].basis
        /\ ledger[i].type = "sell" => ledger[i].of = 0)
  => TotalPnL = AttributedTotal

\* The value a commit is judged by: an unquoted holding, which only a write-off
\* admits, counts at cost.
PinnedValue ==
  ValueTracked(position, OpenIds(position), cash,
               {i \in OpenIds(position) : ~Quoted(position[i].sym)})

Reopened == \E i \in DOMAIN position : position[i].status = "closed" /\ position'[i].status = "open"

IndexFollows(old, new, after, ret) ==
  IF Positive(after) /\ Positive(after -- ret)
  THEN new ** (after -- ret) = old ** after
  ELSE new = IF after = Zero /\ ret \prec Zero THEN IndexFloor ELSE old

CommitMovesIndexByItsReturn ==
  \A before \in {PinnedValue} :
  \A after \in {IF audit'.inv THEN before ELSE PinnedValue'} :
  \A ret \in {CASE audit'.ret # Zero -> audit'.ret
                [] audit'.ret = Zero /\ audit'.effect = Return -> after -- before
                [] OTHER -> Zero} :
  \A old \in {IF ranked = NoState THEN Hundred
             ELSE CalculateIndexBeforeMutation(ranked, before, Positive(before))} :
  \A next \in {ranked'} : IndexFollows(old, CalculateCurrentIndex(next, after), after, ret)

\* The live ranked index before and after a commit differ by exactly the return
\* the commit bears: not at all for a neutral one (deposits, trades at the quote,
\* splits, strategy copies), by the fee alone for a purchase, by the whole change
\* of value for income, fees and write-offs; it is never charged twice and never
\* lost between the two chained checkpoints.  A book of no value carries its
\* checkpoint: writing off a holding without any cost basis left moves nothing.
IndexMovesByReturnOnly ==
  [][version' # version /\ ~Reopened => CommitMovesIndexByItsReturn]_vars

\* The same with the corrections that reopen a closed episode included.
IndexMovesByReturnOnlyAlways == [][version' # version => CommitMovesIndexByItsReturn]_vars

\* What the ledger said was held when a trusted snapshot was taken stays what the ledger reports for
\* that moment: validateCorrection refuses to rewrite anything before it.
SnapshotsStayTrue ==
  trusted.at > 0 => \A s \in Symbols : EligibleQuantity(s, trusted.at - 1) = trusted.held[s]

\* Only a purchase whose episode is still held is corrected: planCorrectBuy never
\* looks at the status, and recomputes cash and basis as if what the purchase
\* bought were there; that no sale, write-off or correction has closed the episode
\* since follows from validateCorrection alone.
PurchasesCorrectedWhileHeld ==
  [][version' # version /\ audit'.kind = "correct_buy"
       => position[ledger'[Len(ledger')].ep].status = "open"]_vars
=============================================================================
