------------------------ MODULE Competitions_proofs ------------------------
(***************************************************************************)
(* One edition, for any population, any batch sizes, schedules, providers  *)
(* and number of crashes.                                                  *)
(*                                                                         *)
(* A completed edition has settled its field, because finalization follows *)
(* a cursor: whoever of the field it has passed has a row, is disqualified *)
(* by name, or the generation remembers a failure.  A row once written     *)
(* stays good, because a stored observation is never overwritten: a later  *)
(* pass over the same entry finds the prices it was valued with.           *)
(***************************************************************************)
EXTENDS Competitions, Lemmas

(* Types *)

\* An entry is a record; what its columns hold is left open.
Shaped(e) ==
  /\ e = [status |-> e.status, basket |-> e.basket, joinedAt |-> e.joinedAt, start |-> e.start, facts |-> e.facts]
  /\ e.status \in EntryStatuses

\* A frozen basket holds instruments the edition may ask prices for.
Holds(basket) ==
  /\ basket = [held |-> basket.held, cash |-> basket.cash]
  /\ \A p \in basket.held : "instrument" \in DOMAIN p /\ p.instrument \in Instruments

EntryTypes ==
  /\ entries = [u \in Users |-> entries[u]]
  /\ \A u \in Users : Shaped(entries[u]) /\ Holds(entries[u].basket)
  /\ joining \in [Users -> SUBSET UNION {Portfolios[u] : u \in Users}]
  /\ \A u \in Users : joining[u] \subseteq Portfolios[u]

View == [price : [Instruments -> Nat], fx : Nat, sealed : BOOLEAN]

Pass == [at : {"idle", "capture", "value", "advance", "promote"}, batch : SUBSET Users, view : View,
         late : BOOLEAN, lap : BOOLEAN, failed : BOOLEAN, lost : BOOLEAN]

GenerationShape(gen) ==
  /\ gen = [cursor |-> gen.cursor, worked |-> gen.worked, failed |-> gen.failed, lost |-> gen.lost, rows |-> gen.rows]
  /\ gen.cursor \in Nat /\ gen.failed \in BOOLEAN /\ gen.lost \in BOOLEAN
  /\ gen.rows = [u \in DOMAIN gen.rows |-> gen.rows[u]] /\ DOMAIN gen.rows \subseteq Users

PassTypes ==
  /\ lifecycle \in Lifecycles
  /\ observed \in [start : View, end : View]
  /\ baseline \in [BaselineWorkers -> Pass] /\ finalizing \in Pass
  /\ GenerationShape(final) /\ field \in SUBSET Users

EditionTypes == EntryTypes /\ PassTypes

-----------------------------------------------------------------------------
(* Lemmas on the operators *)

\* Users are numbered from 1.
LEMMA UsersAreNumbers ==
  /\ \A u \in Users : u \in Nat /\ u > 0
  /\ \E n \in Nat : Users = 1..n
BY CompetitionAssumption, FS_CardinalityType

\* A change of status leaves the other columns alone.
LEMMA StatusSet ==
  ASSUME NEW e, Shaped(e), NEW x \in EntryStatuses, NEW f, f = [e EXCEPT !.status = x]
  PROVE  /\ Shaped(f) /\ f.status = x
         /\ f.basket = e.basket /\ f.start = e.start /\ f.facts = e.facts /\ f.joinedAt = e.joinedAt
<1>1. f = [status |-> x, basket |-> e.basket, joinedAt |-> e.joinedAt, start |-> e.start, facts |-> e.facts]
  BY DEF Shaped
<1>2. /\ f.status = x /\ f.basket = e.basket /\ f.start = e.start /\ f.facts = e.facts /\ f.joinedAt = e.joinedAt
  BY <1>1
<1>3. Shaped(f)
  BY <1>1, <1>2 DEF Shaped
<1> QED
  BY <1>2, <1>3

\* Split adjustment changes quantities, not what is held.
LEMMA AdjustedHolds ==
  ASSUME NEW u, Holds(entries[u].basket), NEW from, NEW through
  PROVE  Holds(adjustedEntryBasket(u, from, through))
<1> DEFINE b == entries[u].basket
           adj(p) == [p EXCEPT !.quantity = AdjustPosition(Splits, p, from, through)]
           a == adjustedEntryBasket(u, from, through)
<1>1. a = [b EXCEPT !.held = {adj(p) : p \in @}]
  BY DEF adjustedEntryBasket
<1>2. b = [held |-> b.held, cash |-> b.cash]
  BY DEF Holds
<1>3. a = [held |-> {adj(p) : p \in b.held}, cash |-> b.cash]
  <2> HIDE DEF adj, a, b
  <2> QED
    BY <1>1, <1>2
<1>4. \A p \in b.held : "instrument" \in DOMAIN adj(p) /\ adj(p).instrument = p.instrument
  BY DEF Holds
<1> HIDE DEF a, adj
<1>5. a = [held |-> a.held, cash |-> a.cash]
  BY <1>3
<1>6. \A q \in a.held : "instrument" \in DOMAIN q /\ q.instrument \in Instruments
  BY <1>3, <1>4 DEF Holds
<1> QED
  BY <1>5, <1>6 DEF Holds, a

\* A total reads the prices and the rate of what the basket holds, nothing else.
LEMMA TotalReadsItsPrices ==
  ASSUME NEW b, NEW v, NEW w, \A p \in b.held : toBase(p, v) = toBase(p, w)
  PROVE  total(b, v) = total(b, w)
<1> DEFINE first(s) == CHOOSE y \in s : TRUE
           left(f, s) == IF s = {} THEN Rat(b.cash) ELSE f[s \ {first(s)}] ++ toBase(first(s), v)
           right(f, s) == IF s = {} THEN Rat(b.cash) ELSE f[s \ {first(s)}] ++ toBase(first(s), w)
<1>1. \A f : \A s \in SUBSET b.held : left(f, s) = right(f, s)
  <2>1. \A s \in SUBSET b.held : s # {} => first(s) \in b.held
    OBVIOUS
  <2> QED
    BY <2>1
<1>2. \A f : [s \in SUBSET b.held |-> left(f, s)] = [s \in SUBSET b.held |-> right(f, s)]
  <2> HIDE DEF left, right
  <2> QED
    BY <1>1
<1>3. (CHOOSE f : f = [s \in SUBSET b.held |-> left(f, s)]) = (CHOOSE f : f = [s \in SUBSET b.held |-> right(f, s)])
  <2> HIDE DEF left, right
  <2> QED
    BY <1>2
<1>4. total(b, v) = (CHOOSE f : f = [s \in SUBSET b.held |-> left(f, s)])[b.held]
  BY DEF total, FoldSet, MapThenFoldSet
<1>5. total(b, w) = (CHOOSE f : f = [s \in SUBSET b.held |-> right(f, s)])[b.held]
  BY DEF total, FoldSet, MapThenFoldSet
<1> HIDE DEF left, right
<1> QED
  BY <1>3, <1>4, <1>5

-----------------------------------------------------------------------------
(* How an entry moves *)

Keeps(u) ==
  entries'[u].basket = entries[u].basket /\ entries'[u].start = entries[u].start /\ entries'[u].facts = entries[u].facts

\* A baseline pass has valued the entry with what it captured.
ValuedBy(w, e) ==
  /\ baseline[w].at = "value" /\ priced(e.basket, baseline[w].view)
  /\ e.start = total(e.basket, baseline[w].view)

\* An entry is created, leaves the admitted ones, is disqualified by the pass
\* that has it in hand, or is finalized with the results.
EntryMove(u) ==
  \/ entries'[u] = entries[u]
  \/ /\ entries[u].status = "none" /\ entries'[u].status = "admitted"
     /\ \E facts \in joining[u] : entries'[u].facts = {facts}
  \/ entries[u].status = "admitted" /\ entries'[u].status \in {"withdrawn", "baseline_failed"} /\ Keeps(u)
  \/ /\ entries[u].status = "admitted" /\ entries'[u].status = "active"
     /\ \E w \in BaselineWorkers : ValuedBy(w, entries'[u])
  \/ /\ finalizing.at = "value" /\ finalizing'.at = "advance" /\ u \in finalizing.batch
     /\ entries'[u].status = "disqualified" /\ Keeps(u)
  \/ /\ lifecycle = "finalizing" /\ finalizing.at = "promote" /\ finalizing'.at = "idle"
     /\ entries[u].status = "active" /\ entries'[u].status = "finalized" /\ Keeps(u)

Moved == EntryTypes' /\ \A u \in Users : EntryMove(u)

\* The columns that join.go writes.
JoinUntouched == entries' = entries /\ joining' = joining

\* A step that does not touch entries and joins.
LEMMA UntouchedMoved ==
  ASSUME EntryTypes, JoinUntouched
  PROVE  Moved
BY DEF EntryTypes, JoinUntouched, Moved, EntryMove

\* joinEdition only captures and admits.
LEMMA JoinMoved ==
  ASSUME EntryTypes, NEW u \in Users, NEW facts \in Portfolios[u], joinEdition(u, facts)
  PROVE  Moved
<1>1. entries' = entries /\ joining' = [joining EXCEPT ![u] = {facts}]
  BY DEF joinEdition
<1> QED
  BY <1>1 DEF EntryTypes, Moved, EntryMove

\* The insert takes the captured facts.
LEMMA CreateMoved ==
  ASSUME EntryTypes, NEW u \in Users, CreateEngineEntry(u)
  PROVE  Moved
<1>1. PICK facts \in joining[u] :
        entries' = [entries EXCEPT ![u] =
          [status |-> "admitted", basket |-> FrozenBasket(rules.scoring, facts),
           joinedAt |-> now, start |-> Zero, facts |-> {facts}]]
  BY DEF CreateEngineEntry
<1>2. entries[u].status = "none" /\ joining' = [joining EXCEPT ![u] = {}]
  BY DEF CreateEngineEntry
<1>3. entries'[u] = [status |-> "admitted", basket |-> FrozenBasket(rules.scoring, facts),
                     joinedAt |-> now, start |-> Zero, facts |-> {facts}]
  BY <1>1 DEF EntryTypes
<1>4. facts \in Portfolios[u]
  BY DEF EntryTypes
<1>5. Holds(FrozenBasket(rules.scoring, facts))
  BY <1>4, CompetitionAssumption DEF FrozenBasket, Holds
<1>6. Shaped(entries'[u]) /\ Holds(entries'[u].basket)
  BY <1>3, <1>5 DEF Shaped, EntryStatuses
<1>7. entries' = [v \in Users |-> entries'[v]] /\ \A v \in Users : v # u => entries'[v] = entries[v]
  BY <1>1 DEF EntryTypes
<1>8. EntryTypes'
  BY <1>2, <1>6, <1>7 DEF EntryTypes
<1>9. EntryMove(u)
  BY <1>2, <1>3 DEF EntryMove
<1> QED
  BY <1>7, <1>8, <1>9 DEF Moved, EntryMove

\* One entry's status changes.
LEMMA StatusMoved ==
  ASSUME EntryTypes, NEW u \in Users, NEW x \in EntryStatuses, joining' = joining,
         entries' = [entries EXCEPT ![u].status = x]
  PROVE  EntryTypes' /\ entries'[u].status = x /\ Keeps(u) /\ \A v \in Users : v # u => entries'[v] = entries[v]
<1>1. entries'[u] = [entries[u] EXCEPT !.status = x]
  BY DEF EntryTypes
<1>2. Shaped(entries[u]) /\ Holds(entries[u].basket)
  BY DEF EntryTypes
<1>3. /\ Shaped(entries'[u]) /\ entries'[u].status = x /\ entries'[u].basket = entries[u].basket
      /\ entries'[u].start = entries[u].start /\ entries'[u].facts = entries[u].facts
  BY <1>1, <1>2, StatusSet
<1>4. entries' = [v \in Users |-> entries'[v]] /\ \A v \in Users : v # u => entries'[v] = entries[v]
  BY DEF EntryTypes
<1>5. EntryTypes'
  BY <1>2, <1>3, <1>4 DEF EntryTypes
<1> QED
  BY <1>3, <1>4, <1>5 DEF Keeps

\* Withdraw is conditional on the admitted status.
LEMMA WithdrawMoved ==
  ASSUME EntryTypes, NEW u \in Users, Withdraw(u)
  PROVE  Moved
<1>1. entries[u].status = "admitted" /\ joining' = joining /\ entries' = [entries EXCEPT ![u].status = "withdrawn"]
  BY DEF Withdraw
<1>2. "withdrawn" \in EntryStatuses
  BY DEF EntryStatuses
<1> QED
  BY <1>1, <1>2, StatusMoved DEF Moved, EntryMove

\* CompleteBaseline writes the adjusted basket and its value.
LEMMA CompleteMoved ==
  ASSUME EntryTypes, NEW u \in Users, entries[u].status = "admitted", joining' = joining,
         NEW basket, NEW start, Holds(basket), entries' = CompleteBaseline(u, basket, start),
         NEW w \in BaselineWorkers, baseline[w].at = "value", priced(basket, baseline[w].view),
         start = total(basket, baseline[w].view)
  PROVE  Moved
<1> DEFINE e1 == [entries[u] EXCEPT !.status = "active"]
           e2 == [e1 EXCEPT !.basket = basket]
           e3 == [e2 EXCEPT !.start = start]
<1>1. entries' = [entries EXCEPT ![u].status = "active", ![u].basket = basket, ![u].start = start]
  BY DEF CompleteBaseline
<1>2. entries'[u] = e3 /\ entries' = [v \in Users |-> entries'[v]] /\ \A v \in Users : v # u => entries'[v] = entries[v]
  BY <1>1 DEF EntryTypes
<1>3. Shaped(entries[u])
  BY DEF EntryTypes
<1>4. e1 = [status |-> "active", basket |-> entries[u].basket, joinedAt |-> entries[u].joinedAt,
            start |-> entries[u].start, facts |-> entries[u].facts]
  BY <1>3 DEF Shaped
<1>5. e3 = [status |-> "active", basket |-> basket, joinedAt |-> entries[u].joinedAt,
            start |-> start, facts |-> entries[u].facts]
  <2> HIDE DEF e1
  <2>1. e2 = [status |-> "active", basket |-> basket, joinedAt |-> entries[u].joinedAt,
              start |-> entries[u].start, facts |-> entries[u].facts]
    BY <1>4
  <2> HIDE DEF e2
  <2> QED
    BY <2>1
<1> HIDE DEF e1, e2, e3
<1>6. Shaped(entries'[u]) /\ entries'[u].status = "active" /\ entries'[u].basket = basket /\ entries'[u].start = start
  BY <1>2, <1>5 DEF Shaped, EntryStatuses
<1>7. EntryTypes'
  BY <1>2, <1>6 DEF EntryTypes
<1>8. ValuedBy(w, entries'[u])
  BY <1>6 DEF ValuedBy
<1> QED
  BY <1>2, <1>6, <1>7, <1>8 DEF Moved, EntryMove

\* A set of entries changes status at once.
LEMMA StatusesMoved ==
  ASSUME EntryTypes, NEW S, NEW x \in EntryStatuses, joining' = joining,
         entries' = [u \in Users |-> IF u \in S THEN [entries[u] EXCEPT !.status = x] ELSE entries[u]]
  PROVE  /\ EntryTypes'
         /\ \A u \in Users : IF u \in S THEN entries'[u].status = x /\ Keeps(u) ELSE entries'[u] = entries[u]
<1>1. ASSUME NEW u \in Users
      PROVE  /\ Shaped(entries'[u]) /\ Holds(entries'[u].basket)
             /\ IF u \in S THEN entries'[u].status = x /\ Keeps(u) ELSE entries'[u] = entries[u]
  <2>1. CASE u \in S
    <3>1. entries'[u] = [entries[u] EXCEPT !.status = x]
      BY <2>1
    <3>2. Shaped(entries[u]) /\ Holds(entries[u].basket)
      BY DEF EntryTypes
    <3>3. /\ Shaped(entries'[u]) /\ entries'[u].status = x /\ entries'[u].basket = entries[u].basket
          /\ entries'[u].start = entries[u].start /\ entries'[u].facts = entries[u].facts
      BY <3>1, <3>2, StatusSet
    <3> QED
      BY <2>1, <3>2, <3>3 DEF Keeps
  <2>2. CASE u \notin S
    BY <2>2 DEF EntryTypes
  <2> QED
    BY <2>1, <2>2
<1>2. entries' = [u \in Users |-> entries'[u]]
  OBVIOUS
<1> QED
  BY <1>1, <1>2 DEF EntryTypes

\* Only entries of the batch in hand are disqualified.
LEMMA ValueMoved ==
  ASSUME EditionTypes, NEW lost, valueFinalizationBatch(lost)
  PROVE  Moved
<1> DEFINE basket == [u \in finalizing.batch |-> adjustedEntryBasket(u, StartsAt, EndsAt)]
           valued == {u \in finalizing.batch : priced(basket[u], finalizing.view)}
           out    == IF finalizing.late THEN finalizing.batch \ valued ELSE {}
<1>1. /\ finalizing.at = "value" /\ finalizing'.at = "advance" /\ joining' = joining
      /\ entries' = [u \in Users |-> IF u \in out THEN [entries[u] EXCEPT !.status = "disqualified"] ELSE entries[u]]
  BY DEF valueFinalizationBatch, EditionTypes, PassTypes, Pass
<1>2. \A u \in out : u \in finalizing.batch
  OBVIOUS
<1>3. "disqualified" \in EntryStatuses
  BY DEF EntryStatuses
<1> HIDE DEF out
<1>4. /\ EntryTypes'
      /\ \A u \in Users : IF u \in out THEN entries'[u].status = "disqualified" /\ Keeps(u) ELSE entries'[u] = entries[u]
  BY <1>1, <1>3, StatusesMoved DEF EditionTypes
<1> QED
  BY <1>1, <1>2, <1>4 DEF Moved, EntryMove

\* The results finalize active entries with a row.
LEMMA PromoteMoved ==
  ASSUME EntryTypes, PromoteFinalizationGeneration
  PROVE  Moved
<1>1. CASE lifecycle = "finalizing"
  <2> DEFINE S == {u \in Users : u \in DOMAIN final.rows /\ entries[u].status = "active"}
  <2>1. /\ finalizing.at = "promote" /\ finalizing'.at = "idle" /\ joining' = joining
        /\ entries' = [u \in Users |-> IF u \in S THEN [entries[u] EXCEPT !.status = "finalized"] ELSE entries[u]]
    BY <1>1 DEF PromoteFinalizationGeneration, NoPass
  <2>2. \A u \in S : entries[u].status = "active"
    OBVIOUS
  <2>3. "finalized" \in EntryStatuses
    BY DEF EntryStatuses
  <2> HIDE DEF S
  <2>4. /\ EntryTypes'
        /\ \A u \in Users : IF u \in S THEN entries'[u].status = "finalized" /\ Keeps(u) ELSE entries'[u] = entries[u]
    BY <2>1, <2>3, StatusesMoved
  <2> QED
    BY <1>1, <2>1, <2>2, <2>4 DEF Moved, EntryMove
<1>2. CASE lifecycle # "finalizing"
  BY <1>2, UntouchedMoved DEF PromoteFinalizationGeneration, JoinUntouched
<1> QED
  BY <1>1, <1>2

\* A baseline pass settles an entry that is still admitted, or leaves it.
LEMMA BaselineMoved ==
  ASSUME EntryTypes, NEW w \in BaselineWorkers, NEW u \in Users, baselineEntry(w, u)
  PROVE  Moved
<1> DEFINE basket == adjustedEntryBasket(u, entries[u].joinedAt, StartsAt)
           view   == baseline[w].view
<1>1. /\ joining' = joining /\ baseline[w].at = "value"
      /\ \/ priced(basket, view) /\ entries' = CompleteBaseline(u, basket, total(basket, view))
         \/ entries' = FailBaseline(u)
         \/ entries' = entries
  BY DEF baselineEntry
<1>2. Holds(basket)
  BY AdjustedHolds DEF EntryTypes
<1> HIDE DEF basket
<1>3. CASE /\ entries[u].status = "admitted" /\ priced(basket, view)
           /\ entries' = CompleteBaseline(u, basket, total(basket, view))
  BY <1>1, <1>2, <1>3, CompleteMoved
<1>4. CASE entries[u].status = "admitted" /\ entries' = FailBaseline(u)
  <2>1. entries' = [entries EXCEPT ![u].status = "baseline_failed"]
    BY <1>4 DEF FailBaseline
  <2>2. "baseline_failed" \in EntryStatuses
    BY DEF EntryStatuses
  <2> QED
    BY <1>1, <1>4, <2>1, <2>2, StatusMoved DEF Moved, EntryMove
<1>5. CASE entries' = entries
  BY <1>1, <1>5, UntouchedMoved DEF JoinUntouched
<1> QED
  BY <1>1, <1>3, <1>4, <1>5 DEF CompleteBaseline, FailBaseline

\* Every step moves entries in these ways only.
LEMMA EntriesMove ==
  ASSUME EditionTypes, [Next]_vars
  PROVE  Moved
<1> USE DEF EditionTypes
<1>1. CASE UNCHANGED vars
  BY <1>1, UntouchedMoved DEF vars, entryVars, JoinUntouched
<1>2. CASE \E doc \in Documents : CreateVersion(doc)
  BY <1>2, UntouchedMoved DEF CreateVersion, entryVars, JoinUntouched
<1>3. CASE \E v \in 1..MaxVersions : CreateEdition(v)
  BY <1>3, UntouchedMoved DEF CreateEdition, entryVars, JoinUntouched
<1>4. CASE Publish \/ Cancel \/ AdvanceCompetitionLifecycles
  BY <1>4, UntouchedMoved DEF Publish, Cancel, AdvanceCompetitionLifecycles, TransitionLifecycle, entryVars, JoinUntouched
<1>5. CASE Tick
  BY <1>5, UntouchedMoved DEF Tick, entryVars, JoinUntouched
<1>6. ASSUME NEW u \in Users, (\E facts \in Portfolios[u] : joinEdition(u, facts)) \/ CreateEngineEntry(u) \/ Withdraw(u)
      PROVE  Moved
  BY <1>6, JoinMoved, CreateMoved, WithdrawMoved
<1>7. ASSUME NEW u \in Users, DeleteAccount(u)
      PROVE  Moved
  BY <1>7, UntouchedMoved DEF DeleteAccount, entryVars, JoinUntouched
<1>8. ASSUME NEW w \in BaselineWorkers, ListPendingBaselineEntries(w) \/ captureStart(w)
      PROVE  Moved
  BY <1>8, UntouchedMoved DEF ListPendingBaselineEntries, captureStart, entryVars, JoinUntouched
<1>9. ASSUME NEW w \in BaselineWorkers, NEW u \in Users, baselineEntry(w, u)
      PROVE  Moved
  BY <1>9, BaselineMoved
<1>10. CASE claimFinalizationBatch \/ captureEnd \/ advanceFinalization
  BY <1>10, UntouchedMoved DEF claimFinalizationBatch, captureEnd, advanceFinalization, entryVars, JoinUntouched
<1>11. CASE valueFinalizationBatch(FALSE) \/ valueFinalizationBatch(TRUE)
  BY <1>11, ValueMoved
<1>12. CASE PromoteFinalizationGeneration
  BY <1>12, PromoteMoved
<1>13. CASE Crash
  <2>1. entries' = entries /\ joining' = [u \in Users |-> {}]
    BY <1>13 DEF Crash
  <2> QED
    BY <2>1 DEF EntryTypes, Moved, EntryMove
<1> QED
  BY <1>1, <1>2, <1>3, <1>4, <1>5, <1>6, <1>7, <1>8, <1>9, <1>10, <1>11, <1>12, <1>13
     DEF Next, RunCompetitionBaselines, FinalizeCompetitions

-----------------------------------------------------------------------------
(* The lifecycle *)

LifecycleMove ==
  \/ lifecycle' = lifecycle
  \/ lifecycle = "none" /\ lifecycle' = "draft"
  \/ lifecycle' \in lifecycleTransitions[lifecycle] /\ lifecycle' \in Lifecycles

\* Only the table of transitions, the creation and the results move an edition.
LEMMA LifecycleMoves ==
  ASSUME lifecycle \in Lifecycles, [Next]_vars
  PROVE  LifecycleMove
<1>1. ASSUME NEW from, NEW to, TransitionLifecycle(from, to)
      PROVE  LifecycleMove
  <2>1. lifecycle = from /\ to \in lifecycleTransitions[from] /\ lifecycle' = to
    BY <1>1 DEF TransitionLifecycle
  <2>2. \A x \in lifecycleTransitions[lifecycle] : x \in Lifecycles
    BY DEF lifecycleTransitions, Lifecycles
  <2> QED
    BY <2>1, <2>2 DEF LifecycleMove
<1>2. CASE Publish \/ Cancel \/ AdvanceCompetitionLifecycles
  BY <1>1, <1>2 DEF Publish, Cancel, AdvanceCompetitionLifecycles
<1>3. CASE PromoteFinalizationGeneration
  <2>1. lifecycle' = lifecycle \/ (lifecycle = "finalizing" /\ lifecycle' = "completed")
    BY <1>3 DEF PromoteFinalizationGeneration
  <2> QED
    BY <2>1 DEF LifecycleMove, lifecycleTransitions, Lifecycles
<1>4. CASE \E v \in 1..MaxVersions : CreateEdition(v)
  BY <1>4 DEF CreateEdition, LifecycleMove
<1>5. CASE lifecycle' = lifecycle
  BY <1>5 DEF LifecycleMove
<1> QED
  BY <1>2, <1>3, <1>4, <1>5 DEF Next, vars, CreateVersion, Tick, joinEdition, CreateEngineEntry, Withdraw, DeleteAccount,
     RunCompetitionBaselines, ListPendingBaselineEntries, captureStart, baselineEntry, FinalizeCompetitions,
     claimFinalizationBatch, captureEnd, valueFinalizationBatch, advanceFinalization, Crash

\* The rules are a validated snapshot taken when the edition is created.
LEMMA RulesAreFixed ==
  ASSUME [Next]_vars
  PROVE  rules' = rules \/ (lifecycle = "none" /\ ValidateRules(rules') /\ UNCHANGED entryVars)
<1>1. CASE \E v \in 1..MaxVersions : CreateEdition(v)
  BY <1>1 DEF CreateEdition
<1>2. CASE UNCHANGED rules
  BY <1>2
<1> QED
  BY <1>1, <1>2 DEF Next, vars, catalogVars, CreateVersion, Publish, Cancel, AdvanceCompetitionLifecycles, TransitionLifecycle,
     Tick, joinEdition, CreateEngineEntry, Withdraw, DeleteAccount,
     RunCompetitionBaselines, ListPendingBaselineEntries, captureStart, baselineEntry, FinalizeCompetitions,
     claimFinalizationBatch, captureEnd, valueFinalizationBatch, advanceFinalization, PromoteFinalizationGeneration, Crash

\* What a join holds in hand, it has just admitted.
LEMMA JoinsMove ==
  ASSUME EntryTypes, [Next]_vars, NEW u \in Users, NEW facts \in joining'[u]
  PROVE  facts \in joining[u] \/ (joinWindowOpen /\ Evaluate(rules.eligibility, facts) /\ facts \in Portfolios[u])
<1>1. ASSUME NEW v \in Users, NEW f \in Portfolios[v], joinEdition(v, f)
      PROVE  facts \in joining[u] \/ (joinWindowOpen /\ Evaluate(rules.eligibility, facts) /\ facts \in Portfolios[u])
  BY <1>1 DEF joinEdition, EntryTypes
<1>2. ASSUME NEW v \in Users, CreateEngineEntry(v)
      PROVE  facts \in joining[u]
  BY <1>2 DEF CreateEngineEntry, EntryTypes
<1>3. CASE Crash
  BY <1>3 DEF Crash
<1>4. CASE joining' = joining
  BY <1>4
<1> QED
  BY <1>1, <1>2, <1>3, <1>4 DEF Next, vars, entryVars, CreateVersion, CreateEdition, Publish, Cancel, AdvanceCompetitionLifecycles,
     TransitionLifecycle, Tick, Withdraw, DeleteAccount,
     RunCompetitionBaselines, ListPendingBaselineEntries, captureStart, baselineEntry, FinalizeCompetitions,
     claimFinalizationBatch, captureEnd, valueFinalizationBatch, advanceFinalization, PromoteFinalizationGeneration

-----------------------------------------------------------------------------
(* The types hold *)

\* Nothing pending, nothing captured.
LEMMA BlankTyped == NoView \in View /\ NoPass \in Pass /\ GenerationShape(NewGeneration)
<1>1. NoView \in View
  BY DEF NoView, View
<1>2. NoPass \in Pass
  BY <1>1 DEF NoPass, Pass
<1>3. GenerationShape(NewGeneration)
  BY DEF NewGeneration, NoRows, GenerationShape
<1> QED
  BY <1>1, <1>2, <1>3

\* Prices and rates are numbers.
LEMMA CaptureTyped ==
  ASSUME NEW view \in View, NEW batch, NEW answer \in Answers
  PROVE  capture(view, batch, answer) \in View
<1> DEFINE new == {i \in entrySymbolsAndPairs(batch) : view.price[i] = 0 /\ answer.price[i] # 0}
           price == [i \in Instruments |-> IF i \in new THEN answer.price[i] ELSE view.price[i]]
           fx == IF new \cap Foreign # {} /\ view.fx = 0 THEN answer.fx ELSE view.fx
<1>1. \A i \in Instruments : answer.price[i] \in Nat
  BY CompetitionAssumption DEF Answers
<1>2. price \in [Instruments -> Nat]
  BY <1>1 DEF View
<1>3. fx \in Nat
  BY CompetitionAssumption DEF Answers, View
<1>4. capture(view, batch, answer) = [[view EXCEPT !.price = price] EXCEPT !.fx = fx]
  BY DEF capture
<1> HIDE DEF price, fx
<1> QED
  BY <1>2, <1>3, <1>4 DEF View

\* So are the stored ones.
LEMMA RecordTyped ==
  ASSUME NEW set \in View, NEW view \in View, NEW seal \in BOOLEAN
  PROVE  RecordObservations(set, view, seal) \in View
BY DEF RecordObservations, View

\* Sealing is a yes or a no.
LEMMA SealTyped == \A old, new, batch, last : last \in BOOLEAN => sealsSet(old, new, batch, last) \in BOOLEAN
BY DEF sealsSet

\* A baseline pass.
LEMMA BaselineTyped ==
  ASSUME EditionTypes, NEW w \in BaselineWorkers, RunCompetitionBaselines(w)
  PROVE  baseline' \in [BaselineWorkers -> Pass] /\ observed' \in [start : View, end : View]
<1>1. baseline \in [BaselineWorkers -> Pass] /\ observed \in [start : View, end : View]
  BY DEF EditionTypes, PassTypes
<1>2. CASE ListPendingBaselineEntries(w)
  <2>1. PICK batch \in SUBSET Admitted :
          baseline' = [baseline EXCEPT ![w] =
            [NoPass EXCEPT !.at = IF observed.start.sealed THEN "value" ELSE "capture",
                           !.batch = batch, !.view = observed.start,
                           !.late = now > StartsAt + BaselineWindow,
                           !.lap = Cardinality(batch) < BaselineBatch]]
    BY <1>2 DEF ListPendingBaselineEntries
  <2> DEFINE at == IF observed.start.sealed THEN "value" ELSE "capture"
             late == now > StartsAt + BaselineWindow
             lap == Cardinality(batch) < BaselineBatch
             listed == [NoPass EXCEPT !.at = at, !.batch = batch, !.view = observed.start, !.late = late, !.lap = lap]
  <2>2. at \in {"capture", "value"} /\ batch \in SUBSET Users /\ observed.start \in View /\ late \in BOOLEAN /\ lap \in BOOLEAN
    BY <1>1 DEF Admitted
  <2>3. baseline' = [baseline EXCEPT ![w] = listed]
    BY <2>1
  <2>4. listed \in Pass
    <3> HIDE DEF at, late, lap, listed
    <3>1. listed = [NoPass EXCEPT !.at = at, !.batch = batch, !.view = observed.start, !.late = late, !.lap = lap]
      BY DEF listed
    <3> QED
      BY <2>2, <3>1, BlankTyped DEF Pass, NoPass
  <2>5. observed' = observed
    BY <1>2 DEF ListPendingBaselineEntries
  <2> HIDE DEF listed
  <2> QED
    BY <1>1, <2>3, <2>4, <2>5
<1>3. CASE captureStart(w)
  <2>1. PICK answer \in Answers :
          LET old == baseline[w].view
              new == capture(old, baseline[w].batch, answer)
          IN  /\ observed' = [observed EXCEPT !.start =
                   RecordObservations(@, new, sealsSet(old, new, baseline[w].batch, baseline[w].lap))]
              /\ baseline' = [baseline EXCEPT ![w].at = "value", ![w].view = new]
    BY <1>3 DEF captureStart
  <2> DEFINE new == capture(baseline[w].view, baseline[w].batch, answer)
             seal == sealsSet(baseline[w].view, new, baseline[w].batch, baseline[w].lap)
             set == RecordObservations(observed.start, new, seal)
  <2>2. baseline[w] \in Pass /\ baseline[w].view \in View /\ baseline[w].lap \in BOOLEAN
    BY <1>1 DEF Pass
  <2>3. new \in View /\ seal \in BOOLEAN
    BY <2>2, CaptureTyped, SealTyped
  <2>4. set \in View
    BY <1>1, <2>3, RecordTyped
  <2>5. observed' = [observed EXCEPT !.start = set]
        /\ baseline' = [baseline EXCEPT ![w] = [[baseline[w] EXCEPT !.at = "value"] EXCEPT !.view = new]]
    BY <1>1, <2>1
  <2> HIDE DEF new, set
  <2>6. [[baseline[w] EXCEPT !.at = "value"] EXCEPT !.view = new] \in Pass
    BY <2>2, <2>3 DEF Pass
  <2> QED
    BY <1>1, <2>4, <2>5, <2>6
<1>4. ASSUME NEW u \in Users, baselineEntry(w, u)
      PROVE  baseline' \in [BaselineWorkers -> Pass] /\ observed' \in [start : View, end : View]
  <2>1. observed' = observed
        /\ baseline' = IF baseline[w].batch = {u} THEN [baseline EXCEPT ![w] = NoPass] ELSE [baseline EXCEPT ![w].batch = @ \ {u}]
    BY <1>4 DEF baselineEntry
  <2>2. CASE baseline[w].batch = {u}
    BY <1>1, <2>1, <2>2, BlankTyped
  <2>3. CASE baseline[w].batch # {u}
    <3>1. [baseline[w] EXCEPT !.batch = @ \ {u}] \in Pass
      BY <1>1 DEF Pass
    <3> QED
      BY <1>1, <2>1, <2>3, <3>1
  <2> QED
    BY <2>2, <2>3
<1> QED
  BY <1>2, <1>3, <1>4 DEF RunCompetitionBaselines

\* The batch is claimed with a copy of the stored end observations.
LEMMA ClaimStep ==
  ASSUME EditionTypes, claimFinalizationBatch
  PROVE  /\ finalizing' \in Pass
         /\ finalizing'.batch = ClaimEntriesForFinalization(final.cursor, FinalizationBatch)
         /\ finalizing'.view = observed.end
         /\ finalizing'.at = IF observed.end.sealed THEN "value" ELSE "capture"
         /\ finalizing'.lap <=> Cardinality(finalizing'.batch) < FinalizationBatch
<1> DEFINE batch == ClaimEntriesForFinalization(final.cursor, FinalizationBatch)
           at == IF observed.end.sealed THEN "value" ELSE "capture"
           lap == Cardinality(batch) < FinalizationBatch
           late == finalizationOverdue
           listed == [NoPass EXCEPT !.at = at, !.batch = batch, !.view = observed.end, !.late = late, !.lap = lap]
<1>1. finalizing' = listed
  BY DEF claimFinalizationBatch
<1>2. batch \in SUBSET Users
  BY DEF ClaimEntriesForFinalization, Active
<1>3. at \in {"capture", "value"} /\ observed.end \in View /\ late \in BOOLEAN /\ lap \in BOOLEAN
  BY DEF EditionTypes, PassTypes, finalizationOverdue
<1>4. /\ listed \in Pass /\ listed.batch = batch /\ listed.view = observed.end /\ listed.at = at /\ listed.lap = lap
  <2> HIDE DEF at, late, lap, batch, listed
  <2>1. listed = [NoPass EXCEPT !.at = at, !.batch = batch, !.view = observed.end, !.late = late, !.lap = lap]
    BY DEF listed
  <2> QED
    BY <1>2, <1>3, <2>1, BlankTyped DEF NoPass, Pass
<1> HIDE DEF listed
<1> QED
  BY <1>1, <1>4

\* What is captured is recorded next to what was stored.
LEMMA CaptureStep ==
  ASSUME EditionTypes, captureEnd
  PROVE  /\ finalizing' \in Pass /\ observed' \in [start : View, end : View]
         /\ finalizing'.at = "value" /\ finalizing'.batch = finalizing.batch /\ finalizing'.lap = finalizing.lap
         /\ observed'.start = observed.start
         /\ \E answer \in Answers, seal \in BOOLEAN :
              /\ finalizing'.view = capture(finalizing.view, finalizing.batch, answer)
              /\ observed'.end = RecordObservations(observed.end, finalizing'.view, seal)
<1>1. finalizing \in Pass /\ observed \in [start : View, end : View]
  BY DEF EditionTypes, PassTypes
<1>2. PICK answer \in Answers :
        LET old == finalizing.view
            new == capture(old, finalizing.batch, answer)
        IN  /\ observed' = [observed EXCEPT !.end =
                 RecordObservations(@, new, sealsSet(old, new, finalizing.batch, finalizing.lap))]
            /\ finalizing' = [finalizing EXCEPT !.at = "value", !.view = new]
  BY DEF captureEnd
<1> DEFINE new == capture(finalizing.view, finalizing.batch, answer)
           seal == sealsSet(finalizing.view, new, finalizing.batch, finalizing.lap)
           set == RecordObservations(observed.end, new, seal)
<1>3. finalizing.view \in View /\ finalizing.lap \in BOOLEAN
  BY <1>1 DEF Pass
<1>4. new \in View /\ seal \in BOOLEAN
  BY <1>3, CaptureTyped, SealTyped
<1>5. set \in View
  BY <1>1, <1>4, RecordTyped
<1>6. /\ observed' = [observed EXCEPT !.end = set]
      /\ finalizing' = [[finalizing EXCEPT !.at = "value"] EXCEPT !.view = new]
  BY <1>2
<1>7. /\ observed' \in [start : View, end : View] /\ observed'.end = set /\ observed'.start = observed.start
  <2> HIDE DEF set
  <2> QED
    BY <1>1, <1>5, <1>6
<1>8. /\ finalizing' \in Pass /\ finalizing'.at = "value" /\ finalizing'.view = new
      /\ finalizing'.batch = finalizing.batch /\ finalizing'.lap = finalizing.lap
  <2> HIDE DEF new
  <2> QED
    BY <1>1, <1>4, <1>6 DEF Pass
<1> HIDE DEF seal
<1> QED
  BY <1>4, <1>7, <1>8

\* The basket an entry is finalized with.
EndBasket(u) == adjustedEntryBasket(u, StartsAt, EndsAt)

Valued == {u \in finalizing.batch : priced(EndBasket(u), finalizing.view)}

\* The rows of what has prices, unless the write is lost; what has none is out
\* once the window is over.
LEMMA ValueStep ==
  ASSUME EditionTypes, NEW lost \in BOOLEAN, valueFinalizationBatch(lost)
  PROVE  /\ finalizing' \in Pass /\ GenerationShape(final')
         /\ finalizing'.at = "advance" /\ finalizing'.batch = finalizing.batch /\ finalizing'.lap = finalizing.lap
         /\ finalizing'.lost = lost
         /\ \A u \in Users : IF finalizing.late /\ u \in finalizing.batch \ Valued
                             THEN entries'[u].status = "disqualified" /\ Keeps(u) ELSE entries'[u] = entries[u]
         /\ ~finalizing'.failed => \A u \in finalizing.batch \ Valued : entries'[u].status = "disqualified"
         /\ final'.cursor = final.cursor /\ final'.failed = final.failed /\ final'.lost = final.lost
         /\ lost => final' = final
         /\ ~lost => /\ DOMAIN final'.rows = DOMAIN final.rows \cup Valued
                     /\ \A u \in Valued : final'.rows[u] = returnOf(u, EndBasket(u), finalizing.view)
                     /\ \A u \in DOMAIN final.rows \ Valued : final'.rows[u] = final.rows[u]
<1> DEFINE basket == [u \in finalizing.batch |-> adjustedEntryBasket(u, StartsAt, EndsAt)]
           valued == {u \in finalizing.batch : priced(basket[u], finalizing.view)}
           out    == IF finalizing.late THEN finalizing.batch \ valued ELSE {}
           new    == [u \in valued |-> returnOf(u, basket[u], finalizing.view)]
           failed == (finalizing.batch \ valued) # out
<1>1. finalizing \in Pass /\ GenerationShape(final) /\ finalizing.batch \subseteq Users
  BY DEF EditionTypes, PassTypes, Pass
<1>2. /\ entries' = [u \in Users |-> IF u \in out THEN [entries[u] EXCEPT !.status = "disqualified"] ELSE entries[u]]
      /\ final' = IF lost THEN final ELSE [final EXCEPT !.rows = UpsertRows(@, new)]
      /\ finalizing' = [finalizing EXCEPT !.at = "advance", !.lost = lost, !.failed = failed]
      /\ joining' = joining
  BY DEF valueFinalizationBatch
<1>3. valued = Valued
  BY DEF Valued, EndBasket
<1>4. \A u \in valued : new[u] = returnOf(u, EndBasket(u), finalizing.view)
  BY DEF EndBasket
<1>5. out = IF finalizing.late THEN finalizing.batch \ Valued ELSE {}
  BY <1>3
<1>6. DOMAIN new = Valued
  BY <1>3
<1>7. failed \in BOOLEAN /\ (~failed => out = finalizing.batch \ Valued)
  BY <1>3
<1> HIDE DEF valued, out, new, failed
<1>8. /\ finalizing' \in Pass /\ finalizing'.at = "advance" /\ finalizing'.lost = lost /\ finalizing'.failed = failed
      /\ finalizing'.batch = finalizing.batch /\ finalizing'.lap = finalizing.lap
  BY <1>1, <1>2, <1>7 DEF Pass
<1>9. \A u \in Users : IF u \in out THEN entries'[u].status = "disqualified" /\ Keeps(u) ELSE entries'[u] = entries[u]
  <2>1. "disqualified" \in EntryStatuses
    BY DEF EntryStatuses
  <2> QED
    BY <1>2, <2>1, StatusesMoved DEF EditionTypes
<1>10. /\ GenerationShape(final')
       /\ final'.cursor = final.cursor /\ final'.failed = final.failed /\ final'.lost = final.lost
       /\ lost => final' = final
       /\ ~lost => final'.rows = UpsertRows(final.rows, new)
  <2>1. CASE lost
    BY <1>1, <1>2, <2>1
  <2>2. CASE ~lost
    <3> DEFINE rows == UpsertRows(final.rows, new)
    <3>1. rows = [u \in DOMAIN rows |-> rows[u]] /\ DOMAIN rows \subseteq Users
      BY <1>1, <1>3, <1>6 DEF UpsertRows, GenerationShape, Valued
    <3>2. final' = [final EXCEPT !.rows = rows]
      BY <1>2, <2>2
    <3> HIDE DEF rows
    <3>3. final' = [cursor |-> final.cursor, worked |-> final.worked, failed |-> final.failed, lost |-> final.lost, rows |-> rows]
      BY <1>1, <3>2 DEF GenerationShape
    <3>4. GenerationShape(final')
      BY <1>1, <3>1, <3>3 DEF GenerationShape
    <3> QED
      BY <2>2, <3>3, <3>4 DEF rows
  <2> QED
    BY <2>1, <2>2
<1>11. ~lost => /\ DOMAIN final'.rows = DOMAIN final.rows \cup Valued
                /\ \A u \in Valued : final'.rows[u] = returnOf(u, EndBasket(u), finalizing.view)
                /\ \A u \in DOMAIN final.rows \ Valued : final'.rows[u] = final.rows[u]
  BY <1>3, <1>4, <1>6, <1>10 DEF UpsertRows
<1>12. ~finalizing'.failed => \A u \in finalizing.batch \ Valued : entries'[u].status = "disqualified"
  BY <1>1, <1>7, <1>8, <1>9
<1> QED
  BY <1>5, <1>8, <1>9, <1>10, <1>11, <1>12

\* The cursor moves to the end of the batch; the end of a lap promotes, or starts
\* over when anything of the generation failed.
LEMMA AdvanceStep ==
  ASSUME EditionTypes, advanceFinalization
  PROVE  /\ finalizing' \in Pass /\ GenerationShape(final')
         /\ \/ final' = NewGeneration /\ finalizing' = NoPass
            \/ /\ final'.rows = final.rows
               /\ final'.failed <=> final.failed \/ finalizing.failed
               /\ final'.lost <=> final.lost \/ finalizing.lost
               /\ IF finalizing.lap
                  THEN finalizing'.at = "promote" /\ ~final'.failed /\ ~final'.lost
                  ELSE /\ finalizing'.at = "idle"
                       /\ final'.cursor = IF finalizing.batch = {} THEN final.cursor ELSE Max(finalizing.batch)
<1> DEFINE cursor == IF finalizing.lap THEN 0 ELSE IF finalizing.batch = {} THEN final.cursor ELSE Max(finalizing.batch)
           worked == final.worked \/ finalizing.batch # {}
           failed == final.failed \/ finalizing.failed
           lost   == final.lost \/ finalizing.lost
           gen == AdvanceGeneration(final, finalizing)
           g == [cursor |-> cursor, worked |-> worked, failed |-> failed, lost |-> lost, rows |-> final.rows]
<1>1. finalizing \in Pass /\ GenerationShape(final)
  BY DEF EditionTypes, PassTypes
<1>2. gen = g
  <2>1. gen = [final EXCEPT !.cursor = cursor, !.worked = worked, !.failed = failed, !.lost = lost]
    BY DEF AdvanceGeneration
  <2> HIDE DEF cursor, worked, failed, lost, gen
  <2> DEFINE g1 == [final EXCEPT !.cursor = cursor]
             g2 == [g1 EXCEPT !.worked = worked]
             g3 == [g2 EXCEPT !.failed = failed]
             g4 == [g3 EXCEPT !.lost = lost]
  <2>2. gen = g4
    BY <2>1
  <2>3. g1 = [cursor |-> cursor, worked |-> final.worked, failed |-> final.failed, lost |-> final.lost, rows |-> final.rows]
    BY <1>1 DEF GenerationShape
  <2> HIDE DEF g1
  <2>4. g2 = [cursor |-> cursor, worked |-> worked, failed |-> final.failed, lost |-> final.lost, rows |-> final.rows]
    BY <2>3
  <2> HIDE DEF g2
  <2>5. g3 = [cursor |-> cursor, worked |-> worked, failed |-> failed, lost |-> final.lost, rows |-> final.rows]
    BY <2>4
  <2> HIDE DEF g3
  <2> QED
    BY <2>2, <2>5
<1>3. cursor \in Nat
  <2>1. PICK n \in Nat : Users = 1..n
    BY UsersAreNumbers
  <2>2. finalizing.batch # {} => Max(finalizing.batch) \in Nat
    <3>1. finalizing.batch # {} => Max(finalizing.batch) \in finalizing.batch
      BY <1>1, <2>1, GreatestNumber DEF Pass
    <3> QED
      BY <1>1, <3>1, UsersAreNumbers DEF Pass
  <2> QED
    BY <1>1, <2>2 DEF GenerationShape
<1>4. failed \in BOOLEAN /\ lost \in BOOLEAN
  BY <1>1 DEF GenerationShape, Pass
<1>5. /\ final' = IF finalizing.lap /\ (gen.failed \/ gen.lost) THEN NewGeneration ELSE gen
      /\ finalizing' = IF finalizing.lap /\ ~gen.failed /\ ~gen.lost THEN [NoPass EXCEPT !.at = "promote"] ELSE NoPass
  BY DEF advanceFinalization
<1>6. [NoPass EXCEPT !.at = "promote"] \in Pass /\ [NoPass EXCEPT !.at = "promote"].at = "promote" /\ NoPass.at = "idle"
  BY BlankTyped DEF NoPass, Pass
<1>7. GenerationShape(g)
  <2> HIDE DEF cursor, worked, failed, lost
  <2> QED
    BY <1>1, <1>3, <1>4 DEF GenerationShape
<1>8. /\ final' = IF finalizing.lap /\ (failed \/ lost) THEN NewGeneration ELSE g
      /\ finalizing' = IF finalizing.lap /\ ~failed /\ ~lost THEN [NoPass EXCEPT !.at = "promote"] ELSE NoPass
  <2> HIDE DEF cursor, worked, failed, lost, gen
  <2> QED
    BY <1>2, <1>5
<1>9. CASE finalizing.lap /\ (failed \/ lost)
  BY <1>8, <1>9, BlankTyped
<1>10. CASE ~(finalizing.lap /\ (failed \/ lost))
  <2>1. final' = g /\ finalizing' = IF finalizing.lap THEN [NoPass EXCEPT !.at = "promote"] ELSE NoPass
    BY <1>8, <1>10
  <2>2. final'.rows = final.rows /\ final'.cursor = cursor /\ final'.failed = failed /\ final'.lost = lost
    <3> HIDE DEF cursor, worked, failed, lost
    <3> QED
      BY <2>1
  <2>3. finalizing' \in Pass /\ GenerationShape(final')
    <3> HIDE DEF g
    <3> QED
      BY <1>6, <1>7, <2>1, BlankTyped
  <2>4. finalizing'.at = IF finalizing.lap THEN "promote" ELSE "idle"
    BY <1>6, <2>1
  <2> HIDE DEF g
  <2> QED
    BY <1>10, <2>2, <2>3, <2>4
<1> QED
  BY <1>9, <1>10

\* What the other components of the edition do to a finalization: nothing.
FinalUntouched ==
  /\ finalizing' = finalizing /\ final' = final /\ observed'.end = observed.end
  /\ results' = results /\ outbox' = outbox /\ deleted \subseteq deleted'

\* Joining, withdrawing, leaving, baselining and the clock.
Elsewhere == FinalUntouched /\ lifecycle' = lifecycle /\ field' = field

\* A step of the finalization, a change of lifecycle, a crash, or one elsewhere.
LEMMA StepsOfAnEdition ==
  ASSUME EditionTypes, [Next]_vars
  PROVE  \/ Elsewhere
         \/ lifecycle = "none" /\ lifecycle' = "draft" /\ field' = field /\ FinalUntouched /\ entries' = entries
         \/ /\ lifecycle' \in lifecycleTransitions[lifecycle] /\ lifecycle' # "completed"
            /\ field' = IF lifecycle' = "finalizing" THEN Active ELSE {}
            /\ FinalUntouched /\ entries' = entries
         \/ finalizing' = NoPass /\ UNCHANGED <<final, lifecycle, entries, observed, results, outbox, deleted, field>>
         \/ claimFinalizationBatch \/ captureEnd \/ advanceFinalization
         \/ \E lost \in BOOLEAN : valueFinalizationBatch(lost)
         \/ PromoteFinalizationGeneration
<1>1. CASE UNCHANGED vars
  BY <1>1 DEF vars, finalVars, Elsewhere, FinalUntouched
<1>2. CASE (\E doc \in Documents : CreateVersion(doc)) \/ Tick
  BY <1>2 DEF CreateVersion, Tick, finalVars, Elsewhere, FinalUntouched
<1>3. CASE \E v \in 1..MaxVersions : CreateEdition(v)
  BY <1>3 DEF CreateEdition, entryVars, finalVars, FinalUntouched
<1>4. CASE Publish \/ Cancel \/ AdvanceCompetitionLifecycles
  <2>1. \E from, to : TransitionLifecycle(from, to) /\ to # "completed"
    BY <1>4 DEF Publish, Cancel, AdvanceCompetitionLifecycles
  <2> QED
    BY <2>1 DEF TransitionLifecycle, finalVars, entryVars, FinalUntouched
<1>5. CASE \E u \in Users : (\E facts \in Portfolios[u] : joinEdition(u, facts)) \/ CreateEngineEntry(u) \/ Withdraw(u) \/ DeleteAccount(u)
  BY <1>5 DEF joinEdition, CreateEngineEntry, Withdraw, DeleteAccount, finalVars, Elsewhere, FinalUntouched
<1>6. ASSUME NEW w \in BaselineWorkers, RunCompetitionBaselines(w)
      PROVE  Elsewhere
  <2>1. observed'.end = observed.end
    BY <1>6 DEF EditionTypes, PassTypes, RunCompetitionBaselines, ListPendingBaselineEntries, captureStart, baselineEntry
  <2> QED
    BY <1>6, <2>1 DEF RunCompetitionBaselines, ListPendingBaselineEntries, captureStart, baselineEntry, finalVars, Elsewhere, FinalUntouched
<1>7. CASE Crash
  BY <1>7 DEF Crash
<1> QED
  BY <1>1, <1>2, <1>3, <1>4, <1>5, <1>6, <1>7 DEF Next, FinalizeCompetitions

\* Every step keeps the types.
LEMMA EditionTypesNext ==
  ASSUME EditionTypes, [Next]_vars
  PROVE  EditionTypes'
<1>1. EntryTypes'
  BY EntriesMove DEF Moved
<1>2. lifecycle' \in Lifecycles
  BY LifecycleMoves DEF EditionTypes, PassTypes, LifecycleMove, Lifecycles
<1>3. baseline' \in [BaselineWorkers -> Pass] /\ observed' \in [start : View, end : View]
  <2>1. CASE \E w \in BaselineWorkers : RunCompetitionBaselines(w)
    BY <2>1, BaselineTyped
  <2>2. CASE captureEnd
    BY <2>2, CaptureStep DEF EditionTypes, PassTypes, captureEnd, baselineVars
  <2>3. CASE Crash
    BY <2>3, BlankTyped DEF EditionTypes, PassTypes, Crash
  <2>4. CASE baseline' = baseline /\ observed' = observed
    BY <2>4 DEF EditionTypes, PassTypes
  <2> QED
    BY <2>1, <2>2, <2>3, <2>4 DEF Next, vars, baselineVars, CreateVersion, CreateEdition, Publish, Cancel,
       AdvanceCompetitionLifecycles, TransitionLifecycle, Tick, joinEdition, CreateEngineEntry, Withdraw, DeleteAccount,
       FinalizeCompetitions, claimFinalizationBatch, valueFinalizationBatch, advanceFinalization, PromoteFinalizationGeneration
<1>4. finalizing' \in Pass /\ GenerationShape(final') /\ field' \in SUBSET Users
  <2>1. finalizing \in Pass /\ GenerationShape(final) /\ field \in SUBSET Users /\ Active \in SUBSET Users
    BY DEF EditionTypes, PassTypes, Active
  <2>2. CASE FinalUntouched /\ field' \in {field, Active, {}}
    BY <2>1, <2>2 DEF FinalUntouched
  <2>3. CASE finalizing' = NoPass /\ final' = final /\ field' = field
    BY <2>1, <2>3, BlankTyped
  <2>4. CASE claimFinalizationBatch
    BY <2>1, <2>4, ClaimStep DEF claimFinalizationBatch
  <2>5. CASE captureEnd
    BY <2>1, <2>5, CaptureStep DEF captureEnd
  <2>6. CASE advanceFinalization
    BY <2>1, <2>6, AdvanceStep DEF advanceFinalization
  <2>7. ASSUME NEW lost \in BOOLEAN, valueFinalizationBatch(lost)
        PROVE  finalizing' \in Pass /\ GenerationShape(final') /\ field' \in SUBSET Users
    BY <2>1, <2>7, ValueStep DEF valueFinalizationBatch
  <2>8. CASE PromoteFinalizationGeneration
    BY <2>1, <2>8, BlankTyped DEF PromoteFinalizationGeneration
  <2> QED
    BY <2>2, <2>3, <2>4, <2>5, <2>6, <2>7, <2>8, StepsOfAnEdition DEF Elsewhere
<1> QED
  BY <1>1, <1>2, <1>3, <1>4 DEF EditionTypes, PassTypes

-----------------------------------------------------------------------------
(* What is stored stays *)

\* Observations are added, never changed.
Grows(v, w) ==
  /\ \A i \in Instruments : v.price[i] # 0 => w.price[i] = v.price[i]
  /\ v.fx # 0 => w.fx = v.fx

\* What could be valued is still worth the same.
LEMMA ValuationStays ==
  ASSUME NEW b, Holds(b), NEW v, NEW w, Grows(v, w), priced(b, v)
  PROVE  priced(b, w) /\ total(b, w) = total(b, v)
<1>1. ASSUME NEW p \in b.held
      PROVE  /\ p.instrument \in Instruments /\ w.price[p.instrument] = v.price[p.instrument]
             /\ p.instrument \in Foreign => w.fx = v.fx
  BY DEF Holds, Grows, priced
<1>2. priced(b, w)
  BY <1>1 DEF priced
<1>3. \A p \in b.held : toBase(p, v) = toBase(p, w)
  BY <1>1 DEF toBase
<1>4. total(b, v) = total(b, w)
  BY <1>3, TotalReadsItsPrices
<1> QED
  BY <1>2, <1>4

\* Two views with the same prices value a basket alike.
LEMMA ViewsAgree ==
  ASSUME NEW b, NEW v, NEW w, v.price = w.price, v.fx = w.fx
  PROVE  (priced(b, v) <=> priced(b, w)) /\ total(b, v) = total(b, w)
<1>1. priced(b, v) <=> priced(b, w)
  BY DEF priced
<1>2. \A p \in b.held : toBase(p, v) = toBase(p, w)
  BY DEF toBase
<1> QED
  BY <1>1, <1>2, TotalReadsItsPrices

\* A pass that captured from the stored set knows what is stored afterwards.
LEMMA CaptureAgrees ==
  ASSUME NEW v \in View, ~v.sealed, NEW batch, NEW answer \in Answers, NEW seal,
         NEW n, n = capture(v, batch, answer), NEW r, r = RecordObservations(v, n, seal)
  PROVE  n.price = r.price /\ n.fx = r.fx /\ Grows(v, r)
<1> DEFINE new == {i \in entrySymbolsAndPairs(batch) : v.price[i] = 0 /\ answer.price[i] # 0}
           price == [i \in Instruments |-> IF i \in new THEN answer.price[i] ELSE v.price[i]]
           fx == IF new \cap Foreign # {} /\ v.fx = 0 THEN answer.fx ELSE v.fx
           stored == [i \in Instruments |-> IF v.price[i] # 0 THEN v.price[i] ELSE n.price[i]]
<1>1. n = [[v EXCEPT !.price = price] EXCEPT !.fx = fx]
  BY DEF capture
<1>2. n.price = price /\ n.fx = fx
  <2> HIDE DEF price, fx
  <2> QED
    BY <1>1 DEF View
<1>3. r.price = stored /\ r.fx = IF v.fx # 0 THEN v.fx ELSE n.fx
  <2> HIDE DEF stored
  <2>1. r = [price |-> stored, fx |-> IF v.fx # 0 THEN v.fx ELSE n.fx, sealed |-> seal]
    BY DEF RecordObservations, stored
  <2> QED
    BY <2>1
<1>4. \A i \in Instruments : stored[i] = price[i]
  BY <1>2
<1>5. stored = price
  BY <1>4
<1>6. n.fx = IF v.fx # 0 THEN v.fx ELSE n.fx
  BY <1>2
<1>7. Grows(v, r)
  BY <1>2, <1>3 DEF Grows
<1> QED
  BY <1>2, <1>3, <1>5, <1>6, <1>7

-----------------------------------------------------------------------------
(* The inductive invariant of a finalization *)

\* Entries whose basket and start are settled.
Committed == {"active", "disqualified", "finalized"}

\* A generation is built by a finalizing edition only, for the field it began with.
OutsideInv ==
  /\ lifecycle \notin {"finalizing", "cancelled"} => finalizing.at = "idle" /\ final = NewGeneration
  /\ lifecycle # "completed" => /\ results = NoRows /\ outbox = {}
                                /\ \A u \in Users : entries[u].status # "finalized"
  /\ lifecycle \notin {"finalizing", "completed"} => field = {}
  /\ \A u \in field : entries[u].status \in Committed

\* A pass has active entries in hand and values them with what is stored.
ViewInv ==
  /\ finalizing.at \in {"capture", "value"} => finalizing.batch \subseteq Active
  /\ finalizing.at = "capture" => finalizing.view = observed.end /\ ~observed.end.sealed
  /\ finalizing.at = "value" => finalizing.view.price = observed.end.price /\ finalizing.view.fx = observed.end.fx

\* A row is what the entry would be valued at now.
RowInv ==
  \A u \in DOMAIN final.rows :
    /\ entries[u].status = "active" /\ priced(EndBasket(u), observed.end)
    /\ final.rows[u] = returnOf(u, EndBasket(u), observed.end)

\* Somebody of the field who is neither scored nor disqualified.
Open(u) == u \in field /\ entries[u].status = "active" /\ u \notin DOMAIN final.rows

\* The cursor has passed nobody without settling or remembering the failure.
CursorInv == ~final.failed /\ ~final.lost => \A u \in Users : Open(u) => u > final.cursor

\* The batch in hand leaves nobody out between the cursor and its end.
BatchInv ==
  finalizing.at \in {"capture", "value", "advance"} =>
    /\ ~finalizing.lap => finalizing.batch # {}
    /\ \A u \in Users : Open(u) /\ u > final.cursor /\ (finalizing.lap \/ u <= Max(finalizing.batch)) => u \in finalizing.batch

\* What a pass has valued without failing is settled; a promotion leaves nobody.
AdvanceInv ==
  /\ finalizing.at = "advance" /\ ~finalizing.failed /\ ~finalizing.lost => \A u \in finalizing.batch : ~Open(u)
  /\ finalizing.at = "promote" => \A u \in Users : ~Open(u)

\* What a completed edition has settled.
SettledInv ==
  lifecycle = "completed" =>
    /\ FieldIsSettled /\ DOMAIN results \subseteq Users
    /\ \A u \in DOMAIN results : results[u].return = returnOf(u, EndBasket(u), observed.end)

FinalInv ==
  EditionTypes /\ OutsideInv /\ ViewInv /\ RowInv /\ CursorInv /\ BatchInv /\ AdvanceInv /\ SettledInv

\* A basket that is kept is valued alike.
LEMMA KeptBasket ==
  ASSUME NEW u, entries'[u].basket = entries[u].basket
  PROVE  EndBasket(u)' = EndBasket(u)
BY DEF EndBasket, adjustedEntryBasket

\* Nor does its value move while the stored observations do not.
LEMMA ValuedAlike ==
  ASSUME NEW u, entries'[u].basket = entries[u].basket, entries'[u].start = entries[u].start, observed'.end = observed.end
  PROVE  /\ priced(EndBasket(u), observed.end)' <=> priced(EndBasket(u), observed.end)
         /\ returnOf(u, EndBasket(u), observed.end)' = returnOf(u, EndBasket(u), observed.end)
<1>1. total(EndBasket(u), observed.end)' = total(EndBasket(u)', observed'.end)
  OBVIOUS
<1>2. priced(EndBasket(u), observed.end)' = priced(EndBasket(u)', observed'.end)
  OBVIOUS
<1> QED
  BY <1>1, <1>2, KeptBasket DEF returnOf

\* Rows of entries that are kept stay true while observations are only added.
LEMMA RowsStay ==
  ASSUME EditionTypes, RowInv, NEW u \in DOMAIN final.rows, Keeps(u), Grows(observed.end, observed'.end)
  PROVE  /\ priced(EndBasket(u), observed.end)'
         /\ returnOf(u, EndBasket(u), observed.end)' = final.rows[u]
<1>1. Holds(EndBasket(u))
  BY AdjustedHolds DEF EditionTypes, EntryTypes, PassTypes, GenerationShape, EndBasket
<1>2. priced(EndBasket(u), observed'.end) /\ total(EndBasket(u), observed'.end) = total(EndBasket(u), observed.end)
  BY <1>1, ValuationStays DEF RowInv
<1>3. EndBasket(u)' = EndBasket(u) /\ entries'[u].start = entries[u].start
  BY KeptBasket DEF Keeps
<1>4. total(EndBasket(u), observed.end)' = total(EndBasket(u)', observed'.end)
  OBVIOUS
<1>5. priced(EndBasket(u), observed.end)' = priced(EndBasket(u)', observed'.end)
  OBVIOUS
<1> QED
  BY <1>2, <1>3, <1>4, <1>5 DEF returnOf, RowInv

\* Joins, baselines and departures leave a finalization alone: whoever is
\* committed stays as he is.
LEMMA ElsewhereKeeps ==
  ASSUME FinalInv, Moved, EditionTypes', Elsewhere
  PROVE  FinalInv'
<1>1. /\ finalizing' = finalizing /\ final' = final /\ observed'.end = observed.end /\ lifecycle' = lifecycle
      /\ results' = results /\ outbox' = outbox /\ deleted \subseteq deleted' /\ field' = field
  BY DEF Elsewhere, FinalUntouched
<1>2. \A u \in Users : entries[u].status \in Committed => entries'[u] = entries[u]
  BY <1>1 DEF Moved, EntryMove, Committed
<1>3. \A u \in Users : entries'[u].status \in {"disqualified", "finalized"} => entries'[u] = entries[u]
  BY <1>1 DEF Moved, EntryMove
<1>4. /\ field \subseteq Users /\ DOMAIN final.rows \subseteq Users
      /\ finalizing \in Pass
  BY DEF FinalInv, EditionTypes, PassTypes, GenerationShape
<1>5. OutsideInv'
  BY <1>1, <1>2, <1>3, <1>4 DEF FinalInv, OutsideInv, Committed
<1>6. ViewInv'
  BY <1>1, <1>2 DEF FinalInv, ViewInv, Active, Committed
<1>7. RowInv'
  <2> SUFFICES ASSUME NEW u \in DOMAIN final.rows
               PROVE  /\ entries'[u].status = "active" /\ priced(EndBasket(u), observed.end)'
                      /\ final.rows[u] = returnOf(u, EndBasket(u), observed.end)'
    BY <1>1 DEF RowInv
  <2>1. entries'[u] = entries[u] /\ entries[u].status = "active"
    BY <1>2, <1>4 DEF FinalInv, RowInv, Committed
  <2>2. Grows(observed.end, observed'.end)
    BY <1>1 DEF Grows
  <2> QED
    BY <2>1, <2>2, RowsStay DEF FinalInv, Keeps
<1>8. \A u \in Users : Open(u)' => Open(u)
  BY <1>1, <1>2 DEF Open, FinalInv, OutsideInv
<1>9. CursorInv' /\ BatchInv' /\ AdvanceInv'
  <2>1. CursorInv'
    BY <1>1, <1>8 DEF FinalInv, CursorInv
  <2>2. BatchInv'
    BY <1>1, <1>8 DEF FinalInv, BatchInv
  <2>3. AdvanceInv'
    BY <1>1, <1>4, <1>8 DEF FinalInv, AdvanceInv, Pass
  <2> QED
    BY <2>1, <2>2, <2>3
<1>10. SettledInv'
  <2> SUFFICES ASSUME lifecycle = "completed"
               PROVE  /\ FieldIsSettled' /\ DOMAIN results \subseteq Users
                      /\ \A u \in DOMAIN results : results[u].return = returnOf(u, EndBasket(u), observed.end)'
    BY <1>1 DEF SettledInv
  <2>1. FieldIsSettled /\ DOMAIN results \subseteq Users
    BY DEF FinalInv, SettledInv
  <2>2. FieldIsSettled'
    <3>1. \A u \in field : entries'[u].status \in {"finalized", "disqualified"}
      BY <1>2, <1>4, <2>1 DEF FieldIsSettled, Committed
    <3>2. \A u \in Users : entries'[u].status = "finalized" => u \in DOMAIN results \cup deleted'
      BY <1>1, <1>3, <2>1 DEF FieldIsSettled
    <3>3. \A u \in DOMAIN results : entries'[u].status = "finalized"
      BY <1>2, <2>1 DEF FieldIsSettled, Committed
    <3>4. DOMAIN results = outbox
      BY <2>1 DEF FieldIsSettled
    <3> QED
      BY <1>1, <3>1, <3>2, <3>3, <3>4 DEF FieldIsSettled
  <2>3. ASSUME NEW u \in DOMAIN results
        PROVE  results[u].return = returnOf(u, EndBasket(u), observed.end)'
    <3>1. entries'[u] = entries[u]
      BY <1>2, <2>1 DEF FieldIsSettled, Committed
    <3> QED
      BY <1>1, <3>1, ValuedAlike DEF FinalInv, SettledInv
  <2> QED
    BY <2>1, <2>2, <2>3
<1> QED
  BY <1>5, <1>6, <1>7, <1>9, <1>10 DEF FinalInv

\* An edition begins to finalize with everybody active in its field, and whoever
\* cancels it leaves nobody to settle.
LEMMA LifecycleKeeps ==
  ASSUME FinalInv, EditionTypes', FinalUntouched, entries' = entries,
         \/ lifecycle = "none" /\ lifecycle' = "draft" /\ field' = field
         \/ /\ lifecycle' \in lifecycleTransitions[lifecycle] /\ lifecycle' # "completed"
            /\ field' = IF lifecycle' = "finalizing" THEN Active ELSE {}
  PROVE  FinalInv'
<1>1. /\ finalizing' = finalizing /\ final' = final /\ observed'.end = observed.end /\ results' = results /\ outbox' = outbox
  BY DEF FinalUntouched
<1>2. /\ lifecycle # "completed" /\ lifecycle # "cancelled" /\ lifecycle' # "completed"
      /\ lifecycle' = "finalizing" => lifecycle = "active"
      /\ lifecycle = "finalizing" => lifecycle' = "cancelled"
  BY DEF FinalInv, EditionTypes, PassTypes, Lifecycles, lifecycleTransitions
<1>3. field' = {} \/ (lifecycle' = "finalizing" /\ field' = Active)
  BY <1>2 DEF FinalInv, OutsideInv
<1>4. OutsideInv'
  BY <1>1, <1>2, <1>3 DEF FinalInv, OutsideInv, Active, Committed
<1>5. ViewInv'
  BY <1>1 DEF FinalInv, ViewInv, Active
<1>6. RowInv'
  <2>1. \A u : priced(EndBasket(u), observed.end)' <=> priced(EndBasket(u), observed.end)
    BY <1>1, ValuedAlike
  <2>2. \A u : returnOf(u, EndBasket(u), observed.end)' = returnOf(u, EndBasket(u), observed.end)
    BY <1>1, ValuedAlike
  <2> QED
    BY <1>1, <2>1, <2>2 DEF FinalInv, RowInv
<1>7. CASE field' = {}
  <2>1. \A u : ~Open(u)'
    BY <1>7 DEF Open
  <2> QED
    BY <1>1, <1>2, <1>4, <1>5, <1>6, <2>1 DEF FinalInv, CursorInv, BatchInv, AdvanceInv, SettledInv
<1>8. CASE lifecycle' = "finalizing"
  <2>1. finalizing.at = "idle" /\ final.cursor = 0
    BY <1>2, <1>8 DEF FinalInv, OutsideInv, NewGeneration
  <2>2. CursorInv' /\ BatchInv' /\ AdvanceInv'
    BY <1>1, <2>1, UsersAreNumbers DEF CursorInv, BatchInv, AdvanceInv
  <2> QED
    BY <1>2, <1>4, <1>5, <1>6, <2>2 DEF FinalInv, SettledInv
<1> QED
  BY <1>3, <1>7, <1>8

\* The process dies with its pass: nothing that was written is lost.
LEMMA CrashKeeps ==
  ASSUME FinalInv, EditionTypes', finalizing' = NoPass,
         UNCHANGED <<final, lifecycle, entries, observed, results, outbox, deleted, field>>
  PROVE  FinalInv'
<1>1. finalizing'.at = "idle"
  BY DEF NoPass
<1>2. OutsideInv'
  BY <1>1 DEF FinalInv, OutsideInv
<1>3. ViewInv'
  BY <1>1 DEF ViewInv
<1>4. /\ \A u : priced(EndBasket(u), observed.end)' <=> priced(EndBasket(u), observed.end)
      /\ \A u : returnOf(u, EndBasket(u), observed.end)' = returnOf(u, EndBasket(u), observed.end)
  BY ValuedAlike
<1>5. RowInv' /\ CursorInv'
  BY <1>4 DEF FinalInv, RowInv, CursorInv, Open
<1>6. BatchInv' /\ AdvanceInv'
  BY <1>1 DEF BatchInv, AdvanceInv
<1>7. SettledInv'
  BY <1>4 DEF FinalInv, SettledInv, FieldIsSettled
<1> QED
  BY <1>2, <1>3, <1>5, <1>6, <1>7 DEF FinalInv

\* A claim is the next page of the active entries.
LEMMA ClaimKeeps ==
  ASSUME FinalInv, EditionTypes', claimFinalizationBatch
  PROVE  FinalInv'
<1>1. /\ finalizing.at = "idle" /\ lifecycle = "finalizing"
      /\ UNCHANGED <<lifecycle, entries, observed, final, results, outbox, deleted, field>>
  BY DEF claimFinalizationBatch, entryVars
<1>2. /\ finalizing'.batch = ClaimEntriesForFinalization(final.cursor, FinalizationBatch)
      /\ finalizing'.view = observed.end
      /\ finalizing'.at = IF observed.end.sealed THEN "value" ELSE "capture"
      /\ finalizing'.lap <=> Cardinality(finalizing'.batch) < FinalizationBatch
  BY ClaimStep DEF FinalInv
<1>3. OutsideInv'
  BY <1>1 DEF FinalInv, OutsideInv
<1>4. ViewInv'
  BY <1>1, <1>2 DEF ViewInv, ClaimEntriesForFinalization, Active
<1>5. /\ \A u : priced(EndBasket(u), observed.end)' <=> priced(EndBasket(u), observed.end)
      /\ \A u : returnOf(u, EndBasket(u), observed.end)' = returnOf(u, EndBasket(u), observed.end)
  BY <1>1, ValuedAlike
<1>6. RowInv' /\ CursorInv' /\ SettledInv'
  BY <1>1, <1>5 DEF FinalInv, RowInv, CursorInv, Open, SettledInv
<1>7. AdvanceInv'
  BY <1>2 DEF AdvanceInv
<1>8. BatchInv'
  <2> DEFINE P == Page(Active, final.cursor, FinalizationBatch)
  <2>1. finalizing'.batch = P
    BY <1>2 DEF ClaimEntriesForFinalization, Page
  <2>2. PICK n \in Nat : Users = 1..n
    BY UsersAreNumbers
  <2>3. Active \in SUBSET (1..n) /\ P \in SUBSET (1..n)
    BY <2>2 DEF Active, Page
  <2>4. FinalizationBatch \in Nat \ {0} /\ FinalizationBatch \in Nat /\ final.cursor \in Nat
    BY CompetitionAssumption DEF FinalInv, EditionTypes, PassTypes, GenerationShape
  <2>5. ~finalizing'.lap => finalizing'.batch # {}
    BY <1>2, <2>1, <2>4, FullPageHasMembers
  <2>6. ASSUME NEW u \in Users, Open(u), u > final.cursor, finalizing'.lap \/ u <= Max(finalizing'.batch)
        PROVE  u \in finalizing'.batch
    <3>1. u \in Active
      BY <2>6 DEF Open, Active
    <3>2. CASE finalizing'.lap
      <4>1. Cardinality(Page(Active, final.cursor, FinalizationBatch)) < FinalizationBatch
        BY <1>2, <2>1, <3>2
      <4>2. u \in Page(Active, final.cursor, FinalizationBatch)
        BY <2>2, <2>3, <2>4, <2>6, <3>1, <4>1, ShortPageTakesTheRest
      <4> QED
        BY <2>1, <4>2
    <3>3. CASE ~finalizing'.lap
      <4> HIDE DEF P
      <4>1. P # {} /\ u <= Max(P)
        BY <2>1, <2>5, <2>6, <3>3
      <4>2. Max(P) \in Page(Active, final.cursor, FinalizationBatch)
        <5>1. Max(P) \in P
          BY <2>2, <2>3, <4>1, GreatestNumber
        <5> QED
          BY <5>1 DEF P
      <4>3. u \in Page(Active, final.cursor, FinalizationBatch)
        BY <2>2, <2>3, <2>4, <2>6, <3>1, <4>1, <4>2, PageHasNoGap
      <4> QED
        BY <2>1, <4>3 DEF P
    <3> QED
      BY <3>2, <3>3
  <2>7. \A u \in Users : Open(u)' <=> Open(u)
    BY <1>1 DEF Open
  <2> QED
    BY <1>1, <2>5, <2>6, <2>7 DEF BatchInv
<1> QED
  BY <1>3, <1>4, <1>6, <1>7, <1>8 DEF FinalInv

\* A capture adds to the stored observations what the pass will value with.
LEMMA CaptureKeeps ==
  ASSUME FinalInv, EditionTypes', captureEnd
  PROVE  FinalInv'
<1>1. finalizing.at = "capture" /\ UNCHANGED <<lifecycle, entries, final, results, outbox, deleted, field>>
  BY DEF captureEnd, entryVars
<1>2. /\ finalizing'.at = "value" /\ finalizing'.batch = finalizing.batch /\ finalizing'.lap = finalizing.lap
      /\ \E answer \in Answers, seal \in BOOLEAN :
           /\ finalizing'.view = capture(finalizing.view, finalizing.batch, answer)
           /\ observed'.end = RecordObservations(observed.end, finalizing'.view, seal)
  BY CaptureStep DEF FinalInv
<1>3. finalizing.view = observed.end /\ ~observed.end.sealed /\ observed.end \in View
  BY <1>1 DEF FinalInv, ViewInv, EditionTypes, PassTypes
<1>4. /\ finalizing'.view.price = observed'.end.price /\ finalizing'.view.fx = observed'.end.fx
      /\ Grows(observed.end, observed'.end)
  BY <1>2, <1>3, CaptureAgrees
<1>5. lifecycle # "completed"
  BY <1>1 DEF FinalInv, OutsideInv
<1>6. OutsideInv' /\ SettledInv'
  BY <1>1, <1>5 DEF FinalInv, OutsideInv, SettledInv
<1>7. ViewInv'
  BY <1>1, <1>2, <1>4 DEF FinalInv, ViewInv, Active
<1>8. RowInv'
  BY <1>1, <1>4, RowsStay DEF FinalInv, RowInv, Keeps
<1>9. \A u : Open(u)' <=> Open(u)
  BY <1>1 DEF Open
<1>10. CursorInv' /\ BatchInv' /\ AdvanceInv'
  BY <1>1, <1>2, <1>9 DEF FinalInv, CursorInv, BatchInv, AdvanceInv
<1> QED
  BY <1>6, <1>7, <1>8, <1>10 DEF FinalInv

\* Valuing writes rows that are true and puts out only who has no price: a scored
\* entry keeps its price, so that no later lap disqualifies it.
LEMMA ValueKeeps ==
  ASSUME FinalInv, EditionTypes', NEW lost \in BOOLEAN, valueFinalizationBatch(lost)
  PROVE  FinalInv'
<1>1. finalizing.at = "value" /\ UNCHANGED <<lifecycle, observed, results, outbox, deleted, field>>
  BY DEF valueFinalizationBatch
<1>2. /\ finalizing'.at = "advance" /\ finalizing'.batch = finalizing.batch /\ finalizing'.lap = finalizing.lap
      /\ finalizing'.lost = lost
      /\ \A u \in Users : IF finalizing.late /\ u \in finalizing.batch \ Valued
                          THEN entries'[u].status = "disqualified" /\ Keeps(u) ELSE entries'[u] = entries[u]
      /\ ~finalizing'.failed => \A u \in finalizing.batch \ Valued : entries'[u].status = "disqualified"
      /\ final'.cursor = final.cursor /\ final'.failed = final.failed /\ final'.lost = final.lost
      /\ lost => final' = final
      /\ ~lost => /\ DOMAIN final'.rows = DOMAIN final.rows \cup Valued
                  /\ \A u \in Valued : final'.rows[u] = returnOf(u, EndBasket(u), finalizing.view)
                  /\ \A u \in DOMAIN final.rows \ Valued : final'.rows[u] = final.rows[u]
  BY ValueStep DEF FinalInv
<1>3. /\ finalizing.batch \subseteq Active /\ Valued \subseteq finalizing.batch
      /\ finalizing.view.price = observed.end.price /\ finalizing.view.fx = observed.end.fx
  BY <1>1 DEF FinalInv, ViewInv, Valued
<1>4. \A u : /\ priced(EndBasket(u), observed.end) <=> priced(EndBasket(u), finalizing.view)
             /\ returnOf(u, EndBasket(u), observed.end) = returnOf(u, EndBasket(u), finalizing.view)
  BY <1>3, ViewsAgree DEF returnOf
<1>5. DOMAIN final.rows \subseteq Users /\ \A u \in DOMAIN final.rows : u \in finalizing.batch => u \in Valued
  BY <1>4 DEF FinalInv, RowInv, Valued, EditionTypes, PassTypes, GenerationShape
<1>6. \A u \in DOMAIN final.rows \cup Valued : u \in Users /\ entries'[u] = entries[u] /\ entries[u].status = "active"
  BY <1>2, <1>3, <1>5 DEF FinalInv, RowInv, Active
<1>7. \A u \in DOMAIN final'.rows : u \in DOMAIN final.rows \cup Valued
  BY <1>2
<1>8. lifecycle # "completed" /\ lifecycle \in {"finalizing", "cancelled"}
  BY <1>1 DEF FinalInv, OutsideInv
<1>9. OutsideInv'
  <2>1. \A u \in Users : /\ entries'[u].status = "disqualified" \/ entries'[u] = entries[u]
    BY <1>2
  <2> QED
    BY <1>1, <1>8, <2>1 DEF FinalInv, OutsideInv, Committed, EditionTypes, PassTypes
<1>10. ViewInv'
  BY <1>2 DEF ViewInv
<1>11. RowInv'
  <2> SUFFICES ASSUME NEW u \in DOMAIN final'.rows
               PROVE  /\ entries'[u].status = "active" /\ priced(EndBasket(u), observed.end)'
                      /\ final'.rows[u] = returnOf(u, EndBasket(u), observed.end)'
    BY DEF RowInv
  <2>1. entries'[u] = entries[u] /\ entries[u].status = "active"
    BY <1>6, <1>7
  <2>2. /\ priced(EndBasket(u), observed.end)' <=> priced(EndBasket(u), observed.end)
        /\ returnOf(u, EndBasket(u), observed.end)' = returnOf(u, EndBasket(u), observed.end)
    BY <1>1, <2>1, ValuedAlike
  <2>3. CASE u \in Valued /\ ~lost
    BY <1>2, <1>4, <2>1, <2>2, <2>3 DEF Valued
  <2>4. CASE u \in DOMAIN final.rows /\ final'.rows[u] = final.rows[u]
    BY <2>1, <2>2, <2>4 DEF FinalInv, RowInv
  <2> QED
    BY <1>2, <2>3, <2>4
<1>12. \A u \in Users : Open(u)' => Open(u)
  <2>1. \A u \in Users : u \in DOMAIN final.rows => u \in DOMAIN final'.rows
    BY <1>2
  <2> QED
    BY <1>1, <1>2, <2>1 DEF Open
<1>13. CursorInv' /\ BatchInv'
  BY <1>1, <1>2, <1>12 DEF FinalInv, CursorInv, BatchInv
<1>14. AdvanceInv'
  <2> SUFFICES ASSUME ~finalizing'.failed, ~lost, NEW u \in finalizing.batch
               PROVE  ~Open(u)'
    BY <1>2 DEF AdvanceInv
  <2> QED
    BY <1>2 DEF Open
<1> QED
  BY <1>1, <1>8, <1>9, <1>10, <1>11, <1>13, <1>14 DEF FinalInv, SettledInv

\* The cursor passes a batch that is settled or remembered as failed; a lap that
\* ends without a failure has settled everybody.
LEMMA AdvanceKeeps ==
  ASSUME FinalInv, EditionTypes', advanceFinalization
  PROVE  FinalInv'
<1>1. finalizing.at = "advance" /\ UNCHANGED <<lifecycle, entries, observed, results, outbox, deleted, field>>
  BY DEF advanceFinalization, entryVars
<1>2. \/ final' = NewGeneration /\ finalizing' = NoPass
      \/ /\ final'.rows = final.rows
         /\ final'.failed <=> final.failed \/ finalizing.failed
         /\ final'.lost <=> final.lost \/ finalizing.lost
         /\ IF finalizing.lap
            THEN finalizing'.at = "promote" /\ ~final'.failed /\ ~final'.lost
            ELSE /\ finalizing'.at = "idle"
                 /\ final'.cursor = IF finalizing.batch = {} THEN final.cursor ELSE Max(finalizing.batch)
  BY AdvanceStep DEF FinalInv
<1>3. lifecycle \in {"finalizing", "cancelled"}
  BY <1>1 DEF FinalInv, OutsideInv
<1>4. OutsideInv' /\ SettledInv'
  BY <1>1, <1>3 DEF FinalInv, OutsideInv, SettledInv
<1>5. CASE final' = NewGeneration /\ finalizing' = NoPass
  <2>1. finalizing'.at = "idle" /\ final'.cursor = 0 /\ DOMAIN final'.rows = {}
    BY <1>5 DEF NoPass, NewGeneration, NoRows
  <2>2. ViewInv' /\ RowInv' /\ BatchInv' /\ AdvanceInv'
    BY <2>1 DEF ViewInv, RowInv, BatchInv, AdvanceInv
  <2>3. CursorInv'
    BY <2>1, UsersAreNumbers DEF CursorInv
  <2> QED
    BY <1>4, <2>2, <2>3 DEF FinalInv
<1>6. CASE ~(final' = NewGeneration /\ finalizing' = NoPass)
  <2>1. finalizing'.at \in {"idle", "promote"} /\ final'.rows = final.rows
    BY <1>2, <1>6
  <2>2. ViewInv' /\ BatchInv'
    BY <2>1 DEF ViewInv, BatchInv
  <2>3. RowInv'
    <3>1. \A u : priced(EndBasket(u), observed.end)' <=> priced(EndBasket(u), observed.end)
      BY <1>1, ValuedAlike
    <3>2. \A u : returnOf(u, EndBasket(u), observed.end)' = returnOf(u, EndBasket(u), observed.end)
      BY <1>1, ValuedAlike
    <3> QED
      BY <1>1, <2>1, <3>1, <3>2 DEF FinalInv, RowInv
  <2>4. \A u : Open(u)' <=> Open(u)
    BY <1>1, <2>1 DEF Open
  <2>5. ASSUME ~final'.failed, ~final'.lost, NEW u \in Users, Open(u)
        PROVE  /\ u > final.cursor /\ u \notin finalizing.batch
               /\ ~finalizing.lap /\ finalizing.batch # {} /\ ~(u <= Max(finalizing.batch))
    <3>1. u > final.cursor /\ u \notin finalizing.batch
      BY <1>1, <1>2, <1>6, <2>5 DEF FinalInv, CursorInv, AdvanceInv
    <3> QED
      BY <1>1, <2>5, <3>1 DEF FinalInv, BatchInv
  <2>6. AdvanceInv'
    <3>1. finalizing'.at = "promote" => finalizing.lap /\ ~final'.failed /\ ~final'.lost
      BY <1>2, <1>6
    <3> QED
      BY <2>1, <2>4, <2>5, <3>1 DEF AdvanceInv
  <2>7. CursorInv'
    <3> SUFFICES ASSUME ~final'.failed, ~final'.lost, NEW u \in Users, Open(u)
                 PROVE  u > final'.cursor
      BY <2>4 DEF CursorInv
    <3>1. final'.cursor = Max(finalizing.batch) /\ ~(u <= Max(finalizing.batch))
      BY <1>2, <1>6, <2>5
    <3>2. u \in Nat /\ final'.cursor \in Nat
      BY UsersAreNumbers DEF EditionTypes, PassTypes, GenerationShape
    <3> QED
      BY <3>1, <3>2
  <2> QED
    BY <1>4, <2>2, <2>3, <2>6, <2>7 DEF FinalInv
<1> QED
  BY <1>5, <1>6

\* The results settle the field in one transaction.
LEMMA PromoteKeeps ==
  ASSUME FinalInv, EditionTypes', PromoteFinalizationGeneration
  PROVE  FinalInv'
<1>1. finalizing.at = "promote" /\ finalizing' = NoPass /\ finalizing'.at = "idle" /\ UNCHANGED <<observed, deleted, field>>
  BY DEF PromoteFinalizationGeneration, NoPass
<1>2. CASE lifecycle = "finalizing"
  <2>1. /\ results' = MaterializedRanks(final.rows)
        /\ entries' = [u \in Users |-> IF u \in DOMAIN final.rows /\ entries[u].status = "active"
                                       THEN [entries[u] EXCEPT !.status = "finalized"] ELSE entries[u]]
        /\ lifecycle' = "completed" /\ outbox' = DOMAIN results' /\ final' = NewGeneration
    BY <1>2 DEF PromoteFinalizationGeneration
  <2>2. /\ DOMAIN results' = DOMAIN final.rows \ deleted
        /\ \A u \in DOMAIN results' : results'[u].return = final.rows[u]
    BY <2>1 DEF MaterializedRanks
  <2>3. DOMAIN final.rows \subseteq Users
    BY DEF FinalInv, EditionTypes, PassTypes, GenerationShape
  <2>4. ASSUME NEW u \in Users
        PROVE  /\ Keeps(u)
               /\ IF u \in DOMAIN final.rows THEN entries'[u].status = "finalized" ELSE entries'[u] = entries[u]
    <3> DEFINE S == {v \in Users : v \in DOMAIN final.rows /\ entries[v].status = "active"}
    <3>1. entries' = [v \in Users |-> IF v \in S THEN [entries[v] EXCEPT !.status = "finalized"] ELSE entries[v]]
      BY <2>1
    <3>2. joining' = joining /\ "finalized" \in EntryStatuses
      BY DEF PromoteFinalizationGeneration, EntryStatuses
    <3>3. u \in DOMAIN final.rows <=> u \in S
      BY DEF FinalInv, RowInv
    <3> HIDE DEF S
    <3>4. IF u \in S THEN entries'[u].status = "finalized" /\ Keeps(u) ELSE entries'[u] = entries[u]
      BY <3>1, <3>2, StatusesMoved DEF FinalInv, EditionTypes
    <3> QED
      BY <3>3, <3>4 DEF Keeps
  <2>5. \A u \in Users : ~Open(u)
    BY <1>1 DEF FinalInv, AdvanceInv
  <2>6. field \subseteq Users /\ \A u \in field : entries[u].status \in {"active", "disqualified"}
    BY <1>2 DEF FinalInv, OutsideInv, EditionTypes, PassTypes, Committed
  <2>7. \A u \in field : entries'[u].status \in {"finalized", "disqualified"}
    BY <2>4, <2>5, <2>6 DEF Open
  <2>8. \A u \in Users : entries'[u].status = "finalized" => u \in DOMAIN final.rows
    BY <1>2, <2>4 DEF FinalInv, OutsideInv
  <2>9. FieldIsSettled'
    BY <1>1, <2>1, <2>2, <2>3, <2>4, <2>7, <2>8 DEF FieldIsSettled
  <2>10. \A u \in DOMAIN results' : results'[u].return = returnOf(u, EndBasket(u), observed.end)'
    <3> SUFFICES ASSUME NEW u \in DOMAIN results'
                 PROVE  results'[u].return = returnOf(u, EndBasket(u), observed.end)'
      OBVIOUS
    <3>1. u \in DOMAIN final.rows /\ results'[u].return = final.rows[u]
      BY <2>2
    <3>2. Keeps(u)
      BY <2>3, <2>4, <3>1
    <3>3. final.rows[u] = returnOf(u, EndBasket(u), observed.end)
      BY <3>1 DEF FinalInv, RowInv
    <3> QED
      BY <1>1, <3>1, <3>2, <3>3, ValuedAlike DEF Keeps
  <2>11. SettledInv'
    BY <2>2, <2>3, <2>9, <2>10 DEF SettledInv
  <2>12. OutsideInv'
    BY <1>1, <2>1, <2>7 DEF OutsideInv, Committed
  <2>13. final'.cursor = 0 /\ DOMAIN final'.rows = {}
    BY <2>1 DEF NewGeneration, NoRows
  <2>14. ViewInv' /\ RowInv' /\ BatchInv' /\ AdvanceInv'
    BY <1>1, <2>13 DEF ViewInv, RowInv, BatchInv, AdvanceInv
  <2>15. CursorInv'
    BY <2>13, UsersAreNumbers DEF CursorInv
  <2> QED
    BY <2>11, <2>12, <2>14, <2>15 DEF FinalInv
<1>3. CASE lifecycle # "finalizing"
  BY <1>1, <1>3, CrashKeeps DEF PromoteFinalizationGeneration
<1> QED
  BY <1>2, <1>3

\* Every step keeps it.
LEMMA FinalInvNext ==
  ASSUME FinalInv, [Next]_vars
  PROVE  FinalInv'
<1>1. EditionTypes' /\ Moved
  BY EditionTypesNext, EntriesMove DEF FinalInv
<1> QED
  BY <1>1, StepsOfAnEdition, ElsewhereKeeps, LifecycleKeeps, CrashKeeps, ClaimKeeps, CaptureKeeps, ValueKeeps, AdvanceKeeps,
     PromoteKeeps DEF FinalInv

\* Nobody is an entry before an edition exists.
LEMMA EmptyEditionTyped == Init => EditionTypes /\ \A u \in Users : entries[u] = NoEntry
<1> SUFFICES ASSUME Init
             PROVE  EditionTypes /\ \A u \in Users : entries[u] = NoEntry
  OBVIOUS
<1>1. Shaped(NoEntry) /\ Holds(NoEntry.basket)
  BY DEF NoEntry, NoBasket, Shaped, Holds, EntryStatuses
<1>2. EntryTypes
  BY <1>1 DEF Init, EntryTypes
<1>3. PassTypes
  BY BlankTyped DEF Init, PassTypes, Lifecycles
<1> QED
  BY <1>2, <1>3 DEF Init, EditionTypes

\* An edition begins with nothing to finalize.
LEMMA FinalInvInit == Init => FinalInv
<1> SUFFICES ASSUME Init
             PROVE  FinalInv
  OBVIOUS
<1>1. EditionTypes /\ \A u \in Users : entries[u].status = "none"
  BY EmptyEditionTyped DEF NoEntry
<1>2. finalizing.at = "idle" /\ DOMAIN final.rows = {} /\ final = NewGeneration /\ lifecycle = "none"
  BY DEF Init, NoPass, NewGeneration, NoRows
<1>3. OutsideInv /\ SettledInv
  BY <1>1, <1>2 DEF Init, OutsideInv, SettledInv
<1>4. ViewInv /\ RowInv /\ BatchInv /\ AdvanceInv
  BY <1>2 DEF ViewInv, RowInv, BatchInv, AdvanceInv
<1>5. CursorInv
  BY DEF Init, CursorInv, Open
<1> QED
  BY <1>1, <1>3, <1>4, <1>5 DEF FinalInv

\* A completed edition has settled everybody who was active when its finalization
\* began, whatever laps, failed writes, retries and crashes lay between: scored
\* with a result and an event, or disqualified by name.
THEOREM EditionsSettleTheirField == Spec => []FieldIsSettled
<1>1. FinalInv => FieldIsSettled
  BY DEF FinalInv, SettledInv, FieldIsSettled
<1> QED
  BY <1>1, FinalInvInit, FinalInvNext, PTL DEF Spec

\* Nothing that is still under way reprices, reorders or removes a result, touches
\* a scored entry or reopens the edition.
THEOREM CompletedIsForGood == Spec => ResultsAreFinal
<1> DEFINE Stays == lifecycle = "completed" =>
             /\ lifecycle' = "completed" /\ results' = results
             /\ \A u \in Users : entries[u].status = "finalized" => entries'[u] = entries[u]
<1>1. ASSUME FinalInv, [Next]_vars, lifecycle = "completed"
      PROVE  Stays
  <2>1. finalizing.at = "idle"
    BY <1>1 DEF FinalInv, OutsideInv
  <2>2. \A u \in Users : entries[u].status = "finalized" => entries'[u] = entries[u]
    BY <1>1, <2>1, EntriesMove DEF Moved, EntryMove, FinalInv
  <2>3. lifecycleTransitions[lifecycle] = {}
    BY <1>1 DEF lifecycleTransitions, Lifecycles
  <2>4. ~(claimFinalizationBatch \/ captureEnd \/ advanceFinalization \/ PromoteFinalizationGeneration)
    BY <1>1, <2>1 DEF claimFinalizationBatch, captureEnd, advanceFinalization, PromoteFinalizationGeneration
  <2>5. \A lost : ~valueFinalizationBatch(lost)
    BY <2>1 DEF valueFinalizationBatch
  <2>6. Elsewhere \/ UNCHANGED <<lifecycle, results>>
    BY <1>1, <2>3, <2>4, <2>5, StepsOfAnEdition DEF FinalInv
  <2>7. lifecycle' = "completed" /\ results' = results
    BY <1>1, <2>6 DEF Elsewhere, FinalUntouched
  <2> QED
    BY <2>2, <2>7
<1>2. FinalInv /\ [Next]_vars => [Stays]_vars
  BY <1>1
<1> QED
  BY <1>2, FinalInvInit, FinalInvNext, PTL DEF Spec, ResultsAreFinal

-----------------------------------------------------------------------------
(* Admission *)

\* What an admitted portfolio has shown.
PassedRules(facts) ==
  /\ Evaluate(rules.eligibility, facts)
  /\ \A i \in DOMAIN rules.eligibility.all : rules.eligibility.all[i].metric \in Metrics

AdmissionInv ==
  /\ lifecycle = "none" => \A u \in Users : entries[u].status = "none" /\ joining[u] = {}
  /\ lifecycle # "none" => \A i \in DOMAIN rules.eligibility.all : rules.eligibility.all[i].metric \in Metrics
  /\ \A u \in Users : \A facts \in joining[u] : PassedRules(facts)
  /\ \A u \in Users : entries[u].status = "admitted" =>
       \A facts \in entries[u].facts : facts \in Portfolios[u] /\ PassedRules(facts)

\* Joins, inserts and everything else keep it.
LEMMA AdmissionInvNext ==
  ASSUME FinalInv, AdmissionInv, [Next]_vars
  PROVE  AdmissionInv'
<1> USE DEF FinalInv, EditionTypes, PassTypes
<1>1. \A u \in Users : EntryMove(u)
  BY EntriesMove DEF Moved
<1>2. lifecycle' \in Lifecycles /\ (lifecycle' = "none" => lifecycle = "none")
  <2>1. LifecycleMove
    BY LifecycleMoves DEF AdmissionInv
  <2>2. \A x \in lifecycleTransitions[lifecycle] : x # "none"
    BY DEF AdmissionInv, Lifecycles, lifecycleTransitions
  <2> QED
    BY <2>1, <2>2 DEF AdmissionInv, LifecycleMove, Lifecycles
<1>3. lifecycle = "none" => finalizing.at = "idle"
  BY DEF OutsideInv
<1>4. CASE rules' = rules
  <2>1. ASSUME lifecycle' = "none", NEW u \in Users
        PROVE  entries'[u].status = "none" /\ joining'[u] = {}
    <3>1. lifecycle = "none" /\ entries[u].status = "none" /\ joining[u] = {}
      BY <1>2, <2>1 DEF AdmissionInv
    <3>2. joining'[u] = {}
      BY <3>1, JoinsMove DEF AdmissionInv, joinWindowOpen
    <3>3. entries'[u] = entries[u]
      BY <1>1, <1>3, <3>1 DEF EntryMove, AdmissionInv
    <3> QED
      BY <3>1, <3>2, <3>3
  <2>2. lifecycle' # "none" => \A i \in DOMAIN rules.eligibility.all : rules.eligibility.all[i].metric \in Metrics
    <3>1. CASE lifecycle = "none" /\ lifecycle' # "none"
      <4>1. \E v \in 1..MaxVersions : CreateEdition(v)
        <5>1. lifecycle' \notin lifecycleTransitions[lifecycle]
          BY <3>1 DEF lifecycleTransitions, Lifecycles
        <5>2. \A from, to : ~TransitionLifecycle(from, to)
          BY <3>1, <5>1 DEF TransitionLifecycle
        <5> QED
          BY <3>1, <5>2 DEF Next, vars, CreateVersion, Publish, Cancel, AdvanceCompetitionLifecycles, Tick, joinEdition,
             CreateEngineEntry, Withdraw, DeleteAccount,
             RunCompetitionBaselines, ListPendingBaselineEntries, captureStart, baselineEntry, FinalizeCompetitions,
             claimFinalizationBatch, captureEnd, valueFinalizationBatch, advanceFinalization, PromoteFinalizationGeneration, Crash
      <4>2. ValidateRules(rules')
        BY <4>1 DEF CreateEdition
      <4> QED
        BY <1>4, <4>2 DEF ValidateRules, ParseEligibility, validateRule
    <3> QED
      BY <3>1 DEF AdmissionInv
  <2>3. ASSUME NEW u \in Users, NEW facts \in joining'[u]
        PROVE  PassedRules(facts)
    BY JoinsMove DEF AdmissionInv, joinWindowOpen, PassedRules
  <2>4. ASSUME NEW u \in Users, entries'[u].status = "admitted", NEW facts \in entries'[u].facts
        PROVE  facts \in Portfolios[u] /\ PassedRules(facts)
    <3>1. CASE entries'[u] = entries[u]
      BY <2>4, <3>1 DEF AdmissionInv
    <3>2. CASE entries'[u] # entries[u]
      <4>1. facts \in joining[u]
        BY <1>1, <2>4, <3>2 DEF EntryMove
      <4> QED
        BY <4>1 DEF AdmissionInv, EntryTypes
    <3> QED
      BY <3>1, <3>2
  <2> QED
    BY <1>1, <1>2, <1>3, <1>4, <2>1, <2>2, <2>3, <2>4 DEF AdmissionInv, PassedRules
<1>5. CASE lifecycle = "none" /\ ValidateRules(rules') /\ UNCHANGED entryVars
  <2>1. \A i \in DOMAIN rules'.eligibility.all : rules'.eligibility.all[i].metric \in Metrics
    BY <1>5 DEF ValidateRules, ParseEligibility, validateRule
  <2>2. \A u \in Users : entries'[u].status = "none" /\ joining'[u] = {}
    BY <1>5 DEF AdmissionInv, entryVars
  <2> QED
    BY <1>1, <1>2, <1>3, <2>1, <2>2 DEF AdmissionInv
<1> QED
  BY <1>4, <1>5, RulesAreFixed

\* Only the cash weight reads the cash.
LEMMA CashIsIdle ==
  ASSUME NEW facts, facts = [positions |-> facts.positions, cash |-> facts.cash, age |-> facts.age],
         NEW r, r.metric \in Metrics, r.metric # "cash_weight", NEW c
  PROVE  evaluateRule(r, facts) <=> evaluateRule(r, [facts EXCEPT !.cash = c])
<1> DEFINE g == [facts EXCEPT !.cash = c]
<1>1. g.positions = facts.positions /\ g.age = facts.age
  OBVIOUS
<1> HIDE DEF g
<1>2. filteredWeight(r.filter, g) = filteredWeight(r.filter, facts) /\ largestPositionWeight(g) = largestPositionWeight(facts)
  BY <1>1 DEF filteredWeight, largestPositionWeight, investedValueBase
<1>3. metricValue(r, g) = metricValue(r, facts)
  BY <1>1, <1>2 DEF metricValue, Metrics
<1> QED
  BY <1>3 DEF evaluateRule, g

\* Joining evaluates the rules against what is invested: whatever cash an admitted
\* portfolio had beside its holdings, every rule but the cash weight's own holds.
THEOREM AdmissionIsAboutHoldings == Spec => []AdmissionIgnoresIdleCash
<1>1. Init => AdmissionInv
  BY DEF Init, AdmissionInv, NoEntry, NoRules
<1>2. AdmissionInv => AdmissionIgnoresIdleCash
  <2> SUFFICES ASSUME AdmissionInv, NEW u \in Users, entries[u].status = "admitted", NEW facts \in entries[u].facts,
                      NEW i \in DOMAIN rules.eligibility.all, NEW cash \in {0, 2},
                      rules.eligibility.all[i].metric # "cash_weight"
               PROVE  evaluateRule(rules.eligibility.all[i], [facts EXCEPT !.cash = cash])
    BY DEF AdmissionIgnoresIdleCash
  <2>1. facts \in Portfolios[u] /\ PassedRules(facts)
    BY DEF AdmissionInv
  <2>2. facts = [positions |-> facts.positions, cash |-> facts.cash, age |-> facts.age]
    BY <2>1, CompetitionAssumption
  <2>3. evaluateRule(rules.eligibility.all[i], facts) /\ rules.eligibility.all[i].metric \in Metrics
    BY <2>1 DEF PassedRules, Evaluate
  <2> QED
    BY <2>2, <2>3, CashIsIdle
<1> QED
  BY <1>1, <1>2, FinalInvInit, FinalInvNext, AdmissionInvNext, PTL DEF Spec

-----------------------------------------------------------------------------
(* One baseline pass at a time *)

\* The scheduler's pass, under its lock, or an administrator's retry, but no two
\* at once: a retry takes no lock.
OnePass == \A w, x \in BaselineWorkers : baseline[w].at # "idle" /\ baseline[x].at # "idle" => w = x

\* A settled start is the value of the basket at the stored start observations,
\* and the pass under way values with what is stored.
StartInv ==
  /\ \A u \in Users : entries[u].status \in Committed =>
       priced(entries[u].basket, observed.start) /\ entries[u].start = total(entries[u].basket, observed.start)
  /\ \A w \in BaselineWorkers :
       /\ baseline[w].at = "capture" => baseline[w].view = observed.start /\ ~observed.start.sealed
       /\ baseline[w].at = "value" => baseline[w].view.price = observed.start.price /\ baseline[w].view.fx = observed.start.fx

\* What a baseline pass does to itself and to the stored start observations.
LEMMA PassesMove ==
  ASSUME EditionTypes, [Next]_vars
  PROVE  /\ Grows(observed.start, observed'.start)
         /\ \/ \E w \in BaselineWorkers : captureStart(w)
            \/ /\ observed'.start = observed.start
               /\ \A w \in BaselineWorkers :
                    \/ baseline'[w].at = "idle"
                    \/ baseline'[w].at = baseline[w].at /\ baseline'[w].view = baseline[w].view
                    \/ /\ baseline'[w].at = IF observed.start.sealed THEN "value" ELSE "capture"
                       /\ baseline'[w].view = observed.start
<1>1. baseline \in [BaselineWorkers -> Pass] /\ observed \in [start : View, end : View]
  BY DEF EditionTypes, PassTypes
<1>2. Grows(observed.start, observed.start)
  BY DEF Grows
<1>3. CASE \E w \in BaselineWorkers : captureStart(w)
  <2>1. PICK view, seal : observed' = [observed EXCEPT !.start = RecordObservations(@, view, seal)]
    BY <1>3 DEF captureStart
  <2> DEFINE set == RecordObservations(observed.start, view, seal)
  <2>2. observed'.start = set
    <3> HIDE DEF set
    <3>1. observed' = [observed EXCEPT !.start = set]
      BY <2>1 DEF set
    <3> QED
      BY <1>1, <3>1
  <2>3. Grows(observed.start, set)
    BY DEF RecordObservations, Grows
  <2> QED
    BY <1>3, <2>2, <2>3
<1>4. ASSUME NEW w \in BaselineWorkers, ListPendingBaselineEntries(w), NEW x \in BaselineWorkers
      PROVE  \/ baseline'[x] = baseline[x]
             \/ /\ baseline'[x].at = IF observed.start.sealed THEN "value" ELSE "capture"
                /\ baseline'[x].view = observed.start
  <2>1. PICK batch \in SUBSET Admitted :
          baseline' = [baseline EXCEPT ![w] =
            [NoPass EXCEPT !.at = IF observed.start.sealed THEN "value" ELSE "capture",
                           !.batch = batch, !.view = observed.start,
                           !.late = now > StartsAt + BaselineWindow,
                           !.lap = Cardinality(batch) < BaselineBatch]]
    BY <1>4 DEF ListPendingBaselineEntries
  <2> DEFINE at == IF observed.start.sealed THEN "value" ELSE "capture"
             late == now > StartsAt + BaselineWindow
             lap == Cardinality(batch) < BaselineBatch
             listed == [NoPass EXCEPT !.at = at, !.batch = batch, !.view = observed.start, !.late = late, !.lap = lap]
  <2>2. baseline' = [baseline EXCEPT ![w] = listed]
    BY <2>1
  <2>3. listed.at = at /\ listed.view = observed.start
    <3> HIDE DEF at, late, lap
    <3> QED
      BY DEF NoPass
  <2> HIDE DEF listed
  <2> QED
    BY <1>1, <2>2, <2>3
<1>5. ASSUME NEW w \in BaselineWorkers, NEW u, baselineEntry(w, u), NEW x \in BaselineWorkers
      PROVE  baseline'[x].at = "idle" \/ (baseline'[x].at = baseline[x].at /\ baseline'[x].view = baseline[x].view)
  <2>1. baseline' = IF baseline[w].batch = {u} THEN [baseline EXCEPT ![w] = NoPass] ELSE [baseline EXCEPT ![w].batch = @ \ {u}]
    BY <1>5 DEF baselineEntry
  <2>2. NoPass.at = "idle"
    BY DEF NoPass
  <2> QED
    BY <1>1, <2>1, <2>2 DEF Pass
<1>6. CASE captureEnd
  <2>1. observed'.start = observed.start /\ baseline' = baseline
    BY <1>6, CaptureStep DEF captureEnd, baselineVars
  <2> QED
    BY <1>2, <2>1
<1>7. CASE Crash
  <2>1. observed' = observed /\ \A w \in BaselineWorkers : baseline'[w].at = "idle"
    BY <1>7 DEF Crash, NoPass
  <2> QED
    BY <1>2, <2>1
<1>8. CASE \E w \in BaselineWorkers : ListPendingBaselineEntries(w)
  BY <1>2, <1>4, <1>8 DEF ListPendingBaselineEntries
<1>9. CASE \E w \in BaselineWorkers : \E u \in Users : baselineEntry(w, u)
  BY <1>2, <1>5, <1>9 DEF baselineEntry
<1>10. CASE baseline' = baseline /\ observed' = observed
  BY <1>2, <1>10
<1> QED
  BY <1>3, <1>6, <1>7, <1>8, <1>9, <1>10 DEF Next, vars, baselineVars, CreateVersion, CreateEdition, Publish, Cancel,
     AdvanceCompetitionLifecycles, TransitionLifecycle, Tick, joinEdition, CreateEngineEntry, Withdraw, DeleteAccount,
     RunCompetitionBaselines, FinalizeCompetitions, claimFinalizationBatch, valueFinalizationBatch, advanceFinalization,
     PromoteFinalizationGeneration

\* The only pass that captures has the stored set in hand.
LEMMA StartCaptured ==
  ASSUME EditionTypes, StartInv, OnePass, NEW w \in BaselineWorkers, captureStart(w), NEW x \in BaselineWorkers
  PROVE  /\ baseline'[x].at # "capture"
         /\ baseline'[x].at = "value" => baseline'[x].view.price = observed'.start.price /\ baseline'[x].view.fx = observed'.start.fx
<1>1. baseline \in [BaselineWorkers -> Pass] /\ observed \in [start : View, end : View]
  BY DEF EditionTypes, PassTypes
<1>2. baseline[w].at = "capture" /\ baseline[w].view = observed.start /\ ~observed.start.sealed /\ observed.start \in View
  BY <1>1 DEF captureStart, StartInv
<1>3. PICK answer \in Answers :
        LET old == baseline[w].view
            new == capture(old, baseline[w].batch, answer)
        IN  /\ observed' = [observed EXCEPT !.start =
                 RecordObservations(@, new, sealsSet(old, new, baseline[w].batch, baseline[w].lap))]
            /\ baseline' = [baseline EXCEPT ![w].at = "value", ![w].view = new]
  BY DEF captureStart
<1> DEFINE new == capture(observed.start, baseline[w].batch, answer)
           seal == sealsSet(observed.start, new, baseline[w].batch, baseline[w].lap)
           set == RecordObservations(observed.start, new, seal)
<1>4. /\ observed' = [observed EXCEPT !.start = set]
      /\ baseline' = [baseline EXCEPT ![w] = [[baseline[w] EXCEPT !.at = "value"] EXCEPT !.view = new]]
  BY <1>1, <1>2, <1>3
<1>5. new.price = set.price /\ new.fx = set.fx
  <2> HIDE DEF seal
  <2> QED
    BY <1>2, CaptureAgrees
<1> HIDE DEF new, set
<1>6. observed'.start = set
  BY <1>1, <1>4
<1>7. CASE x = w
  <2>1. baseline'[w] = [[baseline[w] EXCEPT !.at = "value"] EXCEPT !.view = new]
    BY <1>1, <1>4
  <2>2. baseline'[w].at = "value" /\ baseline'[w].view = new
    BY <1>1, <2>1 DEF Pass
  <2> QED
    BY <1>5, <1>6, <1>7, <2>2
<1>8. CASE x # w
  BY <1>1, <1>2, <1>4, <1>8 DEF OnePass
<1> QED
  BY <1>7, <1>8

\* Entries are settled with what the pass captured, and keep it.
LEMMA StartInvNext ==
  ASSUME FinalInv, StartInv, OnePass, [Next]_vars
  PROVE  StartInv'
<1>1. Moved /\ EditionTypes
  BY EntriesMove DEF FinalInv
<1>2. Grows(observed.start, observed'.start)
  BY <1>1, PassesMove
<1>3. ASSUME NEW u \in Users, entries'[u].status \in Committed
      PROVE  /\ priced(entries'[u].basket, observed'.start)
             /\ entries'[u].start = total(entries'[u].basket, observed'.start)
  <2>1. Holds(entries'[u].basket)
    BY <1>1 DEF Moved, EntryTypes
  <2>2. CASE entries[u].status \in Committed /\ Keeps(u)
    BY <1>2, <2>1, <2>2, ValuationStays DEF StartInv, Keeps
  <2>3. CASE entries[u].status = "admitted" /\ \E w \in BaselineWorkers : ValuedBy(w, entries'[u])
    <3>1. PICK w \in BaselineWorkers : ValuedBy(w, entries'[u])
      BY <2>3
    <3>2. baseline[w].view.price = observed.start.price /\ baseline[w].view.fx = observed.start.fx
      BY <3>1 DEF StartInv, ValuedBy
    <3>3. /\ priced(entries'[u].basket, observed.start)
          /\ entries'[u].start = total(entries'[u].basket, observed.start)
      BY <3>1, <3>2, ViewsAgree DEF ValuedBy
    <3> QED
      BY <1>2, <2>1, <3>3, ValuationStays
  <2>4. EntryMove(u)
    BY <1>1 DEF Moved
  <2>5. finalizing.at = "value" => \A v \in finalizing.batch : entries[v].status = "active"
    BY DEF FinalInv, ViewInv, Active
  <2> QED
    BY <1>3, <2>2, <2>3, <2>4, <2>5 DEF EntryMove, Committed, Keeps
<1>4. ASSUME NEW x \in BaselineWorkers
      PROVE  /\ baseline'[x].at = "capture" => baseline'[x].view = observed'.start /\ ~observed'.start.sealed
             /\ baseline'[x].at = "value" => baseline'[x].view.price = observed'.start.price /\ baseline'[x].view.fx = observed'.start.fx
  <2>1. CASE \E w \in BaselineWorkers : captureStart(w)
    BY <1>1, <2>1, StartCaptured
  <2>2. CASE ~\E w \in BaselineWorkers : captureStart(w)
    BY <1>1, <2>2, PassesMove DEF StartInv
  <2> QED
    BY <2>1, <2>2
<1> QED
  BY <1>3, <1>4 DEF StartInv

\* While baseline passes do not overlap, every start and every return is computed
\* from the one stored set of its boundary, across laps, retries, crashes and
\* failed writes.
THEOREM ResultsAreFromStoredObservations == Spec /\ []OnePass => []ResultsFromStoredObservations
<1>1. Init => StartInv
  BY DEF Init, StartInv, NoEntry, NoPass, Committed
<1>2. FinalInv /\ StartInv => ResultsFromStoredObservations
  <2> SUFFICES ASSUME FinalInv, StartInv
               PROVE  ResultsFromStoredObservations
    OBVIOUS
  <2>1. \A u \in Users : entries[u].status \in {"active", "disqualified", "finalized"} =>
          entries[u].start = total(entries[u].basket, observed.start)
    BY DEF StartInv, Committed
  <2>2. \A u \in DOMAIN results : results[u].return = returnOf(u, adjustedEntryBasket(u, StartsAt, EndsAt), observed.end)
    BY DEF FinalInv, OutsideInv, SettledInv, EndBasket, NoRows
  <2> QED
    BY <2>1, <2>2 DEF ResultsFromStoredObservations
<1> QED
  BY <1>1, <1>2, FinalInvInit, FinalInvNext, StartInvNext, PTL DEF Spec
=============================================================================
