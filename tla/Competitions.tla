---------------------------- MODULE Competitions ----------------------------
(***************************************************************************)
(* One edition of the competition engine (internal/competitions): its      *)
(* definition and lifecycle, joining and withdrawing, the common baseline, *)
(* finalization, and the events committed with the results.  The live      *)
(* ranking of the same edition is CompetitionRanking.                      *)
(*                                                                         *)
(* An entry is identified by its user (one entry per user and edition), a  *)
(* number that also stands for the order of the entry ids.  Instants are   *)
(* numbers.  A price, a rate or a total of 0 means there is none.  Prices  *)
(* come from providers that may answer differently every time, or not at   *)
(* all.  A worker pass is several steps between which others run, and the  *)
(* process may die at any of them; row counters of a generation are kept   *)
(* as what their readers ask (was anything processed, did anything fail).  *)
(***************************************************************************)
EXTENDS CompetitionRules, Sequences

CONSTANTS
  Users,                \* 1..n
  Instruments, Foreign, \* those quoted in a foreign currency
  Quotes,               \* Quotes[i]: what a provider may answer for i, 0 for no answer
  Rates,                \* what the FX source may answer, 0 for no answer
  Portfolios,           \* Portfolios[u]: what u may hold when joining, facts records
  Leavers,              \* users who may delete their account
  Documents,            \* rule documents an administrator may submit
  Splits,               \* applied splits
  JoinOpensAt, JoinClosesAt, StartsAt, EndsAt, BaselineWindow, FinalizationWindow,
  Horizon,              \* bound: the last instant
  BaselineWorkers,      \* scheduler passes and administrators' retries
  BaselineBatch, FinalizationBatch,
  MaxVersions,          \* bound: versions of the definition
  MaxFaults             \* bound: crashes and failed row writes

\* CreateEdition refuses any other schedule.
ASSUME ScheduleAssumption ==
  /\ JoinOpensAt \in Nat /\ JoinClosesAt \in Nat /\ StartsAt \in Nat /\ EndsAt \in Nat
  /\ JoinOpensAt < JoinClosesAt /\ JoinClosesAt <= StartsAt /\ StartsAt < EndsAt

ASSUME CompetitionAssumption ==
  /\ IsFiniteSet(Users) /\ Users = 1..Cardinality(Users)
  /\ Quotes \in [Instruments -> SUBSET Nat] /\ Rates \subseteq Nat
  /\ \A u \in Users : \A facts \in Portfolios[u] :
       /\ facts = [positions |-> facts.positions, cash |-> facts.cash, age |-> facts.age]
       /\ \A p \in facts.positions : "instrument" \in DOMAIN p /\ p.instrument \in Instruments
  /\ BaselineWindow \in Nat /\ FinalizationWindow \in Nat /\ Horizon \in Nat
  /\ BaselineBatch \in Nat \ {0} /\ FinalizationBatch \in Nat \ {0}

VARIABLES
  now,
  lifecycle,   \* "none" before the edition exists
  versions,    \* the definition's versions, oldest first
  rules,       \* the snapshot the edition was created with
  entries,     \* entries[u]
  joining,     \* facts a join has captured and admitted but not yet inserted
  observed,    \* the "start" and the "end" observation set
  baseline,    \* the pass of each baseline worker
  final,       \* the building finalization generation
  finalizing,  \* the finalization pass
  results,     \* competition_results
  outbox,      \* participants with a competition.finalized event
  deleted,     \* users who deleted their account
  field,       \* who was active when the finalization began
  faults

catalogVars  == <<versions, rules>>
entryVars    == <<entries, joining>>
baselineVars == <<baseline>>
finalVars    == <<final, finalizing, results, outbox>>
vars == <<now, lifecycle, catalogVars, entryVars, observed, baselineVars, finalVars, deleted, field, faults>>

-----------------------------------------------------------------------------
(* State *)

Lifecycles == {"none", "draft", "published", "registration_open", "registration_closed",
               "active", "finalizing", "completed", "cancelled"}

\* Every edition may be cancelled, a completed one too.
cancellableAlways ==
  [l \in Lifecycles |->
     CASE l = "draft"               -> {"published", "cancelled"}
       [] l = "published"           -> {"registration_open", "cancelled"}
       [] l = "registration_open"   -> {"registration_closed", "cancelled"}
       [] l = "registration_closed" -> {"active", "cancelled"}
       [] l = "active"              -> {"finalizing", "cancelled"}
       [] OTHER                     -> {"completed", "cancelled"}]

lifecycleTransitions ==
  [l \in Lifecycles |->
     CASE l = "draft"               -> {"published", "cancelled"}
       [] l = "published"           -> {"registration_open", "cancelled"}
       [] l = "registration_open"   -> {"registration_closed", "cancelled"}
       [] l = "registration_closed" -> {"active", "cancelled"}
       [] l = "active"              -> {"finalizing", "cancelled"}
       [] l = "finalizing"          -> {"completed", "cancelled"}
       [] OTHER                     -> {}]

EntryStatuses == {"none", "admitted", "active", "withdrawn", "baseline_failed", "disqualified", "finalized"}
Outcomes      == {"withdrawn", "baseline_failed", "disqualified", "finalized"}

NoBasket == [held |-> {}, cash |-> 0]
NoEntry  == [status |-> "none", basket |-> NoBasket, joinedAt |-> 0, start |-> Zero, facts |-> {}]

NoView  == [price |-> [i \in Instruments |-> 0], fx |-> 0, sealed |-> FALSE]
NoPass  == [at |-> "idle", batch |-> {}, view |-> NoView, late |-> FALSE, lap |-> FALSE, failed |-> FALSE, lost |-> FALSE]

\* A generation: the cursor, whether anything was processed, whether an entry
\* could not be valued or a row could not be written, and the rows so far.
NoRows        == [u \in {} |-> Zero]
NewGeneration == [cursor |-> 0, worked |-> FALSE, failed |-> FALSE, lost |-> FALSE, rows |-> NoRows]
Admitted      == {u \in Users : entries[u].status = "admitted"}
Active        == {u \in Users : entries[u].status = "active"}

-----------------------------------------------------------------------------
(* Definitions and the edition (admin.go) *)

CreateVersion(doc) ==
  /\ Len(versions) < MaxVersions
  /\ ValidateRules(doc)
  /\ versions' = Append(versions, doc)
  /\ UNCHANGED <<now, lifecycle, rules, entryVars, observed, baselineVars, finalVars, deleted, field, faults>>

CreateEdition(v) ==
  /\ lifecycle = "none" /\ v \in DOMAIN versions
  /\ ValidateRules(versions[v])
  /\ lifecycle' = "draft" /\ rules' = versions[v]
  /\ UNCHANGED <<now, versions, entryVars, observed, baselineVars, finalVars, deleted, field, faults>>

TransitionLifecycle(from, to) ==
  /\ lifecycle = from /\ to \in lifecycleTransitions[from]
  /\ lifecycle' = to
  /\ field' = IF to = "finalizing" THEN Active ELSE {}
  /\ UNCHANGED <<now, catalogVars, entryVars, observed, baselineVars, finalVars, deleted, faults>>

Publish == now < JoinOpensAt /\ TransitionLifecycle("draft", "published")

Cancel == TransitionLifecycle(lifecycle, "cancelled")

DueAt(from) ==
  CASE from = "published"           -> JoinOpensAt
    [] from = "registration_open"   -> JoinClosesAt
    [] from = "registration_closed" -> StartsAt
    [] from = "active"              -> EndsAt

\* The list and the clock are read before the guarded update; an edition that
\* was due stays due and the guard refuses one that has moved.
AdvanceCompetitionLifecycles ==
  \E step \in {<<"published", "registration_open">>, <<"registration_open", "registration_closed">>,
               <<"registration_closed", "active">>, <<"active", "finalizing">>} :
    now >= DueAt(step[1]) /\ TransitionLifecycle(step[1], step[2])

Tick ==
  /\ now < Horizon /\ now' = now + 1
  /\ UNCHANGED <<lifecycle, catalogVars, entryVars, observed, baselineVars, finalVars, deleted, field, faults>>

-----------------------------------------------------------------------------
(* Joining and withdrawing (join.go) *)

joinWindowOpen == lifecycle = "registration_open" /\ JoinOpensAt <= now /\ now < JoinClosesAt

\* joinEdition up to the insert: the window, no entry yet, a version-consistent
\* snapshot, the rules.  A replay changes nothing.
joinEdition(u, facts) ==
  /\ joinWindowOpen
  /\ entries[u].status = "none" /\ joining[u] = {} /\ u \notin deleted
  /\ Evaluate(rules.eligibility, facts)
  /\ Scorable(FrozenBasket(rules.scoring, facts))
  /\ joining' = [joining EXCEPT ![u] = {facts}]
  /\ UNCHANGED <<now, lifecycle, catalogVars, entries, observed, baselineVars, finalVars, deleted, field, faults>>

\* The insert looks at nothing but the unique (competition, user) index.
CreateEngineEntry(u) ==
  /\ entries[u].status = "none"
  /\ \E facts \in joining[u] :
       entries' = [entries EXCEPT ![u] =
         [status |-> "admitted", basket |-> FrozenBasket(rules.scoring, facts),
          joinedAt |-> now, start |-> Zero, facts |-> {facts}]]
  /\ joining' = [joining EXCEPT ![u] = {}]
  /\ UNCHANGED <<now, lifecycle, catalogVars, observed, baselineVars, finalVars, deleted, field, faults>>

Withdraw(u) ==
  /\ now < JoinClosesAt /\ entries[u].status = "admitted"
  /\ entries' = [entries EXCEPT ![u].status = "withdrawn"]
  /\ UNCHANGED <<now, lifecycle, catalogVars, joining, observed, baselineVars, finalVars, deleted, field, faults>>

DeleteAccount(u) ==
  /\ u \in Leavers \ deleted /\ entries[u].status # "none"
  /\ deleted' = deleted \cup {u}
  /\ UNCHANGED <<now, lifecycle, catalogVars, entryVars, observed, baselineVars, finalVars, field, faults>>

-----------------------------------------------------------------------------
(* Boundary observations (observations.go) *)

entrySymbolsAndPairs(batch) == UNION {{p.instrument : p \in entries[u].basket.held} : u \in batch}

\* What the providers say now: an answer per instrument and one for the pair.
Answers == [price : {q \in [Instruments -> UNION {Quotes[i] : i \in Instruments}] :
                       \A i \in Instruments : q[i] \in Quotes[i]},
            fx : Rates]

captureAgain(view, batch, answer) ==
  LET wanted == entrySymbolsAndPairs(batch)
  IN  [view EXCEPT !.price = [i \in Instruments |-> IF i \in wanted /\ answer.price[i] # 0
                                                    THEN answer.price[i] ELSE view.price[i]],
                   !.fx = IF view.fx = 0 THEN answer.fx ELSE view.fx]

\* Instruments without a stored price are asked for; the rate is asked for when
\* one of them turns out to be foreign.
capture(view, batch, answer) ==
  LET new == {i \in entrySymbolsAndPairs(batch) : view.price[i] = 0 /\ answer.price[i] # 0}
  IN  [view EXCEPT !.price = [i \in Instruments |-> IF i \in new THEN answer.price[i] ELSE view.price[i]],
                   !.fx = IF new \cap Foreign # {} /\ view.fx = 0 THEN answer.fx ELSE view.fx]

\* Everything the batch asked for in this pass was captured, and it was the last.
sealsSet(old, new, batch, lastBatch) ==
  LET added == {i \in Instruments : old.price[i] = 0 /\ new.price[i] # 0}
  IN  /\ lastBatch
      /\ \A i \in entrySymbolsAndPairs(batch) : new.price[i] # 0
      /\ added \cap Foreign # {} => new.fx # 0

\* A stored row is never overwritten and a sealed set takes no more.
RecordObservations(set, view, seal) ==
  IF set.sealed THEN set
  ELSE [price  |-> [i \in Instruments |-> IF set.price[i] # 0 THEN set.price[i] ELSE view.price[i]],
        fx     |-> IF set.fx # 0 THEN set.fx ELSE view.fx,
        sealed |-> seal]

-----------------------------------------------------------------------------
(* Valuation *)

adjustedEntryBasket(u, from, through) ==
  [entries[u].basket EXCEPT !.held = {[p EXCEPT !.quantity = AdjustPosition(Splits, p, from, through)] : p \in @}]

priced(basket, view) ==
  \A p \in basket.held : view.price[p.instrument] # 0 /\ (p.instrument \in Foreign => view.fx # 0)

toBase(p, view) == p.quantity ** Rat(view.price[p.instrument] * IF p.instrument \in Foreign THEN view.fx ELSE 1)

total(basket, view) == FoldSet(LAMBDA p, sum : sum ++ toBase(p, view), Rat(basket.cash), basket.held)

\* valueCompetitionEntry: what the basket is worth over what it was worth.
returnOf(u, basket, view) == total(basket, view) // entries[u].start

-----------------------------------------------------------------------------
(* The baseline (baseline.go) *)

BaselineDue == lifecycle \in {"registration_closed", "active"} /\ now >= StartsAt

\* A pass lists a batch of pending entries and loads the stored observations.
ListPendingBaselineEntries(w) ==
  /\ baseline[w].at = "idle" /\ BaselineDue /\ Admitted # {}
  /\ \E batch \in SUBSET Admitted :
       /\ Cardinality(batch) = IF Cardinality(Admitted) < BaselineBatch THEN Cardinality(Admitted) ELSE BaselineBatch
       /\ baseline' = [baseline EXCEPT ![w] =
            [NoPass EXCEPT !.at = IF observed.start.sealed THEN "value" ELSE "capture",
                           !.batch = batch, !.view = observed.start,
                           !.late = now > StartsAt + BaselineWindow,
                           !.lap = Cardinality(batch) < BaselineBatch]]
  /\ UNCHANGED <<now, lifecycle, catalogVars, entryVars, observed, finalVars, deleted, field, faults>>

captureStart(w) ==
  /\ baseline[w].at = "capture"
  /\ \E answer \in Answers :
       LET old == baseline[w].view
           new == capture(old, baseline[w].batch, answer)
       IN  /\ observed' = [observed EXCEPT !.start =
                RecordObservations(@, new, sealsSet(old, new, baseline[w].batch, baseline[w].lap))]
           /\ baseline' = [baseline EXCEPT ![w].at = "value", ![w].view = new]
  /\ UNCHANGED <<now, lifecycle, catalogVars, entryVars, finalVars, deleted, field, faults>>

\* CompleteBaseline and FailBaseline touch an entry that is still admitted.
CompleteBaseline(u, basket, start) ==
  IF entries[u].status = "admitted"
  THEN [entries EXCEPT ![u].status = "active", ![u].basket = basket, ![u].start = start]
  ELSE entries

FailBaseline(u) == IF entries[u].status = "admitted" THEN [entries EXCEPT ![u].status = "baseline_failed"] ELSE entries

baselineEntry(w, u) ==
  LET basket == adjustedEntryBasket(u, entries[u].joinedAt, StartsAt)
      view   == baseline[w].view
  IN  /\ baseline[w].at = "value" /\ u \in baseline[w].batch
      /\ entries' = IF priced(basket, view) /\ Positive(total(basket, view)) THEN CompleteBaseline(u, basket, total(basket, view))
                    ELSE IF baseline[w].late THEN FailBaseline(u)
                    ELSE entries
      /\ baseline' = IF baseline[w].batch = {u} THEN [baseline EXCEPT ![w] = NoPass] ELSE [baseline EXCEPT ![w].batch = @ \ {u}]
      /\ UNCHANGED <<now, lifecycle, catalogVars, joining, observed, finalVars, deleted, field, faults>>

RunCompetitionBaselines(w) == ListPendingBaselineEntries(w) \/ captureStart(w) \/ \E u \in Users : baselineEntry(w, u)

-----------------------------------------------------------------------------
(* Finalization generations *)

\* The next entries after the cursor, in the order of their ids.
ClaimEntriesForFinalization(cursor, batch) ==
  LET rest == {u \in Active : u > cursor} IN {u \in rest : Cardinality({v \in rest : v < u}) < batch}

\* Rows already written are replaced.
UpsertRows(rows, new) == [u \in DOMAIN rows \cup DOMAIN new |-> IF u \in DOMAIN new THEN new[u] ELSE rows[u]]

\* The counters of the last pass only.
AdvanceForgettingFailures(gen, pass) ==
  [gen EXCEPT !.cursor = IF pass.lap THEN 0 ELSE IF pass.batch = {} THEN @ ELSE Max(pass.batch),
              !.worked = @ \/ pass.batch # {}, !.failed = pass.failed, !.lost = pass.lost]

AdvanceGeneration(gen, pass) ==
  [gen EXCEPT !.cursor = IF pass.lap THEN 0 ELSE IF pass.batch = {} THEN @ ELSE Max(pass.batch),
              !.worked = @ \/ pass.batch # {},
              !.failed = @ \/ pass.failed,
              !.lost   = @ \/ pass.lost]

Better(rows, u, v) == rows[v] \prec rows[u] \/ (rows[u] = rows[v] /\ u < v)

\* Rows of users who still exist, numbered from the best.
MaterializedRanks(rows) ==
  LET living == DOMAIN rows \ deleted
  IN  [u \in living |-> [rank |-> 1 + Cardinality({v \in living : Better(rows, v, u)}), return |-> rows[u]]]

Fault == faults < MaxFaults /\ faults' = faults + 1

-----------------------------------------------------------------------------
(* Finalization (finalize.go), one pass at a time *)

neverOverdue == FALSE

\* The retry window is over: what still has no price is disqualified.
finalizationOverdue == now > EndsAt + FinalizationWindow

claimFinalizationBatch ==
  LET batch == ClaimEntriesForFinalization(final.cursor, FinalizationBatch)
  IN  /\ finalizing.at = "idle" /\ lifecycle = "finalizing"
      /\ finalizing' = [NoPass EXCEPT !.at = IF observed.end.sealed THEN "value" ELSE "capture",
                                      !.batch = batch, !.view = observed.end,
                                      !.late = finalizationOverdue,
                                      !.lap = Cardinality(batch) < FinalizationBatch]
      /\ UNCHANGED <<now, lifecycle, catalogVars, entryVars, observed, baselineVars, final, results, outbox, deleted, field, faults>>

captureEnd ==
  /\ finalizing.at = "capture"
  /\ \E answer \in Answers :
       LET old == finalizing.view
           new == capture(old, finalizing.batch, answer)
       IN  /\ observed' = [observed EXCEPT !.end =
                RecordObservations(@, new, sealsSet(old, new, finalizing.batch, finalizing.lap))]
           /\ finalizing' = [finalizing EXCEPT !.at = "value", !.view = new]
  /\ UNCHANGED <<now, lifecycle, catalogVars, entryVars, baselineVars, final, results, outbox, deleted, field, faults>>

\* An entry is valued and its row written, or disqualified once the window is
\* over, or left to a later lap.
valueFinalizationBatch(lost) ==
  LET basket == [u \in finalizing.batch |-> adjustedEntryBasket(u, StartsAt, EndsAt)]
      valued == {u \in finalizing.batch : priced(basket[u], finalizing.view)}
      out    == IF finalizing.late THEN finalizing.batch \ valued ELSE {}
  IN  /\ finalizing.at = "value"
      /\ lost => valued # {} /\ Fault
      /\ ~lost => UNCHANGED faults
      /\ entries' = [u \in Users |-> IF u \in out THEN [entries[u] EXCEPT !.status = "disqualified"] ELSE entries[u]]
      /\ final' = IF lost THEN final
                  ELSE [final EXCEPT !.rows = UpsertRows(@, [u \in valued |-> returnOf(u, basket[u], finalizing.view)])]
      /\ finalizing' = [finalizing EXCEPT !.at = "advance", !.lost = lost,
                                          !.failed = (finalizing.batch \ valued) # out]
      /\ UNCHANGED <<now, lifecycle, catalogVars, joining, observed, baselineVars, results, outbox, deleted, field>>

advanceFinalization ==
  LET gen == AdvanceGeneration(final, finalizing)
  IN  /\ finalizing.at = "advance"
      /\ final' = IF finalizing.lap /\ (gen.failed \/ gen.lost) THEN NewGeneration ELSE gen
      /\ finalizing' = IF finalizing.lap /\ ~gen.failed /\ ~gen.lost THEN [NoPass EXCEPT !.at = "promote"] ELSE NoPass
      /\ UNCHANGED <<now, lifecycle, catalogVars, entryVars, observed, baselineVars, results, outbox, deleted, field, faults>>

\* Results, finalized entries, the completed edition, its events and the closed
\* generation in one transaction; a conflict leaves everything as it is.
PromoteFinalizationGeneration ==
  /\ finalizing.at = "promote"
  /\ finalizing' = NoPass
  /\ IF lifecycle = "finalizing"
     THEN /\ results' = MaterializedRanks(final.rows)
          /\ entries' = [u \in Users |-> IF u \in DOMAIN final.rows /\ entries[u].status = "active"
                                         THEN [entries[u] EXCEPT !.status = "finalized"] ELSE entries[u]]
          /\ lifecycle' = "completed"
          /\ outbox' = DOMAIN results'
          /\ final' = NewGeneration
     ELSE UNCHANGED <<results, entries, lifecycle, outbox, final>>
  /\ UNCHANGED <<now, catalogVars, joining, observed, baselineVars, deleted, field, faults>>

FinalizeCompetitions ==
  claimFinalizationBatch \/ captureEnd \/ valueFinalizationBatch(FALSE) \/ advanceFinalization \/ PromoteFinalizationGeneration

-----------------------------------------------------------------------------

\* The process dies: the passes are lost and their locks released.
Crash ==
  /\ Fault
  /\ \/ \E w \in BaselineWorkers : baseline[w].at # "idle"
     \/ finalizing.at # "idle"
  /\ baseline' = [w \in BaselineWorkers |-> NoPass] /\ finalizing' = NoPass
  /\ joining' = [u \in Users |-> {}]
  /\ UNCHANGED <<now, lifecycle, catalogVars, entries, observed, final, results, outbox, deleted, field>>

NoRules == [eligibility |-> {}, scoring |-> {}]

Init ==
  /\ now = 0 /\ lifecycle = "none"
  /\ versions = <<>> /\ rules = NoRules
  /\ entries = [u \in Users |-> NoEntry] /\ joining = [u \in Users |-> {}]
  /\ observed = [start |-> NoView, end |-> NoView]
  /\ baseline = [w \in BaselineWorkers |-> NoPass]
  /\ final = NewGeneration /\ finalizing = NoPass /\ results = NoRows /\ outbox = {}
  /\ deleted = {} /\ field = {} /\ faults = 0

Next ==
  \/ \E doc \in Documents : CreateVersion(doc)
  \/ \E v \in 1..MaxVersions : CreateEdition(v)
  \/ Publish \/ Cancel \/ AdvanceCompetitionLifecycles \/ Tick
  \/ \E u \in Users : (\E facts \in Portfolios[u] : joinEdition(u, facts)) \/ CreateEngineEntry(u) \/ Withdraw(u) \/ DeleteAccount(u)
  \/ \E w \in BaselineWorkers : RunCompetitionBaselines(w)
  \/ FinalizeCompetitions \/ valueFinalizationBatch(TRUE)
  \/ Crash

Spec == Init /\ [][Next]_vars

\* The scheduler ticks every worker; time passes.
FairSpec ==
  /\ Spec
  /\ WF_vars(Tick) /\ WF_vars(FinalizeCompetitions)

-----------------------------------------------------------------------------
(* Properties *)

\* Results are final: once an edition is completed nothing reprices, reorders
\* or removes a result, changes a scored entry or reopens the edition, whatever
\* passes were still under way.
ResultsAreFinal ==
  [][lifecycle = "completed" =>
       /\ lifecycle' = "completed" /\ results' = results
       /\ \A u \in Users : entries[u].status = "finalized" => entries'[u] = entries[u]]_vars

\* Every result was computed from the one stored end observation set and the
\* entry's own baseline, and that baseline from the stored start observations,
\* across laps, retries, crashes and failed writes.
ResultsFromStoredObservations ==
  /\ \A u \in Users : entries[u].status \in {"active", "disqualified", "finalized"} =>
       entries[u].start = total(entries[u].basket, observed.start)
  /\ \A u \in DOMAIN results :
       results[u].return = returnOf(u, adjustedEntryBasket(u, StartsAt, EndsAt), observed.end)

\* A completed edition settled its field: everybody who was active when the
\* finalization began was scored or disqualified by name, and the scored users
\* who still have an account are exactly those with a result and an event.
FieldIsSettled ==
  lifecycle = "completed" =>
    /\ \A u \in field : entries[u].status \in {"finalized", "disqualified"}
    /\ \A u \in Users : entries[u].status = "finalized" => u \in DOMAIN results \cup deleted
    /\ DOMAIN results = outbox
    /\ \A u \in DOMAIN results : entries[u].status = "finalized"

\* Nobody is admitted on account of idle cash: the composition rules an entry
\* passed hold for its holdings whatever cash lies beside them.
AdmissionIgnoresIdleCash ==
  \A u \in Users : entries[u].status = "admitted" =>
    \A facts \in entries[u].facts, i \in DOMAIN rules.eligibility.all, cash \in {0, 2} :
      rules.eligibility.all[i].metric # "cash_weight" =>
        evaluateRule(rules.eligibility.all[i], [facts EXCEPT !.cash = cash])

\* An edition that reached finalization ends: completed, or cancelled.
FinalizationEnds == lifecycle = "finalizing" ~> lifecycle \in {"completed", "cancelled"}

\* "an entry that cannot be fully priced is never baselined partially and never
\* silently dropped": every entry of a completed edition has an outcome.
NeverSilentlyDropped ==
  lifecycle = "completed" => \A u \in Users : entries[u].status \in Outcomes \cup {"none"}

\* A sealed set holds what every entry of its boundary needs.
SealedIsComplete ==
  observed.end.sealed => \A u \in Active : priced(entries[u].basket, observed.end)
=============================================================================
