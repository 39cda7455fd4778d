-------------------------- MODULE Pipelines_proofs --------------------------
(***************************************************************************)
(* Safety of what works through stored events in the background: the two   *)
(* event pipelines, for any provider, any holders and any number of        *)
(* faults, and the outbox, for any number of workers, events, retries and  *)
(* interruptions, and any batch size.                                      *)
(*                                                                         *)
(* Corporate actions: while a pass runs nobody touches the stored action,  *)
(* so all it adjusts, it adjusts by one set of terms; between passes an    *)
(* action that has adjusted someone is applied or superseded, which keeps  *)
(* later passes away from it.                                              *)
(*                                                                         *)
(* Income: a pass credits by the terms it started with, which were not     *)
(* cancelled; a row is followed from its claim through the credit to the   *)
(* corrections that read it.                                               *)
(*                                                                         *)
(* Outbox (TypeOK, Init, Next and Spec are the outbox's): a worker only    *)
(* ever holds events that are committed (BatchInv), and it reaches the     *)
(* archive step of an event only past a transition at or before it         *)
(* (CoveredInv).  History only grows, so a settlement may come as late as  *)
(* it likes, after its lease and from any worker.                          *)
(***************************************************************************)
EXTENDS IncomePipeline, CorporateActionPipeline, Outbox, Lemmas

-----------------------------------------------------------------------------
(* Corporate actions: the invariant *)

ActionRecord ==
  [status    : {"none", "cancelled", "unresolved", "validated", "scheduled", "applied", "superseded"},
   quality   : {"none", "cancelled", "incomplete", "high_confidence", "verified"},
   resolved  : BOOLEAN,
   terms     : {{}} \cup {Notices[i] : i \in Nat}]

PassRecord ==
  [at : {"idle", "process", "holders", "apply", "complete"}, ev : ActionRecord,
   todo : SUBSET Portfolios, since : {{}} \cup [Portfolios -> Nat], current : SUBSET Portfolios,
   any : BOOLEAN, applied : BOOLEAN]

ActionTypes ==
  /\ announced \in Nat /\ mishaps \in Nat /\ reopened \in BOOLEAN
  /\ action \in ActionRecord /\ pass \in PassRecord
  /\ acquired \in [Portfolios -> Nat] /\ DOMAIN adjustedBy = Portfolios

SomeoneAdjusted == \E p \in Portfolios : adjustedBy[p] # {}

\* All adjustments are by the terms of the pass under way, which will not end
\* without recording that there was one.
DuringPass ==
  pass.at \in {"holders", "apply", "complete"} =>
    /\ \A p \in Portfolios : adjustedBy[p] \in {{}, {pass.ev.terms}}
    /\ SomeoneAdjusted => pass.applied \/ pass.at = "complete"

\* Between passes an action that adjusted someone is out of reach of the next.
BetweenPasses ==
  pass.at \in {"idle", "process"} /\ SomeoneAdjusted => action.status \in {"applied", "superseded"}

ActionInv ==
  /\ ActionTypes
  /\ mishaps = 0 /\ ~reopened => DuringPass /\ BetweenPasses /\ OneSetOfTerms

-----------------------------------------------------------------------------
(* Corporate actions: the steps *)

\* Before the first notice.
LEMMA ActionInitInv ==
  ASSUME ActionInit
  PROVE  ActionInv
<1>1. NoAction \in ActionRecord
  BY DEF NoAction, ActionRecord
<1>2. NoPass \in PassRecord
  BY <1>1 DEF NoPass, PassRecord
<1>3. ActionTypes
  BY <1>1, <1>2, CorporateActionAssumption DEF ActionInit, ActionTypes
<1> QED
  BY <1>3 DEF ActionInit, ActionInv, DuringPass, BetweenPasses, OneSetOfTerms, SomeoneAdjusted, NoPass

\* A stored action has the columns' types, whatever the provider says.
LEMMA NormalizedTyped ==
  ASSUME NEW e \in {Notices[i] : i \in Nat}, NEW resolved \in BOOLEAN
  PROVE  normalizeAction(e, resolved) \in ActionRecord
BY DEF normalizeAction, assessActionQuality, ActionRecord

\* An upsert keeps what was applied from going back to pending; only a
\* superseded action can, and then the history says so.
LEMMA IngestInv ==
  ASSUME ActionInv, IngestActions
  PROVE  ActionInv'
<1> PICK resolved \in BOOLEAN : action' = UpsertAction(action, normalizeAction(FetchActions, resolved))
  BY DEF IngestActions
<1> DEFINE ev == normalizeAction(FetchActions, resolved)
<1>1. ev \in ActionRecord
  BY NormalizedTyped DEF ActionInv, ActionTypes, FetchActions
<1>2. \/ action' = action
      \/ action' = [ev EXCEPT !.status = IF action.status = "applied" THEN "superseded" ELSE @]
  BY DEF UpsertAction
<1>3. action' \in ActionRecord
  <2> HIDE DEF ev
  <2> QED
    BY <1>1, <1>2 DEF ActionInv, ActionTypes, ActionRecord
<1>4. action.status = "applied" => action'.status \in {"applied", "superseded"}
  <2> HIDE DEF ev
  <2> QED
    BY <1>1, <1>2 DEF ActionRecord
<1>5. /\ pass' = [pass EXCEPT !.at = "process"] /\ pass.at = "idle"
      /\ reopened' = (reopened \/ (action.status = "superseded" /\ action'.status # "superseded"))
      /\ mishaps' = mishaps /\ adjustedBy' = adjustedBy /\ announced' = announced /\ acquired' = acquired
  BY DEF IngestActions
<1>6. pass' \in PassRecord /\ pass'.at = "process"
  BY <1>5 DEF ActionInv, ActionTypes, PassRecord
<1>7. ActionTypes'
  BY <1>3, <1>5, <1>6 DEF ActionInv, ActionTypes
<1>8. ASSUME mishaps' = 0, ~reopened'
      PROVE  DuringPass' /\ BetweenPasses' /\ OneSetOfTerms'
  <2>1. DuringPass'
    BY <1>6 DEF DuringPass
  <2>2. BetweenPasses'
    BY <1>4, <1>5, <1>8 DEF ActionInv, BetweenPasses, SomeoneAdjusted
  <2>3. OneSetOfTerms'
    BY <1>5, <1>8 DEF ActionInv, OneSetOfTerms
  <2> QED
    BY <2>1, <2>2, <2>3
<1> QED
  BY <1>7, <1>8 DEF ActionInv

\* Only a pending action gets a pass, and a pending action adjusted nobody.
LEMMA ProcessActionsInv ==
  ASSUME ActionInv, ProcessActions
  PROVE  ActionInv'
<1>1. /\ pass.at = "process" /\ mishaps' = mishaps /\ adjustedBy' = adjustedBy /\ announced' = announced
      /\ acquired' = acquired /\ reopened' = reopened
      /\ \/ pass' = NoPass /\ action' = action
         \/ pass' = NoPass /\ action' = [action EXCEPT !.status = "unresolved"] /\ action.status \in Pending
         \/ /\ action.status \in Pending /\ action' = action
            /\ \E holders \in SUBSET Portfolios :
                 pass' = [NoPass EXCEPT !.at = "holders", !.ev = action, !.todo = holders, !.since = acquired,
                                        !.any = holders # {}]
  <2>1. HoldersOfSymbol \in SUBSET Portfolios /\ HoldersOfSymbol \cup HoldersOfInstrument \in SUBSET Portfolios
    BY DEF HoldersOfSymbol, HoldersOfInstrument
  <2> QED
    BY <2>1 DEF ProcessActions, SetActionStatus
<1>2. NoPass \in PassRecord /\ NoPass.at = "idle"
  BY DEF NoPass, PassRecord, NoAction, ActionRecord
<1>3. CASE pass' = NoPass
  <2>1. action' \in ActionRecord
    BY <1>1 DEF ActionInv, ActionTypes, ActionRecord
  <2>2. ActionTypes'
    BY <1>1, <1>2, <1>3, <2>1 DEF ActionInv, ActionTypes
  <2>3. action' = action \/ action.status \in Pending
    BY <1>1
  <2>4. mishaps = 0 /\ ~reopened => BetweenPasses'
    BY <1>1, <1>3, <2>3 DEF ActionInv, BetweenPasses, SomeoneAdjusted, Pending
  <2> QED
    BY <1>1, <1>2, <1>3, <2>2, <2>4 DEF ActionInv, DuringPass, OneSetOfTerms
<1>4. ASSUME NEW holders \in SUBSET Portfolios, action.status \in Pending, action' = action,
             pass' = [NoPass EXCEPT !.at = "holders", !.ev = action, !.todo = holders, !.since = acquired,
                                    !.any = holders # {}]
      PROVE  ActionInv'
  <2>1. pass' \in PassRecord /\ pass'.at = "holders"
    BY <1>4, <1>2 DEF ActionInv, ActionTypes, PassRecord, NoPass
  <2>2. ActionTypes'
    BY <1>1, <1>4, <2>1 DEF ActionInv, ActionTypes
  <2>3. mishaps = 0 /\ ~reopened => ~SomeoneAdjusted
    BY <1>1, <1>4 DEF ActionInv, BetweenPasses, Pending
  <2> QED
    BY <1>1, <2>1, <2>2, <2>3 DEF ActionInv, DuringPass, BetweenPasses, OneSetOfTerms, SomeoneAdjusted
<1> QED
  BY <1>1, <1>3, <1>4

\* Claiming changes rows and the pass, never an adjustment.
LEMMA ClaimPortfolioInv ==
  ASSUME ActionInv, NEW p \in Portfolios, claimPortfolio(p)
  PROVE  ActionInv'
<1>1. /\ pass.at = "holders" /\ action' = action /\ mishaps' = mishaps /\ adjustedBy' = adjustedBy
      /\ announced' = announced /\ acquired' = acquired /\ reopened' = reopened
      /\ \/ pass' = [pass EXCEPT !.todo = @ \ {p}]
         \/ pass' = [pass EXCEPT !.at = "apply", !.todo = @ \ {p}, !.current = {p}]
  BY DEF claimPortfolio
<1>2. /\ pass' \in PassRecord /\ pass'.at \in {"holders", "apply"}
      /\ pass'.ev = pass.ev /\ pass'.applied = pass.applied
  <2>1. pass \in PassRecord
    BY DEF ActionInv, ActionTypes
  <2>2. CASE pass' = [pass EXCEPT !.todo = @ \ {p}]
    BY <1>1, <2>1, <2>2 DEF PassRecord
  <2>3. CASE pass' = [pass EXCEPT !.at = "apply", !.todo = @ \ {p}, !.current = {p}]
    BY <2>1, <2>3 DEF PassRecord
  <2> QED
    BY <1>1, <2>2, <2>3
<1>3. ActionTypes'
  BY <1>1, <1>2 DEF ActionInv, ActionTypes
<1> QED
  BY <1>1, <1>2, <1>3 DEF ActionInv, DuringPass, BetweenPasses, OneSetOfTerms, SomeoneAdjusted

\* An adjustment is by the terms of the pass; without a mishap the pass goes on
\* to record it.
LEMMA AdjustInv ==
  ASSUME ActionInv, NEW p \in Portfolios, NEW answered \in BOOLEAN, adjustHolder(p, answered)
  PROVE  ActionInv'
<1>1. /\ pass.at = "apply" /\ action' = action /\ announced' = announced /\ acquired' = acquired
      /\ reopened' = reopened
      /\ \/ pass' = [pass EXCEPT !.at = "complete"] /\ answered
         \/ pass' = [pass EXCEPT !.at = "holders", !.current = {}] /\ (adjustedBy' = adjustedBy \/ ~answered)
      /\ mishaps' = IF answered THEN mishaps ELSE mishaps + 1
      /\ \/ adjustedBy' = adjustedBy
         \/ adjustedBy' = [adjustedBy EXCEPT ![p] = IF @ = {} THEN {pass.ev.terms} ELSE @]
  BY DEF adjustHolder, FailAdjustment, Mishap
<1>2. /\ pass' \in PassRecord /\ pass'.at \in {"complete", "holders"}
      /\ pass'.ev = pass.ev /\ pass'.applied = pass.applied
  <2>1. pass \in PassRecord
    BY DEF ActionInv, ActionTypes
  <2>2. CASE pass' = [pass EXCEPT !.at = "complete"]
    BY <2>1, <2>2 DEF PassRecord
  <2>3. CASE pass' = [pass EXCEPT !.at = "holders", !.current = {}]
    BY <2>1, <2>3 DEF PassRecord
  <2> QED
    BY <1>1, <2>2, <2>3
<1>3. pass'.at = "complete" \/ adjustedBy' = adjustedBy \/ ~answered
  BY <1>1 DEF ActionInv, ActionTypes, PassRecord
<1>4. ActionTypes'
  BY <1>1, <1>2 DEF ActionInv, ActionTypes
<1>5. ASSUME mishaps' = 0, ~reopened'
      PROVE  DuringPass' /\ BetweenPasses' /\ OneSetOfTerms'
  <2>1. answered /\ mishaps = 0 /\ ~reopened
    BY <1>1, <1>5 DEF ActionInv, ActionTypes
  <2>2. \A q \in Portfolios : adjustedBy[q] \in {{}, {pass.ev.terms}}
    BY <1>1, <2>1 DEF ActionInv, DuringPass
  <2>3. \A q \in Portfolios : adjustedBy'[q] \in {{}, {pass.ev.terms}}
    BY <1>1, <2>2 DEF ActionInv, ActionTypes
  <2>4. SomeoneAdjusted' => pass'.applied \/ pass'.at = "complete"
    BY <1>1, <1>2, <1>3, <2>1 DEF ActionInv, DuringPass, SomeoneAdjusted
  <2> QED
    BY <1>2, <2>3, <2>4 DEF DuringPass, BetweenPasses, OneSetOfTerms
<1> QED
  BY <1>4, <1>5 DEF ActionInv

\* A completed row makes the pass remember; a lost one is a mishap.
LEMMA CompleteInv ==
  ASSUME ActionInv, NEW p \in Portfolios, NEW written \in BOOLEAN, CompleteAdjustment(p, written)
  PROVE  ActionInv'
<1>1. /\ pass.at = "complete" /\ action' = action /\ announced' = announced /\ acquired' = acquired
      /\ reopened' = reopened /\ adjustedBy' = adjustedBy
      /\ \/ pass' = [pass EXCEPT !.at = "holders", !.current = {}, !.applied = TRUE] /\ mishaps' = mishaps
         \/ pass' = [pass EXCEPT !.at = "holders", !.current = {}] /\ mishaps' = mishaps + 1
  BY DEF CompleteAdjustment, FailAdjustment, Mishap
<1>2. /\ pass' \in PassRecord /\ pass'.at = "holders" /\ pass'.ev = pass.ev
      /\ mishaps' = mishaps => pass'.applied
      /\ mishaps' \in Nat /\ (mishaps' = 0 => mishaps' = mishaps)
  <2>1. mishaps \in Nat /\ pass \in PassRecord
    BY DEF ActionInv, ActionTypes
  <2>2. CASE pass' = [pass EXCEPT !.at = "holders", !.current = {}, !.applied = TRUE] /\ mishaps' = mishaps
    BY <2>1, <2>2 DEF PassRecord
  <2>3. CASE pass' = [pass EXCEPT !.at = "holders", !.current = {}] /\ mishaps' = mishaps + 1
    <3>1. pass' \in PassRecord /\ pass'.at = "holders" /\ pass'.ev = pass.ev
      BY <2>1, <2>3 DEF PassRecord
    <3>2. mishaps' \in Nat /\ mishaps' # mishaps /\ mishaps' # 0
      BY <2>1, <2>3
    <3> QED
      BY <3>1, <3>2
  <2> QED
    BY <1>1, <2>2, <2>3
<1>3. ActionTypes'
  BY <1>1, <1>2 DEF ActionInv, ActionTypes
<1> QED
  BY <1>1, <1>2, <1>3 DEF ActionInv, DuringPass, BetweenPasses, OneSetOfTerms, SomeoneAdjusted

\* A pass that adjusted someone ends with the action applied.
LEMMA FinishInv ==
  ASSUME ActionInv, finishAction
  PROVE  ActionInv'
<1>1. /\ pass.at = "holders" /\ announced' = announced /\ acquired' = acquired /\ mishaps' = mishaps
      /\ reopened' = reopened /\ adjustedBy' = adjustedBy /\ pass' = NoPass
      /\ action' = IF pass.applied \/ ~pass.any THEN [action EXCEPT !.status = "applied"] ELSE action
  BY DEF finishAction, SetActionStatus
<1>2. NoPass \in PassRecord /\ NoPass.at = "idle"
  BY DEF NoPass, PassRecord, NoAction, ActionRecord
<1>3. action' \in ActionRecord /\ (pass.applied => action'.status = "applied")
  BY <1>1 DEF ActionInv, ActionTypes, ActionRecord
<1>4. ActionTypes'
  BY <1>1, <1>2, <1>3 DEF ActionInv, ActionTypes
<1> QED
  BY <1>1, <1>2, <1>3, <1>4 DEF ActionInv, DuringPass, BetweenPasses, OneSetOfTerms, SomeoneAdjusted

\* Every step of ingestion, passes, notices, trades and mishaps keeps the invariant.
LEMMA ActionInvNext ==
  ASSUME ActionInv, [ActionNext]_actionVars
  PROVE  ActionInv'
<1>1. CASE UNCHANGED actionVars
  BY <1>1 DEF actionVars, ActionInv, ActionTypes, DuringPass, BetweenPasses, OneSetOfTerms, SomeoneAdjusted
<1>2. CASE announce
  BY <1>2 DEF announce, ActionInv, ActionTypes, DuringPass, BetweenPasses, OneSetOfTerms, SomeoneAdjusted
<1>3. ASSUME NEW p \in Portfolios, NEW since \in {0, 9}, trade(p, since)
      PROVE  ActionInv'
  BY <1>3 DEF trade, ActionInv, ActionTypes, DuringPass, BetweenPasses, OneSetOfTerms, SomeoneAdjusted
<1>4. CASE actionCrash
  <2>1. mishaps' \in Nat /\ mishaps' # 0
    BY <1>4 DEF actionCrash, Mishap, ActionInv, ActionTypes
  <2>2. NoPass \in PassRecord
    BY DEF NoPass, PassRecord, NoAction, ActionRecord
  <2> QED
    BY <1>4, <2>1, <2>2 DEF actionCrash, ActionInv, ActionTypes
<1> QED
  BY <1>1, <1>2, <1>3, <1>4, IngestInv, ProcessActionsInv, ClaimPortfolioInv, AdjustInv, CompleteInv, FinishInv
  DEF ActionNext, RunActions

\* Everyone an action was applied to was adjusted by one set of terms, however
\* often the provider revises it, unless a call failed, the process died or the
\* action was revised again after it was superseded (processEvent, UpsertEvent).
THEOREM OneSetOfTermsHolds == ActionSpec => []OneSetOfTerms
<1>1. ActionInit => ActionInv
  BY ActionInitInv
<1>2. ActionInv /\ [ActionNext]_actionVars => ActionInv'
  BY ActionInvNext
<1>3. ActionInv => OneSetOfTerms
  BY DEF ActionInv, OneSetOfTerms
<1> QED
  BY <1>1, <1>2, <1>3, PTL DEF ActionSpec

-----------------------------------------------------------------------------
(* Income: the invariant *)

Terms == {Revisions[i] : i \in DOMAIN Revisions}

EventRecord ==
  [status  : {"none", "cancelled", "unresolved", "scheduled", "superseded", "awaiting_payment", "applied",
              "processed_no_entitlement", "corrected"},
   quality : {"none", "cancelled", "incomplete", "conflicting", "verified"},
   terms   : {{}} \cup Terms]

WorkerRecord ==
  [at : {"idle", "process", "holders", "apply", "complete"}, ev : EventRecord,
   todo : SUBSET Holders, holder : SUBSET Holders, credited : BOOLEAN]

CorrectionRecord == [at : {"idle", "read", "record", "done"}, app : Application]

IncomeTypes ==
  /\ said \in DOMAIN Revisions /\ event \in EventRecord /\ incomePass \in WorkerRecord
  /\ apps \in [Holders -> Application] /\ received \in [Holders -> Int]
  /\ requests \subseteq Holders \cup Correctors /\ correcting \in [Correctors -> CorrectionRecord]

\* The quality on the row is that of the terms on the row.
EventInv == event.quality = "none" \/ (event.terms \in Terms /\ event.quality = assessQuality(event.terms))

\* A pass credits the terms that are stored while it runs, and they are verified.
CreditInv ==
  incomePass.at \in {"holders", "apply", "complete"} =>
    incomePass.ev.quality = "verified" /\ event.quality = "verified" /\ incomePass.ev.terms = event.terms

\* What the pass under way owes h.
Due(h) == applicationOf(incomePass.ev.terms, EligibleQuantity(h, entitlementDate(incomePass.ev.terms)))

Own(h)      == {c \in Correctors : CorrectionOf[c].holder = h}
Uncorrected(h) == \A c \in Own(h) : correcting[c].at = "idle" /\ c \notin requests
Unpaid(h)   == received[h] = 0 /\ h \notin requests

\* A row before its credit: nothing was paid, and it is the pass's to pay.
ClaimRow(h) ==
  /\ apps[h].status = "none" => Unpaid(h)
  /\ incomePass.at = "apply" /\ incomePass.holder = {h} => apps[h].status = "applying" /\ Unpaid(h)
  /\ incomePass.at = "complete" /\ incomePass.holder = {h} => apps[h].status = "applying" /\ received[h] = Due(h).net
  /\ apps[h].status \notin {"applied", "corrected"} => Uncorrected(h)

\* An applied row: the corrections under way have read it as it is, and the
\* first of them to book has booked its difference from it.
AppliedRow(h) ==
  apps[h].status = "applied" =>
    /\ \A c \in Own(h) : /\ correcting[c].at # "done"
                         /\ correcting[c].at \in {"read", "record"} => correcting[c].app = apps[h]
                         /\ correcting[c].at = "record" /\ c \notin requests =>
                              correctedNet(apps[h], CorrectionOf[c]) = apps[h].net
    /\ Own(h) \cap requests = {} => received[h] = apps[h].net
    /\ \A c \in Own(h) : Own(h) \cap requests = {c} => received[h] = correctedNet(apps[h], CorrectionOf[c])

\* A corrected row: someone corrected it, and if nobody else did it is exact.
CorrectedRow(h) ==
  apps[h].status = "corrected" =>
    /\ \E c \in Own(h) : correcting[c].at = "done"
    /\ (\A c, d \in CorrectedBy(h) : c = d) => received[h] = apps[h].net

RowInv(h) == ClaimRow(h) /\ AppliedRow(h) /\ CorrectedRow(h)

IncomeInv == IncomeTypes /\ EventInv /\ CreditInv /\ \A h \in Holders : RowInv(h)

-----------------------------------------------------------------------------
(* Income: the steps *)

\* What a due event pays is an application row, with status applied.
LEMMA DueTyped ==
  ASSUME IncomeInv, incomePass.at \in {"holders", "apply", "complete"}, NEW h \in Holders
  PROVE  Due(h) \in Application /\ Due(h).status = "applied"
<1>1. event.terms \in Terms /\ assessQuality(event.terms) = "verified" /\ incomePass.ev.terms = event.terms
  BY DEF IncomeInv, EventInv, CreditInv
<1>2. Due(h) \in Application
  BY <1>1, RequestsAssumption DEF Terms, Due
<1> QED
  BY <1>2 DEF Due, applicationOf

\* What a correction asks for is an amount.
LEMMA CorrectedNetTyped ==
  ASSUME NEW app \in Application, NEW c \in Correctors
  PROVE  correctedNet(app, CorrectionOf[c]) \in Int /\ withholdingAfter(app, CorrectionOf[c]) \in Int
<1>1. CorrectionOf[c].kind \in Kinds /\ CorrectionOf[c].value \in Int
  BY RequestsAssumption
<1>2. app.gross \in Int /\ app.withholding \in Int /\ app.fee \in Int /\ app.net \in Int
  BY DEF Application
<1> QED
  BY <1>1, <1>2 DEF Kinds, correctedNet, withholdingAfter

\* A step that leaves a holder's row, balance, request ids and corrections
\* alone, and does not hand the row to a pass, keeps the row's invariant.
LEMMA RowStable ==
  ASSUME NEW h \in Holders, RowInv(h), apps'[h] = apps[h], received'[h] = received[h],
         h \in requests' <=> h \in requests,
         \A c \in Own(h) : correcting'[c] = correcting[c] /\ (c \in requests' <=> c \in requests),
         incomePass'.at \in {"apply", "complete"} /\ incomePass'.holder = {h} =>
           incomePass'.at = incomePass.at /\ incomePass'.holder = incomePass.holder /\ incomePass'.ev = incomePass.ev
  PROVE  RowInv(h)'
<1>1. Own(h) = Own(h)'
  BY DEF Own
<1>2. ClaimRow(h)'
  BY <1>1 DEF RowInv, ClaimRow, Unpaid, Uncorrected, Due
<1>3. Own(h) \cap requests' = Own(h) \cap requests
  OBVIOUS
<1>4. AppliedRow(h)'
  BY <1>1, <1>3 DEF RowInv, AppliedRow
<1>5. CorrectedBy(h)' = CorrectedBy(h)
  BY DEF CorrectedBy, Own
<1>6. CorrectedRow(h)'
  BY <1>1, <1>5 DEF RowInv, CorrectedRow
<1> QED
  BY <1>2, <1>4, <1>6 DEF RowInv

\* Before the first announcement.
LEMMA IncomeInitInv ==
  ASSUME IncomeInit
  PROVE  IncomeInv
<1>1. NoEvent \in EventRecord /\ NoApp \in Application
  BY DEF NoEvent, EventRecord, NoApp, Application
<1>2. IdlePass \in WorkerRecord /\ IdleCorrection \in CorrectionRecord
  BY <1>1 DEF IdlePass, WorkerRecord, IdleCorrection, CorrectionRecord
<1>3. IncomeTypes
  BY <1>1, <1>2, RequestsAssumption DEF IncomeInit, IncomeTypes
<1>4. EventInv /\ CreditInv
  BY DEF IncomeInit, EventInv, CreditInv, NoEvent, IdlePass
<1>5. ASSUME NEW h \in Holders
      PROVE  RowInv(h)
  <2>1. apps[h].status = "none" /\ received[h] = 0 /\ requests = {} /\ incomePass.at = "idle"
    BY DEF IncomeInit, NoApp, IdlePass
  <2>2. \A c \in Own(h) : correcting[c].at = "idle"
    BY DEF IncomeInit, IdleCorrection, Own
  <2> QED
    BY <2>1, <2>2 DEF RowInv, ClaimRow, AppliedRow, CorrectedRow, Unpaid, Uncorrected
<1> QED
  BY <1>3, <1>4, <1>5 DEF IncomeInv

\* An upsert stores normalized terms with their quality, or keeps what is there.
LEMMA IngestIncomeInv ==
  ASSUME IncomeInv, Ingest
  PROVE  IncomeInv'
<1> DEFINE e == Revisions[said]
           ev == normalize(e)
<1>1. e \in Terms
  BY DEF IncomeInv, IncomeTypes, Terms
<1>2. ev \in EventRecord /\ ev.terms = e /\ ev.quality = assessQuality(e)
  <2>1. assessQuality(e) \in {"cancelled", "incomplete", "conflicting", "verified"}
    BY DEF assessQuality
  <2> QED
    BY <1>1, <2>1 DEF normalize, EventRecord
<1>3. /\ incomePass.at = "idle" /\ incomePass' = [incomePass EXCEPT !.at = "process"]
      /\ said' = said /\ apps' = apps /\ received' = received /\ requests' = requests /\ correcting' = correcting
      /\ \/ event' = event
         \/ event' = ev
         \/ event' = [ev EXCEPT !.status = "superseded"]
  <2>1. [ev EXCEPT !.status = @] = ev
    BY DEF normalize
  <2> QED
    BY <2>1 DEF Ingest, UpsertEvent
<1>4. incomePass' \in WorkerRecord /\ incomePass'.at = "process"
  BY <1>3 DEF IncomeInv, IncomeTypes, WorkerRecord
<1>5. event' \in EventRecord /\ EventInv'
  <2> HIDE DEF ev
  <2>1. CASE event' = event
    BY <2>1 DEF IncomeInv, IncomeTypes, EventInv
  <2>2. CASE event' = ev
    BY <1>1, <1>2, <2>2 DEF EventInv
  <2>3. CASE event' = [ev EXCEPT !.status = "superseded"]
    <3>1. event' \in EventRecord /\ event'.terms = ev.terms /\ event'.quality = ev.quality
      BY <1>2, <2>3 DEF EventRecord
    <3> QED
      BY <1>1, <1>2, <3>1 DEF EventInv
  <2> QED
    BY <1>3, <2>1, <2>2, <2>3
<1>6. \A h \in Holders : RowInv(h)'
  BY <1>3, <1>4, RowStable DEF IncomeInv
<1> QED
  BY <1>3, <1>4, <1>5, <1>6 DEF IncomeInv, IncomeTypes, CreditInv

\* A pass gets to the holders only with an event that may be credited.
LEMMA ProcessInv ==
  ASSUME IncomeInv, Process
  PROVE  IncomeInv'
<1>1. /\ incomePass.at = "process"
      /\ said' = said /\ apps' = apps /\ received' = received /\ requests' = requests /\ correcting' = correcting
      /\ \/ /\ incomePass' = IdlePass
            /\ \E st \in {"unresolved", "awaiting_payment"} : event' \in {event, [event EXCEPT !.status = st]}
         \/ /\ incomePass' = [IdlePass EXCEPT !.at = "holders", !.ev = event, !.todo = Holders] /\ event' = event
            /\ event.quality = "verified"
  BY DEF Process, SetEventStatus, mayCredit
<1>2. /\ event' \in EventRecord /\ event'.terms = event.terms /\ event'.quality = event.quality
  BY <1>1 DEF IncomeInv, IncomeTypes, EventRecord
<1>3. IdlePass \in WorkerRecord /\ IdlePass.at = "idle"
  BY DEF IdlePass, WorkerRecord, NoEvent, EventRecord
<1>4. CASE incomePass' = IdlePass
  <2>1. IncomeTypes' /\ EventInv' /\ CreditInv'
    BY <1>1, <1>2, <1>3, <1>4 DEF IncomeInv, IncomeTypes, EventInv, CreditInv
  <2>2. \A h \in Holders : RowInv(h)'
    BY <1>1, <1>3, <1>4, RowStable DEF IncomeInv
  <2> QED
    BY <2>1, <2>2 DEF IncomeInv
<1>5. CASE /\ incomePass' = [IdlePass EXCEPT !.at = "holders", !.ev = event, !.todo = Holders] /\ event' = event
           /\ event.quality = "verified"
  <2>1. incomePass' \in WorkerRecord /\ incomePass'.at = "holders" /\ incomePass'.ev = event
    BY <1>5 DEF IncomeInv, IncomeTypes, WorkerRecord, IdlePass
  <2>2. IncomeTypes' /\ EventInv' /\ CreditInv'
    BY <1>1, <1>2, <1>5, <2>1 DEF IncomeInv, IncomeTypes, EventInv, CreditInv
  <2>3. \A h \in Holders : RowInv(h)'
    BY <1>1, <2>1, RowStable DEF IncomeInv
  <2> QED
    BY <2>2, <2>3 DEF IncomeInv
<1> QED
  BY <1>1, <1>4, <1>5

\* Only a holder without a row is claimed, and nothing was paid to it.
LEMMA ClaimHolderInv ==
  ASSUME IncomeInv, NEW h \in Holders, NEW unread \in BOOLEAN, claimHolder(h, unread)
  PROVE  IncomeInv'
<1>1. /\ incomePass.at = "holders" /\ said' = said /\ event' = event /\ received' = received
      /\ requests' = requests /\ correcting' = correcting
      /\ \/ /\ apps[h].status = "none" /\ apps' = [apps EXCEPT ![h].status = "applying"]
            /\ incomePass' = [incomePass EXCEPT !.at = "apply", !.todo = @ \ {h}, !.holder = {h}]
         \/ incomePass' = [incomePass EXCEPT !.todo = @ \ {h}] /\ apps' = apps
  BY DEF claimHolder, ClaimApplication
<1>2. CASE incomePass' = [incomePass EXCEPT !.todo = @ \ {h}] /\ apps' = apps
  <2>1. incomePass' \in WorkerRecord /\ incomePass'.at = "holders" /\ incomePass'.ev = incomePass.ev
    BY <1>1, <1>2 DEF IncomeInv, IncomeTypes, WorkerRecord
  <2>2. \A g \in Holders : RowInv(g)'
    BY <1>1, <1>2, <2>1, RowStable DEF IncomeInv
  <2> QED
    BY <1>1, <1>2, <2>1, <2>2 DEF IncomeInv, IncomeTypes, EventInv, CreditInv
<1>3. CASE /\ apps[h].status = "none" /\ apps' = [apps EXCEPT ![h].status = "applying"]
           /\ incomePass' = [incomePass EXCEPT !.at = "apply", !.todo = @ \ {h}, !.holder = {h}]
  <2>1. incomePass' \in WorkerRecord /\ incomePass'.at = "apply" /\ incomePass'.ev = incomePass.ev /\ incomePass'.holder = {h}
    BY <1>3 DEF IncomeInv, IncomeTypes, WorkerRecord
  <2>2. apps' \in [Holders -> Application] /\ apps'[h].status = "applying" /\ \A g \in Holders \ {h} : apps'[g] = apps[g]
    BY <1>3 DEF IncomeInv, IncomeTypes, Application
  <2>3. \A g \in Holders \ {h} : RowInv(g)'
    BY <1>1, <2>1, <2>2, RowStable DEF IncomeInv
  <2>4. RowInv(h)'
    BY <1>1, <1>3, <2>1, <2>2
    DEF IncomeInv, RowInv, ClaimRow, AppliedRow, CorrectedRow, Unpaid, Uncorrected, Own
  <2>5. IncomeTypes' /\ EventInv' /\ CreditInv'
    BY <1>1, <2>1, <2>2 DEF IncomeInv, IncomeTypes, EventInv, CreditInv
  <2> QED
    BY <2>3, <2>4, <2>5 DEF IncomeInv
<1> QED
  BY <1>1, <1>2, <1>3

\* The portfolio pays a claimed row once; a row whose answer is lost is failed,
\* and says nothing of what was received.
LEMMA ApplyInv ==
  ASSUME IncomeInv, NEW h \in Holders, NEW outcome \in {"answered", "lost", "refused"}, applyToHolder(h, outcome)
  PROVE  IncomeInv'
<1>1. incomePass.at = "apply" /\ incomePass.holder = {h} /\ apps[h].status = "applying" /\ Unpaid(h)
  BY DEF applyToHolder, IncomeInv, RowInv, ClaimRow
<1>2. Due(h).net \in Int
  BY <1>1, DueTyped DEF Application
<1>3. /\ said' = said /\ event' = event /\ correcting' = correcting
      /\ \/ received' = received /\ requests' = requests /\ outcome = "refused"
         \/ received' = [received EXCEPT ![h] = @ + Due(h).net] /\ requests' = requests \cup {h}
      /\ \/ outcome = "answered" /\ incomePass' = [incomePass EXCEPT !.at = "complete"] /\ apps' = apps
         \/ outcome # "answered" /\ apps' = [apps EXCEPT ![h].status = "failed"]
            /\ incomePass' = [incomePass EXCEPT !.at = "holders", !.holder = {}]
  BY <1>1 DEF applyToHolder, ApplyIncomeEvent, FailApplication, Due, Unpaid
<1>4. /\ received' \in [Holders -> Int] /\ requests' \subseteq Holders \cup Correctors
      /\ \A g \in Holders \ {h} : received'[g] = received[g] /\ (g \in requests' <=> g \in requests)
      /\ \A c \in Correctors : c \in requests' <=> c \in requests
  BY <1>2, <1>3, RequestsAssumption DEF IncomeInv, IncomeTypes
<1>5. outcome = "answered" => received'[h] = Due(h).net
  BY <1>1, <1>2, <1>3 DEF Unpaid, IncomeInv, IncomeTypes
<1>6. /\ incomePass' \in WorkerRecord /\ incomePass'.ev = incomePass.ev
      /\ outcome = "answered" => incomePass'.at = "complete" /\ incomePass'.holder = {h}
      /\ outcome # "answered" => incomePass'.at = "holders" /\ incomePass'.holder = {}
  <2>1. incomePass \in WorkerRecord
    BY DEF IncomeInv, IncomeTypes
  <2>2. CASE outcome = "answered"
    BY <1>1, <1>3, <2>1, <2>2 DEF WorkerRecord
  <2>3. CASE outcome # "answered"
    BY <1>1, <1>3, <2>1, <2>3 DEF WorkerRecord
  <2> QED
    BY <2>2, <2>3
<1>7. /\ apps' \in [Holders -> Application] /\ \A g \in Holders \ {h} : apps'[g] = apps[g]
      /\ outcome = "answered" => apps'[h].status = "applying"
      /\ outcome # "answered" => apps'[h].status = "failed"
  BY <1>1, <1>3 DEF IncomeInv, IncomeTypes, Application
<1>8. \A g \in Holders \ {h} : RowInv(g)'
  BY <1>3, <1>4, <1>6, <1>7, RowStable DEF IncomeInv, Own
<1>9. RowInv(h)'
  <2>1. Uncorrected(h)'
    BY <1>1, <1>3, <1>4 DEF IncomeInv, RowInv, ClaimRow, Uncorrected, Own
  <2>2. Due(h)' = Due(h)
    BY <1>6 DEF Due
  <2> QED
    BY <1>5, <1>6, <1>7, <2>1, <2>2 DEF RowInv, ClaimRow, AppliedRow, CorrectedRow
<1>10. \A g \in Holders : RowInv(g)'
  BY <1>8, <1>9
<1> QED
  BY <1>1, <1>3, <1>4, <1>6, <1>7, <1>10 DEF IncomeInv, IncomeTypes, EventInv, CreditInv

\* The completed row says what was paid.
LEMMA CompleteHolderInv ==
  ASSUME IncomeInv, NEW h \in Holders, completeHolder(h)
  PROVE  IncomeInv'
<1>1. /\ incomePass.at = "complete" /\ incomePass.holder = {h} /\ apps[h].status = "applying"
      /\ received[h] = Due(h).net /\ Uncorrected(h)
  BY DEF completeHolder, IncomeInv, RowInv, ClaimRow
<1>2. Due(h) \in Application /\ Due(h).status = "applied"
  BY <1>1, DueTyped
<1>3. /\ said' = said /\ event' = event /\ correcting' = correcting
      /\ received' = received /\ requests' = requests /\ apps' = [apps EXCEPT ![h] = Due(h)]
      /\ incomePass' = [incomePass EXCEPT !.at = "holders", !.holder = {}, !.credited = TRUE]
  BY DEF completeHolder, CompleteApplication, Due
<1>4. incomePass' \in WorkerRecord /\ incomePass'.ev = incomePass.ev /\ incomePass'.at = "holders" /\ incomePass'.holder = {}
  BY <1>3 DEF IncomeInv, IncomeTypes, WorkerRecord
<1>5. apps' \in [Holders -> Application] /\ apps'[h] = Due(h) /\ \A g \in Holders \ {h} : apps'[g] = apps[g]
  BY <1>2, <1>3 DEF IncomeInv, IncomeTypes
<1>6. \A g \in Holders \ {h} : RowInv(g)'
  BY <1>3, <1>4, <1>5, RowStable DEF IncomeInv
<1>7. RowInv(h)'
  <2>1. \A c \in Own(h)' : correcting'[c].at = "idle" /\ c \notin requests'
    BY <1>1, <1>3 DEF Uncorrected, Own
  <2>2. apps'[h].status = "applied" /\ received'[h] = apps'[h].net
    BY <1>1, <1>2, <1>3, <1>5
  <2>3. ClaimRow(h)' /\ CorrectedRow(h)'
    BY <1>4, <2>2 DEF ClaimRow, CorrectedRow
  <2>4. AppliedRow(h)'
    BY <2>1, <2>2 DEF AppliedRow
  <2> QED
    BY <2>3, <2>4 DEF RowInv
<1>8. \A g \in Holders : RowInv(g)'
  BY <1>6, <1>7
<1> QED
  BY <1>1, <1>3, <1>4, <1>5, <1>8 DEF IncomeInv, IncomeTypes, EventInv, CreditInv

\* The end of a pass changes the event's status only.
LEMMA FinishEventInv ==
  ASSUME IncomeInv, finishEvent
  PROVE  IncomeInv'
<1>1. /\ said' = said /\ apps' = apps /\ received' = received /\ requests' = requests /\ correcting' = correcting
      /\ incomePass' = IdlePass
      /\ \E st \in {"applied", "processed_no_entitlement"} : event' = [event EXCEPT !.status = st]
  BY DEF finishEvent, SetEventStatus
<1>2. event' \in EventRecord /\ event'.terms = event.terms /\ event'.quality = event.quality
  BY <1>1 DEF IncomeInv, IncomeTypes, EventRecord
<1>3. IdlePass \in WorkerRecord /\ IdlePass.at = "idle"
  BY DEF IdlePass, WorkerRecord, NoEvent, EventRecord
<1>4. \A h \in Holders : RowInv(h)'
  BY <1>1, <1>3, RowStable DEF IncomeInv
<1> QED
  BY <1>1, <1>2, <1>3, <1>4 DEF IncomeInv, IncomeTypes, EventInv, CreditInv

\* A correction reads an applied row.
LEMMA ReadInv ==
  ASSUME IncomeInv, NEW c \in Correctors, readApplication(c)
  PROVE  IncomeInv'
<1> DEFINE h == CorrectionOf[c].holder
<1>1. h \in Holders
  BY RequestsAssumption
<1>2. /\ said' = said /\ event' = event /\ incomePass' = incomePass /\ apps' = apps /\ received' = received
      /\ requests' = requests /\ apps[h].status = "applied" /\ correcting[c].at = "idle"
      /\ correcting' = [correcting EXCEPT ![c] = [at |-> "read", app |-> apps[h]]]
  BY DEF readApplication
<1>3. /\ correcting' \in [Correctors -> CorrectionRecord]
      /\ correcting'[c].at = "read" /\ correcting'[c].app = apps[h]
      /\ \A d \in Correctors \ {c} : correcting'[d] = correcting[d]
  <2>1. [at |-> "read", app |-> apps[h]] \in CorrectionRecord
    BY <1>1 DEF IncomeInv, IncomeTypes, CorrectionRecord
  <2> QED
    BY <1>2, <2>1 DEF IncomeInv, IncomeTypes
<1>4. \A g \in Holders \ {h} : RowInv(g)'
  <2>1. \A g \in Holders \ {h} : c \notin Own(g) /\ Own(g) \subseteq Correctors
    BY DEF Own
  <2> QED
    BY <1>2, <1>3, <2>1, RowStable DEF IncomeInv
<1>5. RowInv(h)'
  <2>1. ClaimRow(h)' /\ CorrectedRow(h)'
    BY <1>1, <1>2 DEF IncomeInv, RowInv, ClaimRow, CorrectedRow, Unpaid, Uncorrected, Due
  <2>2. AppliedRow(h)'
    BY <1>1, <1>2, <1>3 DEF IncomeInv, RowInv, AppliedRow, Own
  <2> QED
    BY <2>1, <2>2 DEF RowInv
<1> QED
  BY <1>2, <1>3, <1>4, <1>5 DEF IncomeInv, IncomeTypes, EventInv, CreditInv

\* The difference is booked once per request id; if nobody booked before, it
\* takes the balance from the row's net to what the correction asks for.
LEMMA ApplyCorrectionInv ==
  ASSUME IncomeInv, NEW c \in Correctors, ApplyCorrection(c)
  PROVE  IncomeInv'
<1> DEFINE h     == CorrectionOf[c].holder
           app   == correcting[c].app
           delta == correctionDelta(app, CorrectionOf[c])
<1>1. h \in Holders /\ c \in Own(h) /\ c \notin Holders
  BY RequestsAssumption DEF Own
<1>2. app \in Application /\ correctedNet(app, CorrectionOf[c]) \in Int /\ app.net \in Int /\ delta \in Int
  <2>1. app \in Application
    BY DEF IncomeInv, IncomeTypes, CorrectionRecord
  <2> QED
    BY <2>1, CorrectedNetTyped DEF Application, correctionDelta
<1>3. /\ said' = said /\ event' = event /\ incomePass' = incomePass /\ apps' = apps /\ correcting[c].at = "read"
      /\ correcting' = [correcting EXCEPT ![c].at = "record"]
      /\ \/ (delta = 0 \/ c \in requests) /\ received' = received /\ requests' = requests
         \/ c \notin requests /\ received' = [received EXCEPT ![h] = @ + delta] /\ requests' = requests \cup {c}
  BY DEF ApplyCorrection
<1>4. /\ correcting' \in [Correctors -> CorrectionRecord]
      /\ correcting'[c].at = "record" /\ correcting'[c].app = app
      /\ \A d \in Correctors \ {c} : correcting'[d] = correcting[d]
  BY <1>3 DEF IncomeInv, IncomeTypes, CorrectionRecord
<1>5. /\ received' \in [Holders -> Int] /\ requests' \subseteq Holders \cup Correctors
      /\ \A g \in Holders \ {h} : received'[g] = received[g]
      /\ \A x \in Holders \cup (Correctors \ {c}) : x \in requests' <=> x \in requests
      /\ c \in requests => c \in requests'
  BY <1>1, <1>2, <1>3 DEF IncomeInv, IncomeTypes
<1>6. \A g \in Holders \ {h} : RowInv(g)'
  <2>1. \A g \in Holders \ {h} : c \notin Own(g) /\ Own(g) \subseteq Correctors
    BY DEF Own
  <2> QED
    BY <1>3, <1>4, <1>5, <2>1, RowStable DEF IncomeInv
<1>7. apps[h].status \in {"applied", "corrected"}
  BY <1>1, <1>3 DEF IncomeInv, RowInv, ClaimRow, Uncorrected
<1>8. ASSUME apps[h].status = "applied"
      PROVE  RowInv(h)'
  <2>1. app = apps[h]
    BY <1>1, <1>3, <1>8 DEF IncomeInv, RowInv, AppliedRow
  <2>2. c \notin requests' => correctedNet(apps[h], CorrectionOf[c]) = apps[h].net
    BY <1>2, <1>3, <1>5, <2>1 DEF correctionDelta
  <2>3. Own(h) \cap requests' = {} => received'[h] = apps[h].net
    BY <1>1, <1>3, <1>8 DEF IncomeInv, RowInv, AppliedRow
  <2>4. ASSUME NEW d \in Own(h), Own(h) \cap requests' = {d}
        PROVE  received'[h] = correctedNet(apps[h], CorrectionOf[d])
    <3>1. CASE requests' = requests /\ received' = received
      BY <1>1, <1>8, <2>4, <3>1 DEF IncomeInv, RowInv, AppliedRow
    <3>2. CASE c \notin requests /\ received' = [received EXCEPT ![h] = @ + delta] /\ requests' = requests \cup {c}
      <4>1. d = c /\ Own(h) \cap requests = {}
        BY <1>1, <2>4, <3>2
      <4>2. received[h] = apps[h].net
        BY <1>1, <1>8, <4>1 DEF IncomeInv, RowInv, AppliedRow
      <4>3. received'[h] = apps[h].net + delta
        BY <1>1, <3>2, <4>2 DEF IncomeInv, IncomeTypes
      <4>4. received'[h] = app.net + (correctedNet(app, CorrectionOf[c]) - app.net)
        BY <2>1, <4>3 DEF correctionDelta
      <4> QED
        BY <1>2, <2>1, <4>1, <4>4
    <3> QED
      BY <1>3, <3>1, <3>2
  <2>5. \A d \in Own(h) : /\ correcting'[d].at # "done"
                          /\ correcting'[d].at \in {"read", "record"} => correcting'[d].app = apps[h]
                          /\ correcting'[d].at = "record" /\ d \notin requests' =>
                               correctedNet(apps[h], CorrectionOf[d]) = apps[h].net
    <3>1. ASSUME NEW d \in Own(h), d # c
          PROVE  correcting'[d] = correcting[d] /\ (d \in requests' <=> d \in requests)
      BY <1>4, <1>5, <3>1 DEF Own
    <3> QED
      BY <1>1, <1>4, <1>8, <2>1, <2>2, <3>1 DEF IncomeInv, RowInv, AppliedRow
  <2>6. AppliedRow(h)'
    BY <1>3, <2>3, <2>4, <2>5 DEF AppliedRow, Own
  <2>7. ClaimRow(h)' /\ CorrectedRow(h)'
    BY <1>1, <1>3, <1>5, <1>8 DEF IncomeInv, RowInv, ClaimRow, CorrectedRow
  <2> QED
    BY <2>6, <2>7 DEF RowInv
<1>9. ASSUME apps[h].status = "corrected"
      PROVE  RowInv(h)'
  <2>1. PICK d \in Own(h) : correcting[d].at = "done"
    BY <1>1, <1>9 DEF IncomeInv, RowInv, CorrectedRow
  <2>2. d # c /\ d \in Correctors /\ correcting'[d].at = "done"
    BY <1>3, <1>4, <2>1 DEF Own
  <2>3. ASSUME \A x, y \in CorrectedBy(h)' : x = y
        PROVE  received'[h] = apps'[h].net
    <3>1. d \in CorrectedBy(h)'
      BY <2>1, <2>2 DEF CorrectedBy, Own
    <3>2. c \notin requests'
      BY <1>1, <2>2, <2>3, <3>1 DEF CorrectedBy, Own
    <3>3. requests' = requests /\ received' = received
      BY <1>3, <3>2
    <3>4. CorrectedBy(h)' = CorrectedBy(h)
      BY <1>3, <1>4, <3>3 DEF CorrectedBy
    <3> QED
      BY <1>1, <1>3, <1>9, <2>3, <3>3, <3>4 DEF IncomeInv, RowInv, CorrectedRow
  <2>4. CorrectedRow(h)'
    BY <2>1, <2>2, <2>3 DEF CorrectedRow, Own
  <2>5. ClaimRow(h)' /\ AppliedRow(h)'
    BY <1>1, <1>3, <1>5, <1>9 DEF IncomeInv, RowInv, ClaimRow, AppliedRow
  <2> QED
    BY <2>4, <2>5 DEF RowInv
<1>10. \A g \in Holders : RowInv(g)'
  BY <1>6, <1>7, <1>8, <1>9
<1> QED
  BY <1>3, <1>4, <1>5, <1>10 DEF IncomeInv, IncomeTypes, EventInv, CreditInv

\* The record makes the row say what the correction asked for; the balance says
\* so already if nobody else booked.
LEMMA RecordInv ==
  ASSUME IncomeInv, NEW c \in Correctors, recordCorrection(c)
  PROVE  IncomeInv'
<1> DEFINE h   == CorrectionOf[c].holder
           app == correcting[c].app
           net == correctedNet(app, CorrectionOf[c])
           done == [app EXCEPT !.status = "corrected", !.net = net,
                              !.withholding = withholdingAfter(app, CorrectionOf[c])]
<1>1. h \in Holders /\ c \in Own(h)
  BY RequestsAssumption DEF Own
<1>2. app \in Application /\ net \in Int /\ withholdingAfter(app, CorrectionOf[c]) \in Int
  <2>1. app \in Application
    BY DEF IncomeInv, IncomeTypes, CorrectionRecord
  <2> QED
    BY <2>1, CorrectedNetTyped
<1>3. done \in Application /\ done.status = "corrected" /\ done.net = net
  <2> HIDE DEF app, net
  <2> QED
    BY <1>2 DEF Application
<1>4. /\ said' = said /\ incomePass' = incomePass /\ received' = received /\ requests' = requests
      /\ correcting[c].at = "record" /\ correcting' = [correcting EXCEPT ![c].at = "done"]
      /\ apps' = [apps EXCEPT ![h] = done] /\ event' = [event EXCEPT !.status = "corrected"]
  BY DEF recordCorrection, CompleteApplication, SetEventStatus
<1>5. /\ correcting' \in [Correctors -> CorrectionRecord] /\ correcting'[c].at = "done"
      /\ \A d \in Correctors \ {c} : correcting'[d] = correcting[d]
  BY <1>4 DEF IncomeInv, IncomeTypes, CorrectionRecord
<1>6. /\ apps' \in [Holders -> Application] /\ apps'[h].status = "corrected" /\ apps'[h].net = net
      /\ \A g \in Holders \ {h} : apps'[g] = apps[g]
  <2> HIDE DEF done
  <2> QED
    BY <1>1, <1>3, <1>4 DEF IncomeInv, IncomeTypes
<1>7. event' \in EventRecord /\ event'.terms = event.terms /\ event'.quality = event.quality
  BY <1>4 DEF IncomeInv, IncomeTypes, EventRecord
<1>8. \A g \in Holders \ {h} : RowInv(g)'
  <2>1. \A g \in Holders \ {h} : c \notin Own(g) /\ Own(g) \subseteq Correctors
    BY DEF Own
  <2> QED
    BY <1>4, <1>5, <1>6, <2>1, RowStable DEF IncomeInv
<1>9. apps[h].status \in {"applied", "corrected"}
  BY <1>1, <1>4 DEF IncomeInv, RowInv, ClaimRow, Uncorrected
<1>10. ASSUME \A x, y \in CorrectedBy(h)' : x = y
       PROVE  received'[h] = apps'[h].net
  <2>1. c \in CorrectedBy(h)'
    BY <1>1, <1>5 DEF CorrectedBy, Own
  <2>2. \A d \in Own(h) : d \in requests \/ correcting[d].at = "done" => d = c
    <3>1. \A d \in Own(h) : d # c => correcting'[d] = correcting[d]
      BY <1>5 DEF Own
    <3>2. \A d \in Own(h) : d # c /\ (d \in requests \/ correcting[d].at = "done") => d \in CorrectedBy(h)'
      BY <1>4, <3>1 DEF CorrectedBy, Own
    <3> QED
      BY <1>10, <2>1, <3>2
  <2>3. apps[h].status = "applied"
    <3>1. ~ \E d \in Own(h) : correcting[d].at = "done"
      BY <1>4, <2>2
    <3> QED
      BY <1>1, <1>9, <3>1 DEF IncomeInv, RowInv, CorrectedRow
  <2>4. app = apps[h]
    BY <1>1, <1>4, <2>3 DEF IncomeInv, RowInv, AppliedRow
  <2>5. CASE c \in requests
    <3>1. Own(h) \cap requests = {c}
      BY <1>1, <2>2, <2>5
    <3> QED
      BY <1>1, <1>4, <1>6, <2>3, <2>4, <3>1 DEF IncomeInv, RowInv, AppliedRow
  <2>6. CASE c \notin requests
    <3>1. Own(h) \cap requests = {}
      BY <2>2, <2>6
    <3> QED
      BY <1>1, <1>4, <1>6, <2>3, <2>4, <2>6, <3>1 DEF IncomeInv, RowInv, AppliedRow
  <2> QED
    BY <2>5, <2>6
<1>11. RowInv(h)'
  <2>1. CorrectedRow(h)'
    BY <1>1, <1>5, <1>10 DEF CorrectedRow, Own
  <2>2. AppliedRow(h)'
    BY <1>6 DEF AppliedRow
  <2>3. ClaimRow(h)'
    BY <1>1, <1>4, <1>6, <1>9 DEF IncomeInv, RowInv, ClaimRow
  <2> QED
    BY <2>1, <2>2, <2>3 DEF RowInv
<1>12. \A g \in Holders : RowInv(g)'
  BY <1>8, <1>11
<1> QED
  BY <1>4, <1>5, <1>6, <1>7, <1>12 DEF IncomeInv, IncomeTypes, EventInv, CreditInv

\* A crash forgets the pass and the corrections that were not finished.
LEMMA CrashInv ==
  ASSUME IncomeInv, incomeCrash
  PROVE  IncomeInv'
<1>1. /\ said' = said /\ event' = event /\ apps' = apps /\ received' = received /\ requests' = requests
      /\ incomePass' = IdlePass
      /\ correcting' = [c \in Correctors |-> IF correcting[c].at = "done" THEN correcting[c] ELSE IdleCorrection]
  BY DEF incomeCrash
<1>2. /\ IdlePass \in WorkerRecord /\ IdlePass.at = "idle"
      /\ IdleCorrection \in CorrectionRecord /\ IdleCorrection.at = "idle"
  BY DEF IdlePass, WorkerRecord, NoEvent, EventRecord, IdleCorrection, CorrectionRecord, NoApp, Application
<1>3. \A c \in Correctors : \/ correcting[c].at = "done" /\ correcting'[c] = correcting[c]
                            \/ correcting[c].at # "done" /\ correcting'[c].at = "idle"
  BY <1>1, <1>2
<1>4. IncomeTypes'
  BY <1>1, <1>2 DEF IncomeInv, IncomeTypes
<1>5. ASSUME NEW h \in Holders
      PROVE  RowInv(h)'
  <2>1. RowInv(h) /\ Own(h)' = Own(h) /\ Own(h) \subseteq Correctors
    BY DEF IncomeInv, Own
  <2>2. ClaimRow(h)'
    BY <1>1, <1>2, <1>3, <2>1 DEF RowInv, ClaimRow, Unpaid, Uncorrected
  <2>3. AppliedRow(h)'
    BY <1>1, <1>3, <2>1 DEF RowInv, AppliedRow
  <2>4. CorrectedBy(h)' = CorrectedBy(h)
    BY <1>1, <1>3 DEF CorrectedBy
  <2>5. CorrectedRow(h)'
    BY <1>1, <1>3, <2>1, <2>4 DEF RowInv, CorrectedRow
  <2> QED
    BY <2>2, <2>3, <2>5 DEF RowInv
<1> QED
  BY <1>1, <1>2, <1>4, <1>5 DEF IncomeInv, EventInv, CreditInv

\* Revisions and days do not touch what is stored.
LEMMA OutsideInv ==
  ASSUME IncomeInv, publish \/ nextDay \/ UNCHANGED incomeVars
  PROVE  IncomeInv'
<1>1. /\ event' = event /\ apps' = apps /\ received' = received /\ requests' = requests
      /\ incomePass' = incomePass /\ correcting' = correcting
  BY DEF publish, nextDay, incomeVars
<1>2. said' \in DOMAIN Revisions
  BY RequestsAssumption DEF publish, nextDay, incomeVars, IncomeInv, IncomeTypes
<1>3. \A h \in Holders : RowInv(h)'
  BY <1>1, RowStable DEF IncomeInv
<1> QED
  BY <1>1, <1>2, <1>3 DEF IncomeInv, IncomeTypes, EventInv, CreditInv

\* Every step of passes, corrections, announcements and crashes keeps the invariant.
LEMMA IncomeInvNext ==
  ASSUME IncomeInv, [IncomeNext]_incomeVars
  PROVE  IncomeInv'
<1>1. ASSUME NEW h \in Holders, NEW unread \in BOOLEAN, claimHolder(h, unread)
      PROVE  IncomeInv'
  BY <1>1, ClaimHolderInv
<1>2. ASSUME NEW h \in Holders, NEW outcome \in {"answered", "lost", "refused"}, applyToHolder(h, outcome)
      PROVE  IncomeInv'
  BY <1>2, ApplyInv
<1>3. ASSUME NEW h \in Holders, completeHolder(h)
      PROVE  IncomeInv'
  BY <1>3, CompleteHolderInv
<1>4. ASSUME NEW c \in Correctors, readApplication(c) \/ ApplyCorrection(c) \/ recordCorrection(c)
      PROVE  IncomeInv'
  BY <1>4, ReadInv, ApplyCorrectionInv, RecordInv
<1> QED
  BY <1>1, <1>2, <1>3, <1>4, IngestIncomeInv, ProcessInv, FinishEventInv, CrashInv, OutsideInv DEF IncomeNext, RunOnce

\* The invariant of the income pipeline holds in every state of every behaviour.
THEOREM IncomeInvariance == IncomeSpec => []IncomeInv
<1>1. IncomeInit => IncomeInv
  BY IncomeInitInv
<1>2. IncomeInv /\ [IncomeNext]_incomeVars => IncomeInv'
  BY IncomeInvNext
<1> QED
  BY <1>1, <1>2, PTL DEF IncomeSpec

-----------------------------------------------------------------------------
(* Income: the results *)

\* The application row says what its portfolio received, whatever answers were
\* lost and whatever crashed, as long as no two corrections of it overlapped
\* (applyToHolder, applyCorrection).
THEOREM RowsTellTheTruth == IncomeSpec => []ReceivedMatchesApplication
<1>1. ASSUME IncomeInv
      PROVE  ReceivedMatchesApplication
  <2> SUFFICES ASSUME NEW h \in Holders, \A c, d \in CorrectedBy(h) : c = d
               PROVE  /\ apps[h].status = "none" => received[h] = 0
                      /\ apps[h].status = "corrected" => received[h] = apps[h].net
                      /\ apps[h].status = "applied" =>
                           \/ received[h] = apps[h].net
                           \/ \E c \in CorrectedBy(h) : received[h] = correctedNet(apps[h], CorrectionOf[c])
    BY DEF ReceivedMatchesApplication
  <2>1. RowInv(h)
    BY <1>1 DEF IncomeInv
  <2>2. ASSUME apps[h].status = "applied", received[h] # apps[h].net
        PROVE  \E c \in CorrectedBy(h) : received[h] = correctedNet(apps[h], CorrectionOf[c])
    <3>1. PICK c \in Own(h) : c \in requests
      BY <2>1, <2>2 DEF RowInv, AppliedRow
    <3>2. \A d \in Own(h) \cap requests : d \in CorrectedBy(h)
      BY DEF CorrectedBy, Own
    <3>3. Own(h) \cap requests = {c}
      BY <3>1, <3>2
    <3> QED
      BY <2>1, <2>2, <3>1, <3>2, <3>3 DEF RowInv, AppliedRow
  <2> QED
    BY <2>1, <2>2 DEF RowInv, ClaimRow, Unpaid, CorrectedRow
<1> QED
  BY <1>1, IncomeInvariance, PTL

\* While the stored terms say the event is cancelled, no portfolio is credited
\* for it: only applyToHolder credits, inside a pass whose terms are verified.
THEOREM CancelledIsNotCredited == IncomeSpec => CancelledNeverCredited
<1> DEFINE Kept == event.status # "none" /\ event.terms.cancelled => requests' \cap Holders = requests \cap Holders
<1>1. ASSUME IncomeInv, [IncomeNext]_incomeVars
      PROVE  Kept
  <2>1. ASSUME NEW h \in Holders, NEW outcome, applyToHolder(h, outcome), event.terms.cancelled
        PROVE  FALSE
    <3>1. assessQuality(event.terms) = "verified"
      BY <1>1, <2>1 DEF applyToHolder, IncomeInv, CreditInv, EventInv
    <3> QED
      BY <2>1, <3>1 DEF assessQuality
  <2>2. ASSUME NEW c \in Correctors, ApplyCorrection(c)
        PROVE  requests' \cap Holders = requests \cap Holders
    BY <2>2, RequestsAssumption DEF ApplyCorrection
  <2>3. \/ \E h \in Holders : \E outcome \in {"answered", "lost", "refused"} : applyToHolder(h, outcome)
        \/ \E c \in Correctors : ApplyCorrection(c)
        \/ requests' = requests
    BY <1>1 DEF IncomeNext, RunOnce, incomeVars, Ingest, Process, finishEvent, claimHolder, completeHolder,
       publish, nextDay, incomeCrash, readApplication, recordCorrection
  <2> QED
    BY <2>1, <2>2, <2>3
<1>2. IncomeInv /\ [IncomeNext]_incomeVars => [Kept]_incomeVars
  BY <1>1
<1> QED
  BY <1>2, IncomeInvariance, PTL DEF IncomeSpec, CancelledNeverCredited

-----------------------------------------------------------------------------
(* The outbox: the invariant *)

\* Some transition is on record at or before e.
Covered(e) == \E h \in history : h.at <= e

\* A claim takes committed events only, so the batch in hand is committed.
BatchInv == \A w \in Workers : worker[w].batch \subseteq Written

\* A processed event is covered, and so is the one a worker has just recorded
\* or found suppressed.
CoveredInv ==
  /\ \A e \in Events : row[e].processed => Covered(e)
  /\ \A w \in Workers : worker[w].at \in {"archive", "processed"} => Covered(worker[w].event)

\* The inductive invariant.
OutboxInv == TypeOK /\ BatchInv /\ CoveredInv

-----------------------------------------------------------------------------
(* The outbox: lemmas *)

\* Where a transition is on record at or before an instant, StatusAtOrBefore
\* finds a latest one.
LEMMA LatestExists ==
  ASSUME history \in SUBSET [at : Events, status : Statuses], NEW e \in Events, Covered(e)
  PROVE  LatestUpTo(e) # {}
<1> DEFINE Upto == {h \in history : h.at <= e}
           Gaps == {e - h.at : h \in Upto}
<1>1. e \in Nat /\ \A h \in history : h.at \in Nat
  BY OutboxAssumption DEF Events
<1>2. PICK c \in Upto : TRUE
  BY DEF Covered
<1>3. Gaps \in SUBSET Nat
  BY <1>1
<1>4. Gaps # {}
  BY <1>2
<1>5. PICK x \in Gaps : \A y \in Gaps : x <= y
  <2> HIDE DEF Gaps
  <2> QED
    BY <1>3, <1>4, LeastNatural
<1>6. PICK h \in Upto : x = e - h.at
  OBVIOUS
<1>7. \A g \in Upto : x <= e - g.at
  BY <1>5
<1>8. \A g \in history : g.at <= e => g.at <= h.at
  BY <1>1, <1>6, <1>7
<1> QED
  BY <1>6, <1>8 DEF LatestUpTo

\* The next event to be written is within the bound.
LEMMA NextIndex ==
  ASSUME Cardinality(Written) < MaxEvents
  PROVE  Cardinality(Written) + 1 \in Events
<1>1. IsFiniteSet(Events)
  BY OutboxAssumption, FS_Interval DEF Events
<1>2. IsFiniteSet(Written)
  BY <1>1, FS_Subset DEF Written
<1>3. Cardinality(Written) \in Nat
  BY <1>2, FS_CardinalityType
<1> QED
  BY <1>3, OutboxAssumption DEF Events

\* What a claim, an operator or the clock does to the rows.
RowCases(e) == RequeueOutboxEvent(e) \/ LeaseRunsOut(e) \/ BackoffEnds(e)

\* A step of one worker, at work or interrupted.
WorkerCases(w) ==
  \/ ClaimOutboxEvents(w) \/ NextEvent(w) \/ Look(w) \/ RecordTransition(w) \/ Archive(w)
  \/ Settle(w) \/ HandlerFails(w) \/ SettlementLost(w) \/ Crash(w)

\* Every step of Next is one of these.
LEMMA NextCases ==
  ASSUME [Next]_vars
  PROVE  \/ UNCHANGED vars
         \/ \E s \in Statuses : AppendOutbox(s)
         \/ \E e \in Events : RowCases(e)
         \/ \E w \in Workers : WorkerCases(w)
BY DEF Next, Work, RowCases, WorkerCases

\* An event once written stays written, and a transition once recorded stays:
\* no handler deletes from the outbox's statuses or from the history.
LEMMA NothingUnwritten ==
  ASSUME TypeOK, [Next]_vars
  PROVE  Written \subseteq Written' /\ history \subseteq history'
<1> USE DEF Written
<1>1. CASE UNCHANGED vars
  BY <1>1 DEF vars
<1>2. ASSUME NEW s \in Statuses, AppendOutbox(s)
      PROVE  Written \subseteq Written' /\ history \subseteq history'
  BY <1>2 DEF AppendOutbox, Statuses, TypeOK
<1>3. ASSUME NEW e \in Events, RowCases(e)
      PROVE  Written \subseteq Written' /\ history \subseteq history'
  BY <1>3 DEF RowCases, RequeueOutboxEvent, LeaseRunsOut, BackoffEnds
<1>4. ASSUME NEW w \in Workers, WorkerCases(w)
      PROVE  Written \subseteq Written' /\ history \subseteq history'
  BY <1>4 DEF WorkerCases, ClaimOutboxEvents, NextEvent, Look, RecordTransition, Archive, Settle,
     HandlerFails, SettlementLost, Crash
<1> QED
  BY <1>1, <1>2, <1>3, <1>4, NextCases

\* A processed row keeps the columns' types; so does a failed one.
LEMMA SettledRowTyped ==
  ASSUME TypeOK, NEW e \in Events
  PROVE  LET Row == [attempts : Nat, lease : {"none", "live", "expired"},
                     waiting : BOOLEAN, processed : BOOLEAN, dead : BOOLEAN]
         IN  Processed(row[e]) \in Row /\ Failed(row[e]) \in Row
BY DEF TypeOK, Processed, Failed

\* A claim stamps the rows it takes: their types hold and none becomes processed.
LEMMA ClaimedRows ==
  ASSUME TypeOK, NEW w \in Workers, ClaimOutboxEvents(w)
  PROVE  /\ row' \in [Events -> [attempts : Nat, lease : {"none", "live", "expired"},
                                 waiting : BOOLEAN, processed : BOOLEAN, dead : BOOLEAN]]
         /\ \A e \in Events : row'[e].processed = row[e].processed
<1> DEFINE Row == [attempts : Nat, lease : {"none", "live", "expired"},
                   waiting : BOOLEAN, processed : BOOLEAN, dead : BOOLEAN]
           Claimed(e) == [row[e] EXCEPT !.attempts = @ + 1, !.lease = "live"]
<1>1. \A e \in Events : /\ row[e] \in Row
                         /\ Claimed(e) \in Row
                         /\ Claimed(e).processed = row[e].processed
  <2> SUFFICES ASSUME NEW e \in Events
               PROVE  row[e] \in Row /\ Claimed(e) \in Row /\ Claimed(e).processed = row[e].processed
    OBVIOUS
  <2>1. row[e] \in Row
    BY DEF TypeOK
  <2>2. row[e].attempts + 1 \in Nat
    BY <2>1
  <2> QED
    BY <2>1, <2>2
<1> DEFINE batch == Oldest({e \in Events : Claimable(e)})
<1>2. row' = [e \in Events |-> IF e \in batch THEN Claimed(e) ELSE row[e]]
  BY DEF ClaimOutboxEvents
<1> HIDE DEF Row, Claimed, batch
<1>3. \A e \in Events : row'[e] = Claimed(e) \/ row'[e] = row[e]
  BY <1>2
<1>4. row' \in [Events -> Row]
  BY <1>1, <1>2
<1>5. \A e \in Events : row'[e].processed = row[e].processed
  BY <1>1, <1>3
<1> QED
  BY <1>4, <1>5 DEF Row

\* The loop's continuation is typed, keeps no event it does not need, and only
\* shrinks what the worker holds.
LEMMA GoOnTyped ==
  ASSUME TypeOK, NEW w \in Workers, GoOn(w)
  PROVE  /\ worker' \in [Workers -> [batch : SUBSET Events, event : Events \cup {0}, at : Stages]]
         /\ worker'[w].at \in {"poll", "next"}
         /\ worker'[w].batch \subseteq worker[w].batch
         /\ \A v \in Workers \ {w} : worker'[v] = worker[v]
BY DEF TypeOK, GoOn, Idle, Stages

\* The initial state satisfies the inductive invariant.
LEMMA OutboxInitInv == Init => OutboxInv
<1> SUFFICES ASSUME Init PROVE OutboxInv
  OBVIOUS
<1>1. TypeOK
  BY OutboxAssumption DEF Init, TypeOK, NewRow, Idle, Stages, Statuses
<1>2. BatchInv /\ CoveredInv
  BY DEF Init, BatchInv, CoveredInv, Idle, NewRow
<1> QED
  BY <1>1, <1>2 DEF OutboxInv

\* The mutations' own step: a new event, untouched by any worker.
LEMMA AppendStep ==
  ASSUME OutboxInv, NEW s \in Statuses, AppendOutbox(s)
  PROVE  OutboxInv'
<1> USE DEF OutboxInv
<1>1. Written \subseteq Written'
  BY NothingUnwritten DEF Next
<1>2. status' \in [Events -> Statuses \cup {"none"}]
  BY NextIndex DEF AppendOutbox, TypeOK
<1>3. TypeOK'
  BY <1>1, <1>2 DEF AppendOutbox, TypeOK
<1>4. BatchInv'
  BY <1>1 DEF AppendOutbox, BatchInv
<1>5. CoveredInv'
  BY DEF AppendOutbox, CoveredInv, Covered
<1> QED
  BY <1>3, <1>4, <1>5

\* A lease that runs out, a backoff that ends, a requeue by hand: only columns
\* the coverage does not depend on.
LEMMA RowStep ==
  ASSUME OutboxInv, NEW e \in Events, RowCases(e)
  PROVE  OutboxInv'
<1> USE DEF OutboxInv
<1>1. /\ \A d \in Events : row'[d].processed = row[d].processed
      /\ row' \in [Events -> [attempts : Nat, lease : {"none", "live", "expired"},
                              waiting : BOOLEAN, processed : BOOLEAN, dead : BOOLEAN]]
  <2>1. CASE RequeueOutboxEvent(e)
    BY <2>1 DEF RequeueOutboxEvent, TypeOK, NewRow
  <2>2. CASE LeaseRunsOut(e)
    BY <2>2 DEF LeaseRunsOut, TypeOK
  <2>3. CASE BackoffEnds(e)
    BY <2>3 DEF BackoffEnds, TypeOK
  <2> QED
    BY <2>1, <2>2, <2>3 DEF RowCases
<1>2. interruptions' \in 0..MaxInterruptions
  BY OutboxAssumption DEF RowCases, RequeueOutboxEvent, LeaseRunsOut, BackoffEnds, TypeOK, Interrupted
<1>3. UNCHANGED <<status, worker, history>>
  BY DEF RowCases, RequeueOutboxEvent, LeaseRunsOut, BackoffEnds
<1>4. TypeOK'
  BY <1>1, <1>2, <1>3 DEF TypeOK, Written
<1>5. BatchInv'
  BY <1>3 DEF BatchInv, Written
<1>6. CoveredInv'
  BY <1>1, <1>3 DEF CoveredInv, Covered
<1> QED
  BY <1>4, <1>5, <1>6

\* A step of a worker keeps the types.
LEMMA WorkerTyped ==
  ASSUME OutboxInv, NEW w \in Workers, WorkerCases(w)
  PROVE  TypeOK'
<1> USE DEF OutboxInv
<1>1. status' = status
  BY DEF WorkerCases, ClaimOutboxEvents, NextEvent, Look, RecordTransition, Archive, Settle,
     HandlerFails, SettlementLost, Crash
<1>2. Written' = Written
  BY <1>1 DEF Written
<1>3. interruptions' \in 0..MaxInterruptions
  <2>1. interruptions' = interruptions \/ Interrupted
    BY DEF WorkerCases, ClaimOutboxEvents, NextEvent, Look, RecordTransition, Archive, Settle,
       HandlerFails, SettlementLost, Crash
  <2> QED
    BY <2>1, OutboxAssumption DEF Interrupted, TypeOK
<1>4. history' \in SUBSET [at : Events, status : Statuses]
  <2>1. CASE RecordTransition(w)
    BY <2>1 DEF RecordTransition, TypeOK, Written
  <2> QED
    BY <2>1 DEF WorkerCases, ClaimOutboxEvents, NextEvent, Look, Archive, Settle, HandlerFails,
       SettlementLost, Crash, TypeOK
<1>5. row' \in [Events -> [attempts : Nat, lease : {"none", "live", "expired"},
                           waiting : BOOLEAN, processed : BOOLEAN, dead : BOOLEAN]]
  <2>1. CASE ClaimOutboxEvents(w)
    BY <2>1, ClaimedRows
  <2>2. CASE Settle(w)
    <3>1. worker[w].event \in Events
      BY <2>2 DEF Settle, TypeOK, Written
    <3> QED
      BY <2>2, <3>1, SettledRowTyped DEF Settle, TypeOK
  <2> QED
    BY <2>1, <2>2 DEF WorkerCases, NextEvent, Look, RecordTransition, Archive, HandlerFails,
       SettlementLost, Crash, TypeOK
<1>6. /\ worker' \in [Workers -> [batch : SUBSET Events, event : Events \cup {0}, at : Stages]]
      /\ \A v \in Workers : worker'[v].at \notin {"poll", "next"} => worker'[v].event \in Written
  <2>1. CASE ClaimOutboxEvents(w)
    BY <2>1 DEF ClaimOutboxEvents, Oldest, TypeOK, Stages
  <2>2. CASE NextEvent(w)
    BY <2>2 DEF NextEvent, TypeOK, Stages, BatchInv
  <2>3. CASE Look(w) \/ RecordTransition(w) \/ Archive(w) \/ HandlerFails(w)
    <3>1. PICK l \in {"archive", "insert", "processed", "failed"} : At(w, l)
      BY <2>3 DEF Look, RecordTransition, Archive, HandlerFails
    <3>2. worker[w].event \in Written
      BY <2>3 DEF Look, RecordTransition, Archive, HandlerFails, TypeOK
    <3> QED
      BY <3>1, <3>2 DEF At, TypeOK, Stages
  <2>4. CASE Settle(w) \/ SettlementLost(w)
    BY <2>4, GoOnTyped DEF Settle, SettlementLost, TypeOK
  <2>5. CASE Crash(w)
    BY <2>5 DEF Crash, Idle, TypeOK, Stages
  <2> QED
    BY <2>1, <2>2, <2>3, <2>4, <2>5 DEF WorkerCases
<1> QED
  BY <1>1, <1>2, <1>3, <1>4, <1>5, <1>6 DEF TypeOK

\* A step of a worker holds committed events only: a claim takes them from the
\* table, the loop and a crash only let go of them.
LEMMA WorkerBatch ==
  ASSUME OutboxInv, NEW w \in Workers, WorkerCases(w)
  PROVE  BatchInv'
<1> USE DEF OutboxInv
<1>1. Written' = Written
  BY DEF Written, WorkerCases, ClaimOutboxEvents, NextEvent, Look, RecordTransition, Archive, Settle,
     HandlerFails, SettlementLost, Crash
<1>2. \A v \in Workers : worker'[v].batch \subseteq Written
  <2>1. CASE ClaimOutboxEvents(w)
    BY <2>1 DEF ClaimOutboxEvents, Claimable, Oldest, BatchInv, TypeOK
  <2>2. CASE NextEvent(w)
    BY <2>2 DEF NextEvent, BatchInv, TypeOK
  <2>3. CASE Look(w) \/ RecordTransition(w) \/ Archive(w) \/ HandlerFails(w)
    BY <2>3 DEF Look, RecordTransition, Archive, HandlerFails, At, BatchInv, TypeOK
  <2>4. CASE Settle(w) \/ SettlementLost(w)
    BY <2>4, GoOnTyped DEF Settle, SettlementLost, BatchInv
  <2>5. CASE Crash(w)
    BY <2>5 DEF Crash, Idle, BatchInv, TypeOK
  <2> QED
    BY <2>1, <2>2, <2>3, <2>4, <2>5 DEF WorkerCases
<1> QED
  BY <1>1, <1>2 DEF BatchInv

\* A step of a worker keeps what is settled covered.  Look goes to the archive
\* only past an earlier transition of the same status, RecordTransition only past
\* the event's own; Settle marks processed what came that way.
LEMMA WorkerCovers ==
  ASSUME OutboxInv, NEW w \in Workers, WorkerCases(w)
  PROVE  CoveredInv'
<1> USE DEF OutboxInv
<1>1. history \subseteq history'
  BY NothingUnwritten DEF Next, WorkerCases, Work
<1>2. ASSUME NEW e, Covered(e)
      PROVE  Covered(e)'
  BY <1>1, <1>2 DEF Covered
<1>3. CASE ClaimOutboxEvents(w)
  <2>1. \A v \in Workers : worker'[v].at \in {"archive", "processed"} => worker'[v] = worker[v]
    BY <1>3 DEF ClaimOutboxEvents, TypeOK
  <2> QED
    BY <1>3, <2>1, ClaimedRows DEF ClaimOutboxEvents, CoveredInv, Covered
<1>4. CASE NextEvent(w)
  BY <1>2, <1>4 DEF NextEvent, CoveredInv, TypeOK
<1>5. CASE Look(w)
  <2>1. worker[w].event \in Nat
    BY <1>5, OutboxAssumption DEF Look, TypeOK, Written, Events
  <2>2. Suppressed(worker[w].event) => Covered(worker[w].event)
    BY <2>1, OutboxAssumption DEF Suppressed, LatestUpTo, Covered, TypeOK, Events
  <2> QED
    BY <1>2, <1>5, <2>2 DEF Look, At, CoveredInv, TypeOK
<1>6. CASE RecordTransition(w)
  <2>1. worker[w].event \in Nat
    BY <1>6, OutboxAssumption DEF RecordTransition, TypeOK, Written, Events
  <2>2. worker'[w].event = worker[w].event
    BY <1>6 DEF RecordTransition, At, TypeOK
  <2>3. [at |-> worker[w].event, status |-> status[worker[w].event]] \in history'
    BY <1>6 DEF RecordTransition
  <2>4. \E h \in history' : h.at <= worker'[w].event
    BY <2>1, <2>2, <2>3
  <2>5. \A v \in Workers \ {w} : worker'[v] = worker[v]
    BY <1>6 DEF RecordTransition, At, TypeOK
  <2>6. \A v \in Workers : worker'[v].at \in {"archive", "processed"} =>
          \E h \in history' : h.at <= worker'[v].event
    <3> SUFFICES ASSUME NEW v \in Workers, worker'[v].at \in {"archive", "processed"}
                 PROVE  \E h \in history' : h.at <= worker'[v].event
      OBVIOUS
    <3>1. CASE v = w
      BY <2>4, <3>1
    <3>2. CASE v # w
      BY <1>1, <2>5, <3>2 DEF CoveredInv, Covered
    <3> QED
      BY <3>1, <3>2
  <2>7. \A e \in Events : row'[e].processed => \E h \in history' : h.at <= e
    BY <1>1, <1>6 DEF RecordTransition, CoveredInv, Covered
  <2> QED
    BY <2>6, <2>7 DEF CoveredInv, Covered
<1>7. CASE Archive(w) \/ HandlerFails(w)
  BY <1>2, <1>7 DEF Archive, HandlerFails, At, CoveredInv, TypeOK
<1>8. CASE Settle(w)
  <2>1. \A v \in Workers : worker'[v].at \in {"archive", "processed"} => Covered(worker'[v].event)
    BY <1>8, GoOnTyped DEF Settle, CoveredInv
  <2>2. \A e \in Events : row'[e].processed => Covered(e)
    BY <1>8 DEF Settle, Processed, Failed, CoveredInv, TypeOK
  <2> QED
    BY <1>2, <1>8, <2>1, <2>2 DEF Settle, CoveredInv, Covered
<1>9. CASE SettlementLost(w)
  BY <1>9, GoOnTyped DEF SettlementLost, CoveredInv, Covered
<1>10. CASE Crash(w)
  BY <1>10 DEF Crash, Idle, CoveredInv, Covered, TypeOK
<1> QED
  BY <1>3, <1>4, <1>5, <1>6, <1>7, <1>8, <1>9, <1>10 DEF WorkerCases

-----------------------------------------------------------------------------
(* The outbox: theorems *)

\* The inductive invariant: committed events only in a worker's hands, and
\* nothing archived or settled that the history does not cover.
THEOREM OutboxInvariance == Spec => []OutboxInv
<1>1. OutboxInv /\ [Next]_vars => OutboxInv'
  <2> SUFFICES ASSUME OutboxInv, [Next]_vars PROVE OutboxInv'
    OBVIOUS
  <2>1. CASE UNCHANGED vars
    BY <2>1 DEF vars, OutboxInv, TypeOK, BatchInv, CoveredInv, Covered, Written
  <2>2. ASSUME NEW w \in Workers, WorkerCases(w) PROVE OutboxInv'
    BY <2>2, WorkerTyped, WorkerBatch, WorkerCovers DEF OutboxInv
  <2> QED
    BY <2>1, <2>2, AppendStep, RowStep, NextCases
<1> QED
  BY <1>1, OutboxInitInv, PTL DEF Spec

\* The outbox's rows, its workers and the history stay well formed.
THEOREM OutboxTypes == Spec => []TypeOK
<1>1. OutboxInv => TypeOK
  BY DEF OutboxInv
<1> QED
  BY <1>1, OutboxInvariance, PTL

\* ProcessOnce marks an event processed only where the history covers its
\* instant, for any number of workers, redeliveries, crashes and late
\* settlements.
THEOREM SettlementNeedsHistory == Spec => []SettledIsCovered
<1>1. OutboxInv => SettledIsCovered
  BY LatestExists DEF OutboxInv, TypeOK, CoveredInv, SettledIsCovered
<1> QED
  BY <1>1, OutboxInvariance, PTL

\* What a mutation committed to the outbox, and what the handler recorded in the
\* history, no worker, retry or requeue takes back.
THEOREM DeliveryOnlyAdds ==
  Spec => [][Written \subseteq Written' /\ history \subseteq history']_vars
<1>1. TypeOK /\ [Next]_vars => [Written \subseteq Written' /\ history \subseteq history']_vars
  BY NothingUnwritten
<1> QED
  BY <1>1, OutboxTypes, PTL DEF Spec
=============================================================================
