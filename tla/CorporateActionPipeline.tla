----------------------- MODULE CorporateActionPipeline -----------------------
(***************************************************************************)
(* The corporate action pipeline (internal/corpactions): a provider's      *)
(* announcements of one split or symbol change are ingested and applied to *)
(* every position that was held when it took effect.  Store operations are *)
(* those of the Postgres store.  What a split does to a book is            *)
(* PortfolioLedger's; here it matters who is adjusted and by which terms.  *)
(* Days are numbers; acquired is 0 where nothing is held.                  *)
(***************************************************************************)
EXTENDS Integers, Sequences, FiniteSets

CONSTANTS
  Portfolios,
  Drifted,       \* portfolios whose position is stored under an older ticker
  Notices,       \* what the provider says of the action, in order
  AcquiredOn,    \* the day each portfolio acquired its position
  MaxTrades,     \* bound: positions closed or opened again
  MaxMishaps     \* bound: failed calls and crashes

ASSUME CorporateActionAssumption == Drifted \subseteq Portfolios /\ AcquiredOn \in [Portfolios -> Nat]

VARIABLES
  announced,  \* notices published so far
  action,     \* the stored corporate action
  rows,       \* rows[p]: the status of its application
  acquired,   \* acquired[p]: since when the position is open
  adjustedBy, \* adjustedBy[p]: the terms p was adjusted by, as a set
  pass,       \* the worker's pass
  reopened,   \* history: a superseded action was revised again
  trades, mishaps

actionVars == <<announced, action, rows, acquired, adjustedBy, pass, reopened, trades, mishaps>>

NoAction == [status |-> "none", quality |-> "none", resolved |-> FALSE, terms |-> {}]
NoPass   == [at |-> "idle", ev |-> NoAction, todo |-> {}, since |-> {}, current |-> {}, any |-> FALSE, applied |-> FALSE]

Mishap == mishaps < MaxMishaps /\ mishaps' = mishaps + 1

-----------------------------------------------------------------------------
(* Events (provider.go, service.go) *)

autoAppliesType(type) == type \in {"split", "reverse_split", "symbol_change"}

termsComplete(e) == IF e.type = "symbol_change" THEN e.target # "" ELSE e.num > 0 /\ e.den > 0

\* Mergers and spin-offs need terms of their own; only what is in effect is verified.
assessActionQuality(e) ==
  IF e.cancelled THEN "cancelled"
  ELSE IF autoAppliesType(e.type) /\ ~termsComplete(e) THEN "incomplete"
  ELSE IF e.type = "spin_off" /\ (e.target = "" \/ e.num = 0 \/ e.den = 0) THEN "incomplete"
  ELSE IF ~e.effective THEN "high_confidence"
  ELSE "verified"

\* matchInstrument fills in the identity where the resolver knows the ticker.
normalizeAction(e, resolved) ==
  LET quality == assessActionQuality(e)
  IN  [terms |-> e, quality |-> quality, resolved |-> resolved,
       status |-> IF e.cancelled THEN "cancelled" ELSE IF quality = "incomplete" THEN "unresolved"
                  ELSE IF e.effective THEN "validated" ELSE "scheduled"]

isAutoApplicable(ev) == autoAppliesType(ev.terms.type) /\ ev.quality = "verified" /\ termsComplete(ev.terms)

-----------------------------------------------------------------------------
(* The store (postgres_store.go) *)

Pending == {"detected", "validated", "scheduled", "unresolved", "failed_retryable"}

UpsertActionKeepingPending(stored, ev) ==
  IF stored.status # "none" /\ stored.terms = ev.terms THEN stored ELSE ev

\* New terms replace the old; if those were applied the action is superseded.
UpsertAction(stored, ev) ==
  IF stored.status # "none" /\ stored.terms = ev.terms THEN stored
  ELSE [ev EXCEPT !.status = IF stored.status = "applied" THEN "superseded" ELSE @]

SetActionStatus(status) == action' = [action EXCEPT !.status = status]

ClaimAdjustment(p) == rows[p] = "none"

\* Skipping overwrites whatever the row said.
SkipAdjustment(p) == rows' = [rows EXCEPT ![p] = "skipped"]

-----------------------------------------------------------------------------
(* The worker's pass *)

\* What the provider says of the action now: splits and name changes, effective
\* once their date has come.
FetchActions == Notices[announced]

IngestActions ==
  /\ pass.at = "idle"
  /\ \E resolved \in BOOLEAN : action' = UpsertAction(action, normalizeAction(FetchActions, resolved))
  /\ pass' = [pass EXCEPT !.at = "process"]
  /\ reopened' = (reopened \/ (action.status = "superseded" /\ action'.status # "superseded"))
  /\ UNCHANGED <<announced, rows, acquired, adjustedBy, trades, mishaps>>

HoldersOfSymbol == {p \in Portfolios \ Drifted : acquired[p] # 0}

HoldersOfInstrument == {p \in Portfolios : acquired[p] # 0}

\* processEvent up to the holders.  Holders by identity are added to those by
\* ticker.
ProcessActions ==
  LET holders == IF action.resolved THEN HoldersOfSymbol \cup HoldersOfInstrument ELSE HoldersOfSymbol
  IN  /\ pass.at = "process"
      /\ IF action.status \notin Pending \/ action.quality = "cancelled"
         THEN pass' = NoPass /\ UNCHANGED action
         ELSE IF ~isAutoApplicable(action)
         THEN /\ pass' = NoPass
              /\ IF action.quality = "incomplete" \/ ~autoAppliesType(action.terms.type)
                 THEN SetActionStatus("unresolved") ELSE UNCHANGED action
         ELSE /\ pass' = [NoPass EXCEPT !.at = "holders", !.ev = action, !.todo = holders, !.since = acquired,
                                        !.any = holders # {}]
              /\ UNCHANGED action
      /\ UNCHANGED <<announced, rows, acquired, adjustedBy, reopened, trades, mishaps>>

acquiredNotBefore(since, effectiveAt) == since >= effectiveAt

\* Bought after the action took effect, at prices that reflect it.
acquiredAfter(since, effectiveAt) == since > effectiveAt

\* A later acquisition is skipped, a row that exists is left alone.
claimPortfolio(p) ==
  /\ pass.at = "holders" /\ p \in pass.todo
  /\ IF acquiredAfter(pass.since[p], pass.ev.terms.effectiveAt)
     THEN SkipAdjustment(p) /\ pass' = [pass EXCEPT !.todo = @ \ {p}]
     ELSE IF ClaimAdjustment(p)
     THEN rows' = [rows EXCEPT ![p] = "applying"] /\ pass' = [pass EXCEPT !.at = "apply", !.todo = @ \ {p}, !.current = {p}]
     ELSE UNCHANGED rows /\ pass' = [pass EXCEPT !.todo = @ \ {p}]
  /\ UNCHANGED <<announced, action, acquired, adjustedBy, reopened, trades, mishaps>>

FailAdjustment(p) ==
  /\ rows' = [rows EXCEPT ![p] = "failed"]
  /\ pass' = [pass EXCEPT !.at = "holders", !.current = {}]

\* The portfolio refuses a position that is no longer there; otherwise it
\* commits, once per request id.
adjustHolder(p, answered) ==
  /\ pass.at = "apply" /\ pass.current = {p}
  /\ IF acquired[p] = 0 THEN UNCHANGED adjustedBy
     ELSE adjustedBy' = [adjustedBy EXCEPT ![p] = IF @ = {} THEN {pass.ev.terms} ELSE @]
  /\ IF acquired[p] # 0 /\ answered
     THEN pass' = [pass EXCEPT !.at = "complete"] /\ UNCHANGED rows
     ELSE FailAdjustment(p)
  /\ IF answered THEN UNCHANGED mishaps ELSE Mishap
  /\ UNCHANGED <<announced, action, acquired, reopened, trades>>

\* A row that cannot be completed is marked failed.
CompleteAdjustment(p, written) ==
  /\ pass.at = "complete" /\ pass.current = {p}
  /\ IF written
     THEN /\ rows' = [rows EXCEPT ![p] = "applied"]
          /\ pass' = [pass EXCEPT !.at = "holders", !.current = {}, !.applied = TRUE]
          /\ UNCHANGED mishaps
     ELSE Mishap /\ FailAdjustment(p)
  /\ UNCHANGED <<announced, action, acquired, adjustedBy, reopened, trades>>

\* One adjusted holder, or none to adjust, closes the action.
finishAction ==
  /\ pass.at = "holders" /\ pass.todo = {}
  /\ IF pass.applied \/ ~pass.any THEN SetActionStatus("applied") ELSE UNCHANGED action
  /\ pass' = NoPass
  /\ UNCHANGED <<announced, rows, acquired, adjustedBy, reopened, trades, mishaps>>

RunActions ==
  \/ IngestActions \/ ProcessActions \/ finishAction
  \/ \E p \in Portfolios : claimPortfolio(p) \/ adjustHolder(p, TRUE) \/ CompleteAdjustment(p, TRUE)

-----------------------------------------------------------------------------

announce ==
  /\ announced < Len(Notices) /\ announced' = announced + 1
  /\ UNCHANGED <<action, rows, acquired, adjustedBy, reopened, pass, trades, mishaps>>

\* A position is sold out, or bought again on the last day.
trade(p, since) ==
  /\ trades < MaxTrades /\ acquired[p] # since /\ (since = 0 \/ acquired[p] = 0)
  /\ acquired' = [acquired EXCEPT ![p] = since] /\ trades' = trades + 1
  /\ UNCHANGED <<announced, action, rows, adjustedBy, reopened, pass, mishaps>>

actionCrash ==
  /\ Mishap /\ pass' = NoPass
  /\ UNCHANGED <<announced, action, rows, acquired, adjustedBy, reopened, trades>>

ActionInit ==
  /\ announced = 1 /\ action = NoAction /\ rows = [p \in Portfolios |-> "none"]
  /\ acquired = AcquiredOn /\ adjustedBy = [p \in Portfolios |-> {}]
  /\ pass = NoPass /\ reopened = FALSE /\ trades = 0 /\ mishaps = 0

ActionNext ==
  \/ RunActions \/ announce \/ actionCrash
  \/ \E p \in Portfolios : adjustHolder(p, FALSE) \/ CompleteAdjustment(p, FALSE) \/ \E since \in {0, 9} : trade(p, since)

ActionSpec == ActionInit /\ [][ActionNext]_actionVars

\* The worker is ticked for ever.
ActionFairness == WF_actionVars(RunActions)

-----------------------------------------------------------------------------
(* Properties *)

\* Everyone a split was applied to was adjusted by the same terms, although the
\* provider revises them between passes: "material change after application:
\* correction workflow".  Left out are an action cut short by a failed call or a
\* crash, and one revised again after it was superseded, which is applied anew.
OneSetOfTerms ==
  mishaps = 0 /\ ~reopened =>
    \A p, q \in Portfolios : adjustedBy[p] # {} /\ adjustedBy[q] # {} => adjustedBy[p] = adjustedBy[q]

\* A superseded action is left to the correction workflow.
SupersededStaysOut == ~reopened

\* Found by ticker and held since before it took effect.
Entitled(p) == p \notin Drifted /\ acquired[p] # 0 /\ acquired[p] <= action.terms.effectiveAt

\* A complete action in effect reaches everyone entitled to it, unless a call
\* failed, the process died, the position was traded or the terms were revised.
EntitledIsAdjusted ==
  \A p \in Portfolios :
    (action.status # "none" /\ isAutoApplicable(action) /\ Entitled(p)) ~>
      (adjustedBy[p] # {} \/ mishaps > 0 \/ trades > 0 \/ action.status \in {"superseded", "cancelled"})

\* A skipped application changed nothing.
SkippedChangedNothing == \A p \in Portfolios : rows[p] = "skipped" => adjustedBy[p] = {}
==============================================================================
