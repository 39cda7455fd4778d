--------------------------- MODULE IncomePipeline ---------------------------
(***************************************************************************)
(* The income pipeline (internal/income): a provider's announcements of    *)
(* one dividend or distribution are ingested, credited to every portfolio  *)
(* that held the instrument on the entitlement date, and corrected by the  *)
(* owner.  Store operations are those of the Postgres store.               *)
(*                                                                         *)
(* Days are numbers, 0 for a date that is not given; amounts are whole     *)
(* units of one currency, rates whole percents, and the instances keep     *)
(* every product whole.  Holdings are the ledger's (PortfolioLedger).      *)
(***************************************************************************)
EXTENDS Integers, Sequences, FiniteSets, SequencesExt

CONSTANTS
  Holders,
  Holdings,        \* Holdings[h][d]: what h held at the end of day d
  Revisions,       \* what the provider says of the event, in the order it says it
  Brokerage,       \* the provider is a brokerage feed
  DefaultRate, TypeRates,      \* the withholding profile
  Lookback,
  Correctors,      \* client requests for a correction, and what each asks for
  CorrectionOf,
  LastDay,         \* bound
  MaxFaults        \* bound: failed calls and crashes

ASSUME IncomeAssumption == Lookback \in Nat /\ LastDay \in Nat /\ DefaultRate \in Int

VARIABLES
  day,
  said,        \* revisions published so far
  event,       \* the stored event
  apps,        \* apps[h]: the application row
  received,    \* received[h]: what the portfolio was credited, net of corrections
  requests,    \* request ids the portfolio has committed
  incomePass,  \* the pass of the income worker
  correcting,  \* correcting[c]: the handling of a correction request
  faults

incomeVars == <<day, said, event, apps, received, requests, incomePass, correcting, faults>>

NoEvent  == [status |-> "none", quality |-> "none", terms |-> {}]
NoApp    == [status |-> "none", gross |-> 0, withholding |-> 0, fee |-> 0, net |-> 0]
IdlePass == [at |-> "idle", ev |-> NoEvent, todo |-> {}, holder |-> {}, credited |-> FALSE]
IdleCorrection == [at |-> "idle", app |-> NoApp]

IncomeFault == faults < MaxFaults /\ faults' = faults + 1

-----------------------------------------------------------------------------
(* An event and what it pays (provider.go, model.go, withholding.go) *)

Classify(type) ==
  CASE type = "return_of_capital" -> "return_of_capital"
    [] type = "stock_dividend"    -> "stock_dividend"
    [] OTHER                      -> "ordinary"

requiresAccountData(type) == type \in {"cash_interest", "staking_reward", "payment_in_lieu"}

partsTotal(parts) == FoldSeq(LAMBDA p, sum : p.perUnit + sum, 0, parts)

assessQuality(e) ==
  IF e.cancelled THEN "cancelled"
  ELSE IF e.payment = 0 \/ e.perUnit <= 0 THEN "incomplete"
  ELSE IF e.type # "stock_dividend" /\ e.parts # <<>> /\ partsTotal(e.parts) # e.perUnit THEN "conflicting"
  ELSE "verified"

normalizeIgnoringCancel(e) ==
  LET quality == assessQuality([e EXCEPT !.cancelled = FALSE])
  IN  [terms |-> e, quality |-> quality,
       status |-> IF quality \in {"incomplete", "conflicting"} THEN "unresolved" ELSE "scheduled"]

\* The terms stand for their fingerprint: every term is part of it.
normalize(e) ==
  LET quality == assessQuality(e)
  IN  [terms |-> e, quality |-> quality,
       status |-> IF e.cancelled THEN "cancelled"
                  ELSE IF quality \in {"incomplete", "conflicting"} THEN "unresolved" ELSE "scheduled"]

entitlementDate(e) == IF e.ex # 0 THEN e.ex ELSE IF e.record # 0 THEN e.record ELSE e.payment

\* The withholding rate, within 0 and just under everything.
Rate(type) ==
  IF type \in {"stock_dividend", "return_of_capital"} THEN 0
  ELSE LET rate == IF type \in DOMAIN TypeRates THEN TypeRates[type] ELSE DefaultRate
       IN  IF rate < 0 THEN 0 ELSE IF rate >= 100 THEN 99 ELSE rate

components(e) == IF e.parts # <<>> THEN e.parts ELSE <<[type |-> e.type, perUnit |-> e.perUnit]>>

\* What one component pays; a stock dividend pays shares, no cash.
buildApplied(part, eligible) ==
  LET gross == IF Classify(part.type) = "stock_dividend" THEN 0 ELSE eligible * part.perUnit
  IN  [gross |-> gross, withholding |-> (gross * Rate(part.type)) \div 100]

\* The application of a whole event.
applicationOf(e, eligible) ==
  LET paid == [i \in DOMAIN components(e) |-> buildApplied(components(e)[i], eligible)]
      gross == FoldSeq(LAMBDA p, sum : p.gross + sum, 0, paid)
      held  == FoldSeq(LAMBDA p, sum : p.withholding + sum, 0, paid)
  IN  [status |-> "applied", gross |-> gross, withholding |-> held, fee |-> 0, net |-> gross - held]

EligibleQuantity(h, asOf) == Holdings[h][asOf]

\* Amounts are whole units, and a request id names one holder or one correction.
Application ==
  [status : {"none", "applying", "failed", "applied", "corrected"},
   gross : Int, withholding : Int, fee : Int, net : Int]

Kinds == {"mark_not_received", "actual_net", "actual_withholding", "actual_fee", "actual_reinvestment"}

ASSUME RequestsAssumption ==
  /\ Len(Revisions) \in Nat \ {0} /\ DOMAIN Revisions = 1..Len(Revisions)
  /\ \A i \in DOMAIN Revisions, h \in Holders : assessQuality(Revisions[i]) = "verified" =>
       applicationOf(Revisions[i], EligibleQuantity(h, entitlementDate(Revisions[i]))) \in Application
  /\ Holders \cap Correctors = {}
  /\ \A c \in Correctors : /\ CorrectionOf[c].holder \in Holders /\ CorrectionOf[c].kind \in Kinds
                           /\ CorrectionOf[c].value \in Int

-----------------------------------------------------------------------------
(* The store (postgres_store.go) *)

ListedWithoutWaiting ==
  {"detected", "scheduled", "eligibility_calculated", "ready_to_apply", "unresolved", "failed_retryable"}

Listed == {"detected", "scheduled", "eligibility_calculated", "awaiting_payment", "ready_to_apply",
           "unresolved", "failed_retryable", "processed_no_entitlement"}

\* New terms replace the old; if those were applied the event is superseded.
UpsertEvent(stored, ev) ==
  IF stored.status = "none" THEN ev
  ELSE IF stored.terms = ev.terms THEN stored
  ELSE [ev EXCEPT !.status = IF stored.status = "applied" THEN "superseded" ELSE @]

SetEventStatus(status) == event' = [event EXCEPT !.status = status]

\* The insert does nothing where a row exists, whatever its status.
ClaimApplication(h) == apps[h].status = "none"

CompleteApplication(h, app) == apps' = [apps EXCEPT ![h] = app]

FailApplication(h) == apps' = [apps EXCEPT ![h].status = "failed"]

-----------------------------------------------------------------------------
(* The worker's pass (service.go) *)

\* Held or still pending, and within the window asked for.
Announced == {i \in 1..said : Revisions[i].payment = 0 \/ day <= Revisions[i].payment + Lookback}

\* The provider's latest word is normalized and stored.
Ingest ==
  /\ incomePass.at = "idle"
  /\ event' = IF said \in Announced THEN UpsertEvent(event, normalize(Revisions[said])) ELSE event
  /\ incomePass' = [incomePass EXCEPT !.at = "process"]
  /\ UNCHANGED <<day, said, apps, received, requests, correcting, faults>>

trustedForAccountData == Brokerage

mayCredit(ev) == ev.quality = "verified" /\ (requiresAccountData(ev.terms.type) => trustedForAccountData)

\* processEvent up to the holders: cancelled events are left alone, incomplete
\* ones wait for data and early ones for the payment date.
Process ==
  /\ incomePass.at = "process"
  /\ IF event.status \notin Listed \/ event.quality = "cancelled"
     THEN incomePass' = IdlePass /\ UNCHANGED event
     ELSE IF ~mayCredit(event) THEN incomePass' = IdlePass /\ SetEventStatus("unresolved")
     ELSE IF day < event.terms.payment THEN incomePass' = IdlePass /\ SetEventStatus("awaiting_payment")
     ELSE incomePass' = [IdlePass EXCEPT !.at = "holders", !.ev = event, !.todo = Holders] /\ UNCHANGED event
  /\ UNCHANGED <<day, said, apps, received, requests, correcting, faults>>

\* applyToHolder, step by step.  The quantity may fail to be read, as when the
\* holder was not entitled the holder is then passed over.
claimHolder(h, unread) ==
  LET eligible == EligibleQuantity(h, entitlementDate(incomePass.ev.terms))
  IN  /\ incomePass.at = "holders" /\ h \in incomePass.todo
      /\ IF unread THEN IncomeFault ELSE UNCHANGED faults
      /\ IF ~unread /\ eligible > 0 /\ ClaimApplication(h)
         THEN /\ apps' = [apps EXCEPT ![h].status = "applying"]
              /\ incomePass' = [incomePass EXCEPT !.at = "apply", !.todo = @ \ {h}, !.holder = {h}]
         ELSE incomePass' = [incomePass EXCEPT !.todo = @ \ {h}] /\ UNCHANGED apps
      /\ UNCHANGED <<day, said, event, received, requests, correcting>>

\* The portfolio commits a request id once and replays it afterwards.
ApplyIncomeEvent(h, net) ==
  IF h \in requests THEN UNCHANGED <<received, requests>>
  ELSE received' = [received EXCEPT ![h] = @ + net] /\ requests' = requests \cup {h}

\* The portfolio commits, commits but the answer is lost, or refuses.
applyToHolder(h, outcome) ==
  LET app == applicationOf(incomePass.ev.terms, EligibleQuantity(h, entitlementDate(incomePass.ev.terms)))
  IN  /\ incomePass.at = "apply" /\ incomePass.holder = {h}
      /\ IF outcome = "refused" THEN UNCHANGED <<received, requests>> ELSE ApplyIncomeEvent(h, app.net)
      /\ IF outcome = "answered"
         THEN incomePass' = [incomePass EXCEPT !.at = "complete"] /\ UNCHANGED <<apps, faults>>
         ELSE IncomeFault /\ FailApplication(h) /\ incomePass' = [incomePass EXCEPT !.at = "holders", !.holder = {}]
      /\ UNCHANGED <<day, said, event, correcting>>

completeHolder(h) ==
  /\ incomePass.at = "complete" /\ incomePass.holder = {h}
  /\ CompleteApplication(h, applicationOf(incomePass.ev.terms, EligibleQuantity(h, entitlementDate(incomePass.ev.terms))))
  /\ incomePass' = [incomePass EXCEPT !.at = "holders", !.holder = {}, !.credited = TRUE]
  /\ UNCHANGED <<day, said, event, received, requests, correcting, faults>>

\* One credited holder is enough to close the event.
finishEvent ==
  /\ incomePass.at = "holders" /\ incomePass.todo = {}
  /\ SetEventStatus(IF incomePass.credited THEN "applied" ELSE "processed_no_entitlement")
  /\ incomePass' = IdlePass
  /\ UNCHANGED <<day, said, apps, received, requests, correcting, faults>>

RunOnce ==
  \/ Ingest \/ Process \/ finishEvent
  \/ \E h \in Holders : claimHolder(h, FALSE) \/ applyToHolder(h, "answered") \/ completeHolder(h)

-----------------------------------------------------------------------------
(* Corrections by the owner (correction.go) *)

\* The net the correction asks for; -1 where it is invalid.
correctedNet(app, c) ==
  CASE c.kind = "mark_not_received" -> 0
    [] c.kind = "actual_net" -> IF c.value < 0 THEN -1 ELSE c.value
    [] c.kind = "actual_withholding" -> IF c.value \notin 0..app.gross THEN -1 ELSE app.gross - c.value - app.fee
    [] c.kind = "actual_fee" -> IF c.value \notin 0..app.gross THEN -1 ELSE app.gross - app.withholding - c.value
    [] c.kind = "actual_reinvestment" -> IF c.value < 0 THEN -1 ELSE app.net

withholdingAfter(app, c) == IF c.kind = "actual_withholding" THEN c.value ELSE app.withholding

\* The application is read; only an applied one can be corrected.
readApplication(c) ==
  /\ correcting[c].at = "idle"
  /\ apps[CorrectionOf[c].holder].status = "applied"
  /\ correctedNet(apps[CorrectionOf[c].holder], CorrectionOf[c]) >= 0
  /\ correcting' = [correcting EXCEPT ![c] = [at |-> "read", app |-> apps[CorrectionOf[c].holder]]]
  /\ UNCHANGED <<day, said, event, apps, received, requests, incomePass, faults>>

deltaFromGross(app, c) == correctedNet(app, c) - app.gross

correctionDelta(app, c) == correctedNet(app, c) - app.net

\* The compensating entry, under the client's request id.
ApplyCorrection(c) ==
  LET h     == CorrectionOf[c].holder
      delta == correctionDelta(correcting[c].app, CorrectionOf[c])
  IN  /\ correcting[c].at = "read"
      /\ IF delta = 0 \/ c \in requests THEN UNCHANGED <<received, requests>>
         ELSE received' = [received EXCEPT ![h] = @ + delta] /\ requests' = requests \cup {c}
      /\ correcting' = [correcting EXCEPT ![c].at = "record"]
      /\ UNCHANGED <<day, said, event, apps, incomePass, faults>>

recordCorrection(c) ==
  LET app == correcting[c].app
      fix == CorrectionOf[c]
  IN  /\ correcting[c].at = "record"
      /\ CompleteApplication(fix.holder, [app EXCEPT !.status = "corrected", !.net = correctedNet(app, fix),
                                                     !.withholding = withholdingAfter(app, fix)])
      /\ SetEventStatus("corrected")
      /\ correcting' = [correcting EXCEPT ![c].at = "done"]
      /\ UNCHANGED <<day, said, received, requests, incomePass, faults>>

-----------------------------------------------------------------------------

publish ==
  /\ said < Len(Revisions) /\ said' = said + 1
  /\ UNCHANGED <<day, event, apps, received, requests, incomePass, correcting, faults>>

nextDay ==
  /\ day < LastDay /\ day' = day + 1
  /\ UNCHANGED <<said, event, apps, received, requests, incomePass, correcting, faults>>

\* The process dies; a client whose correction was cut off may send it again.
incomeCrash ==
  /\ IncomeFault
  /\ incomePass' = IdlePass
  /\ correcting' = [c \in Correctors |-> IF correcting[c].at = "done" THEN correcting[c] ELSE IdleCorrection]
  /\ UNCHANGED <<day, said, event, apps, received, requests>>

IncomeInit ==
  /\ day = 1 /\ said = 1 /\ event = NoEvent
  /\ apps = [h \in Holders |-> NoApp] /\ received = [h \in Holders |-> 0] /\ requests = {}
  /\ incomePass = IdlePass /\ correcting = [c \in Correctors |-> IdleCorrection] /\ faults = 0

IncomeNext ==
  \/ RunOnce \/ publish \/ nextDay \/ incomeCrash
  \/ \E h \in Holders : claimHolder(h, TRUE) \/ \E outcome \in {"lost", "refused"} : applyToHolder(h, outcome)
  \/ \E c \in Correctors : readApplication(c) \/ ApplyCorrection(c) \/ recordCorrection(c)

IncomeSpec == IncomeInit /\ [][IncomeNext]_incomeVars

\* The worker is ticked for ever and days go by.
IncomeFairness == WF_incomeVars(RunOnce) /\ WF_incomeVars(nextDay)

-----------------------------------------------------------------------------
(* Properties *)

\* The corrections that have left something of their own behind.
CorrectedBy(h) == {c \in Correctors : CorrectionOf[c].holder = h /\ (c \in requests \/ correcting[c].at = "done")}

\* The application row tells the owner the truth: a credited portfolio received
\* exactly the net amount of its row, and while a correction is between its
\* cash entry and its record, what that correction asked for, across lost
\* answers, crashes and repeated requests.  Two corrections of one row are left
\* out: both may have computed their entry from the same original.
ReceivedMatchesApplication ==
  \A h \in Holders : (\A c, d \in CorrectedBy(h) : c = d) =>
    CASE apps[h].status = "none"      -> received[h] = 0
      [] apps[h].status = "corrected" -> received[h] = apps[h].net
      [] apps[h].status = "applied"   ->
           received[h] = apps[h].net
             \/ \E c \in CorrectedBy(h) : received[h] = correctedNet(apps[h], CorrectionOf[c])
      [] OTHER -> TRUE

\* The same however many corrections of a row overlap.
ReceivedMatchesApplicationAlways ==
  \A h \in Holders : apps[h].status = "corrected" => received[h] = apps[h].net

\* "a cancelled event is never credited", in whatever order the provider's
\* revisions, the payment date and the passes come.
CancelledNeverCredited ==
  [][event.status # "none" /\ event.terms.cancelled => requests' \cap Holders = requests \cap Holders]_incomeVars

Owed(h) == mayCredit(event) /\ event.terms.payment <= day /\ Holdings[h][entitlementDate(event.terms)] > 0

\* A due event is credited to everyone entitled, unless a call failed, the
\* process died or the provider changed its mind.
OwedIsPaid ==
  \A h \in Holders :
    (event.status # "none" /\ Owed(h)) ~>
      (h \in requests \/ faults > 0 \/ ~Owed(h) \/ event.status \in {"superseded", "corrected"})

\* "returns claimed=false when the application already exists in a terminal
\* state (applied/skipped) or is being applied by another worker": a failed one
\* is claimed again.
FailedIsRetried ==
  \A h \in Holders : apps[h].status = "failed" ~> apps[h].status # "failed" \/ event.status \notin Listed
=============================================================================
