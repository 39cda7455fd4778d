---------------------------- MODULE Instruments ----------------------------
(***************************************************************************)
(* The instrument identity register (internal/instrument) and the backfill *)
(* of old records from it (portfolio/instrument_backfill.go).  The         *)
(* resolver's statements are separate transactions, so requests interleave *)
(* between them and may stop half way.  Identifiers other than the ticker  *)
(* and the FIGI, and the listing venue, are left out.                      *)
(***************************************************************************)
EXTENDS Integers, FiniteSets

CONSTANTS
  Tickers, FIGIs,
  Resolvers,         \* requests and jobs resolving at the same time
  Records,           \* positions and activities without an identity
  LastDate, MaxRequests, MaxStops   \* bounds

ASSUME InstrumentAssumption == LastDate \in Nat

VARIABLES
  date,
  register,     \* instrument_master: [figi, symbol]; the FIGI identifies the row
  aliases,      \* instrument_aliases: [owner, type, value, from, to]; to = 0: active
  resolving,    \* resolving[r]: the request at hand
  records,      \* records[x]: symbol, date and instrument of a record
  queue,        \* identity_reconciliation: records under review
  opened, stops   \* requests begun, requests stopped half way

instrumentVars == <<date, register, aliases, resolving, records, queue, opened, stops>>

NoResolution == [at |-> "idle", ticker |-> "", figi |-> ""]

Active(a) == a.to = 0

ActiveAt(a, t) == a.from <= t /\ (a.to = 0 \/ t < a.to)

-----------------------------------------------------------------------------
(* The register (postgres_repository.go) *)

\* Two owners are a conflict, not a choice.
FindInstrumentByAlias(type, value) == {a.owner : a \in {a \in aliases : a.type = type /\ a.value = value /\ Active(a)}}

FindInstrumentByAliasAsOf(type, value, t) ==
  {a.owner : a \in {a \in aliases : a.type = type /\ a.value = value /\ ActiveAt(a, t)}}

Only(owners) == IF Cardinality(owners) = 1 THEN owners ELSE {}

\* A FIGI is unique among instruments.
CreateInstrument(figi, ticker) ==
  /\ \A i \in register : i.figi # figi
  /\ register' = register \cup {[figi |-> figi, symbol |-> ticker]}

\* An active alias is unique.
CanCreateAlias(type, value) == FindInstrumentByAlias(type, value) = {}

NewAlias(owner, type, value, from) == [owner |-> owner, type |-> type, value |-> value, from |-> from, to |-> 0]

CloseForgetting(owner, to) == {a \in aliases : ~(a.owner = owner /\ a.type = "ticker" /\ Active(a))}

\* The old alias keeps its window: it ends, and stays.
CloseAlias(owner, to) ==
  {IF a.owner = owner /\ a.type = "ticker" /\ Active(a) THEN [a EXCEPT !.to = to] ELSE a : a \in aliases}

-----------------------------------------------------------------------------
(* Resolving (resolver.go) *)

stepTo(r, at) == resolving' = [resolving EXCEPT ![r].at = at]

answerTo(r) == resolving' = [resolving EXCEPT ![r] = NoResolution]

\* The register first; a miss asks the provider.
ResolveDetailedAt(r, ticker) ==
  /\ resolving[r].at = "idle" /\ opened < MaxRequests /\ opened' = opened + 1
  /\ FindInstrumentByAlias("ticker", ticker) = {}
  /\ resolving' = [resolving EXCEPT ![r] = [at |-> "asking", ticker |-> ticker, figi |-> ""]]
  /\ UNCHANGED <<date, register, aliases, records, queue, stops>>

\* None or several candidates create nothing.
providerAnswers(r, candidates) ==
  /\ resolving[r].at = "asking"
  /\ IF Cardinality(candidates) = 1
     THEN \E figi \in candidates : resolving' = [resolving EXCEPT ![r].at = "create", ![r].figi = figi]
     ELSE answerTo(r)
  /\ UNCHANGED <<date, register, aliases, records, queue, opened, stops>>

createInstrument(r) ==
  /\ resolving[r].at = "create"
  /\ \/ CreateInstrument(resolving[r].figi, resolving[r].ticker) /\ stepTo(r, "ticker")
     \/ (\E i \in register : i.figi = resolving[r].figi) /\ answerTo(r) /\ UNCHANGED register
  /\ UNCHANGED <<date, aliases, records, queue, opened, stops>>

\* The aliases, one statement each; a conflict ends the request.
createAliases(r) ==
  LET me == resolving[r]
      type == IF me.at = "ticker" THEN "ticker" ELSE "figi"
      value == IF me.at = "ticker" THEN me.ticker ELSE me.figi
  IN  /\ me.at \in {"ticker", "figi"}
      /\ IF CanCreateAlias(type, value)
         THEN /\ aliases' = aliases \cup {NewAlias(me.figi, type, value, date)}
              /\ IF me.at = "ticker" THEN stepTo(r, "figi") ELSE answerTo(r)
         ELSE answerTo(r) /\ UNCHANGED aliases
      /\ UNCHANGED <<date, register, records, queue, opened, stops>>

\* A ticker change: close, open, update, in three statements.
ChangeTicker(r, i, ticker) ==
  /\ resolving[r].at = "idle" /\ opened < MaxRequests /\ opened' = opened + 1
  /\ i \in register /\ i.symbol # ticker
  /\ aliases' = CloseAlias(i.figi, date)
  /\ resolving' = [resolving EXCEPT ![r] = [at |-> "reopen", ticker |-> ticker, figi |-> i.figi]]
  /\ UNCHANGED <<date, register, records, queue, stops>>

openNewTicker(r) ==
  LET me == resolving[r]
  IN  /\ me.at = "reopen"
      /\ IF CanCreateAlias("ticker", me.ticker)
         THEN aliases' = aliases \cup {NewAlias(me.figi, "ticker", me.ticker, date)} /\ stepTo(r, "rename")
         ELSE answerTo(r) /\ UNCHANGED aliases
      /\ UNCHANGED <<date, register, records, queue, opened, stops>>

UpdateInstrumentSymbol(r) ==
  LET me == resolving[r]
  IN  /\ me.at = "rename" /\ answerTo(r)
      /\ register' = {IF i.figi = me.figi THEN [i EXCEPT !.symbol = me.ticker] ELSE i : i \in register}
      /\ UNCHANGED <<date, aliases, records, queue, opened, stops>>

\* A request is cancelled, or its process stops, between two statements.
stop(r) ==
  /\ resolving[r].at # "idle" /\ stops < MaxStops /\ stops' = stops + 1 /\ answerTo(r)
  /\ UNCHANGED <<date, register, aliases, records, queue, opened>>

-----------------------------------------------------------------------------
(* The backfill *)

\* The register only, as of the date of the record.
ResolveTickerAsOf(ticker, t) == Only(FindInstrumentByAliasAsOf("ticker", ticker, t))

resolveByCurrentTicker(x) ==
  LET owner == Only(FindInstrumentByAlias("ticker", records[x].symbol))
  IN  /\ records[x].instrument = "" /\ records[x].on < date
      /\ records' = [records EXCEPT ![x].instrument = IF owner = {} THEN "" ELSE CHOOSE f \in owner : TRUE]
      /\ queue' = IF owner = {} THEN [queue EXCEPT ![x] = IF @ = "none" THEN "pending" ELSE @] ELSE queue
      /\ UNCHANGED <<date, register, aliases, resolving, opened, stops>>

\* One match is applied; none or several go to review, once.
resolveOne(x) ==
  LET owner == ResolveTickerAsOf(records[x].symbol, records[x].on)
  IN  /\ records[x].instrument = "" /\ records[x].on < date
      /\ records' = [records EXCEPT ![x].instrument = IF owner = {} THEN "" ELSE CHOOSE f \in owner : TRUE]
      /\ queue' = IF owner = {} THEN [queue EXCEPT ![x] = IF @ = "none" THEN "pending" ELSE @] ELSE queue
      /\ UNCHANGED <<date, register, aliases, resolving, opened, stops>>

\* An administrator decides on a record under review.
ResolveReconciliation(x, i) ==
  /\ queue[x] = "pending" /\ i \in register
  /\ queue' = [queue EXCEPT ![x] = "resolved"] /\ records' = [records EXCEPT ![x].instrument = i.figi]
  /\ UNCHANGED <<date, register, aliases, resolving, opened, stops>>

RejectReconciliation(x) ==
  /\ queue[x] = "pending" /\ queue' = [queue EXCEPT ![x] = "rejected"]
  /\ UNCHANGED <<date, register, aliases, resolving, records, opened, stops>>

-----------------------------------------------------------------------------

nextDate ==
  /\ date < LastDate /\ date' = date + 1
  /\ UNCHANGED <<register, aliases, resolving, records, queue, opened, stops>>

InstrumentInit ==
  /\ date = 1 /\ register = {} /\ aliases = {}
  /\ resolving = [r \in Resolvers |-> NoResolution]
  /\ records \in [Records -> [symbol : Tickers, on : 1..LastDate - 1, instrument : {""}]]
  /\ queue = [x \in Records |-> "none"] /\ opened = 0 /\ stops = 0

InstrumentNext ==
  \/ nextDate
  \/ \E r \in Resolvers :
       \/ createInstrument(r) \/ createAliases(r) \/ openNewTicker(r) \/ UpdateInstrumentSymbol(r) \/ stop(r)
       \/ \E candidates \in SUBSET FIGIs : providerAnswers(r, candidates)
       \/ \E t \in Tickers : ResolveDetailedAt(r, t) \/ \E i \in register : ChangeTicker(r, i, t)
  \/ \E x \in Records : resolveOne(x) \/ RejectReconciliation(x) \/ \E i \in register : ResolveReconciliation(x, i)

InstrumentSpec == InstrumentInit /\ [][InstrumentNext]_instrumentVars

-----------------------------------------------------------------------------
(* Properties *)

\* "historical holdings recorded under the old ticker remain resolvable": what a
\* ticker meant on a past day is never lost, nor given to another instrument,
\* when tickers change hands and resolvers interleave or stop half way.
HistoryStaysResolvable ==
  [][\A t \in Tickers, d \in 1..LastDate :
       d < date => FindInstrumentByAliasAsOf("ticker", t, d)' = FindInstrumentByAliasAsOf("ticker", t, d)]_instrumentVars

\* "rather than guessed at": a record the backfill resolved by itself holds the
\* one instrument that bore its symbol on its day, also after the symbol moved
\* to another instrument.
BackfilledMatchesHistory ==
  \A x \in Records :
    records[x].instrument # "" /\ queue[x] # "resolved" /\ records[x].on < date
      => FindInstrumentByAliasAsOf("ticker", records[x].symbol, records[x].on) = {records[x].instrument}

\* "no silently half-identified row is returned": an instrument the register
\* answers with carries its FIGI alias too, unless someone is still writing it.
NoHalfIdentified ==
  \A t \in Tickers : \A figi \in FindInstrumentByAlias("ticker", t) :
    FindInstrumentByAlias("figi", figi) = {figi} \/ \E r \in Resolvers : resolving[r].figi = figi
=============================================================================
