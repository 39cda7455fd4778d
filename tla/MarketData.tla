----------------------------- MODULE MarketData -----------------------------
(***************************************************************************)
(* Quotes (internal/marketdata, internal/prices): the provider behind its  *)
(* request limiter, the stored quotes, and the short cache the portfolio   *)
(* reads prices through (cmd/api/main.go).  A price is the time at which   *)
(* the market was seen; what is recorded about it may say something else.  *)
(* The wiring has the Twelve Data client, or the Yahoo client with a cache *)
(* of its own behind an adapter.                                           *)
(***************************************************************************)
EXTENDS Integers, FiniteSets, FiniteSetsExt

CONSTANTS
  Chains,                    \* the wirings: "twelvedata", "yahoo"
  Symbols, Callers,
  QuoteCacheTTL, QuoteStaleAfter, MaxQuoteBatchSize, SearchLimit,
  FrontTTL,                  \* mutationPriceCacheTTL
  StaleRetention,            \* how long a last known price may be used
  Minute, Day, maxPerMin, dailyBudget, BackoffTime,
  Timeout,                   \* of a request to the provider
  LastTick                   \* bound on time

ASSUME MarketDataAssumption ==
  {QuoteCacheTTL, QuoteStaleAfter, FrontTTL, StaleRetention, Minute, Day, maxPerMin, dailyBudget, BackoffTime, Timeout, LastTick} \subseteq Nat \ {0}

VARIABLES
  Chain, AllowStaleOnError,   \* the configuration the process was started with
  now,
  limiter,     \* RequestLimiter
  quotes,      \* market_quotes: a set with at most one quote of a symbol
  front,       \* the cache in front of the service, per symbol, as a set
  base,        \* the cache around the Yahoo client
  catalog,     \* instruments known locally
  request,     \* request[c]: what a caller is at
  calls,       \* calls[t]: requests sent to the provider at t
  served       \* the last price handed out

configuration == <<Chain, AllowStaleOnError>>
marketVars == <<configuration, now, limiter, quotes, front, base, catalog, request, calls, served>>

NoRequest == [at |-> "idle", symbols |-> {}, have |-> {}, missing |-> {}, got |-> {}, through |-> "api", begun |-> 0]

Of(quoteSet, s) == {q \in quoteSet : q.symbol = s}

-----------------------------------------------------------------------------
(* The request limiter (rate_limiter.go) *)

dayOf(t) == t \div Day

\* A new minute that also starts a new day.
rolledDaily ==
  IF now - limiter.windowStart >= Minute
  THEN [limiter EXCEPT !.windowStart = now, !.windowCount = 0, !.dayCount = 0, !.dayStart = now] ELSE limiter

\* The windows that have run out start again at the time of the call.
rolled ==
  LET minute == IF now - limiter.windowStart >= Minute THEN [limiter EXCEPT !.windowStart = now, !.windowCount = 0] ELSE limiter
  IN  IF dayOf(now) # dayOf(limiter.dayStart) THEN [minute EXCEPT !.dayStart = now, !.dayCount = 0] ELSE minute

Allowed ==
  /\ now >= limiter.backoffUntil
  /\ rolled.dayCount < dailyBudget /\ rolled.windowCount < maxPerMin

Allow ==
  limiter' = IF now < limiter.backoffUntil THEN limiter
             ELSE IF Allowed THEN [rolled EXCEPT !.windowCount = @ + 1, !.dayCount = @ + 1] ELSE rolled

Backoff ==
  limiter' = IF now + BackoffTime > limiter.backoffUntil THEN [limiter EXCEPT !.backoffUntil = now + BackoffTime] ELSE limiter

-----------------------------------------------------------------------------
(* The cache of the decorator (prices/cached_provider.go) *)

\* A fresh hit.
Get(cache, s) == {e \in cache[s] : now <= e.expiresAt}

\* The last known price, however old it is when it was stored recently enough.
GetStale(cache, s) == {e \in cache[s] : now - e.storedAt <= StaleRetention}

SetEntry(cache, s, q, ttl) ==
  [cache EXCEPT ![s] = {[quote |-> q, expiresAt |-> now + ttl, storedAt |-> now]}]

staleAsFresh(q) == q

\* The fallback is marked.
frozen(q) == [q EXCEPT !.stale = TRUE]

-----------------------------------------------------------------------------
(* The stored quotes (marketdata/service.go) *)

QuoteOf(s, seen) == [symbol |-> s, seen |-> seen, fetched |-> now, expires |-> now + QuoteCacheTTL, stale |-> FALSE]

IsStale(q) == now > q.expires \/ now - q.fetched > QuoteStaleAfter

markStale(q) == [q EXCEPT !.stale = TRUE]

\* One row of a symbol: the last write wins.
UpsertQuotes(new) == quotes' = {q \in quotes : Of(new, q.symbol) = {}} \cup new

Idle(c) == request[c].at = "idle"

\* An empty or oversized batch is refused.
ValidateSymbols(batch) == batch # {} /\ Cardinality(batch) <= MaxQuoteBatchSize

begin(c, batch, through) ==
  request' = [request EXCEPT ![c] = [NoRequest EXCEPT !.at = "read", !.symbols = batch, !.through = through, !.begun = now]]

Quotes(c, batch) ==
  /\ Idle(c) /\ ValidateSymbols(batch) /\ begin(c, batch, "api")
  /\ UNCHANGED <<configuration, now, limiter, quotes, front, base, catalog, calls, served>>

Hand(q) == served' = {[age |-> now - q.seen, stale |-> q.stale]}

\* CachedPriceProvider.GetLatestPrice over Service.GetLatestPrice.
GetLatestPrice(c, s) ==
  /\ Idle(c)
  /\ IF Get(front, s) # {}
     THEN (\E e \in Get(front, s) : Hand(e.quote)) /\ UNCHANGED request
     ELSE begin(c, {s}, "front") /\ UNCHANGED served
  /\ UNCHANGED <<configuration, now, limiter, quotes, front, base, catalog, calls>>

\* The answer goes back; the decorator keeps it for its own time to live.
respond(c, answer) ==
  /\ request' = [request EXCEPT ![c] = NoRequest]
  /\ IF request[c].through = "front"
     THEN \E q \in answer : front' = SetEntry(front, q.symbol, q, FrontTTL) /\ Hand(q)
     ELSE (\E q \in answer : Hand(q)) /\ UNCHANGED front

\* No answer: the decorator falls back to what it last knew.
refuse(c) ==
  /\ request' = [request EXCEPT ![c] = NoRequest]
  /\ LET known == IF request[c].through = "front" THEN UNION {GetStale(front, s) : s \in request[c].symbols} ELSE {}
     IN  IF known = {} THEN UNCHANGED served ELSE \E e \in known : Hand(frozen(e.quote))
  /\ UNCHANGED front

\* Which quotes are held and still fresh, and which are to be fetched.
readQuotes(c) ==
  LET held  == {q \in quotes : q.symbol \in request[c].symbols}
      have  == {IF IsStale(q) THEN markStale(q) ELSE q : q \in held}
      fresh == {q \in have : ~q.stale}
      missing == {s \in request[c].symbols : Of(fresh, s) = {}}
  IN  /\ request[c].at = "read"
      /\ IF missing = {} THEN respond(c, fresh)
         ELSE /\ request' = [request EXCEPT ![c].at = "ask", ![c].have = have, ![c].missing = missing]
              /\ UNCHANGED <<front, served>>
      /\ UNCHANGED <<configuration, now, limiter, quotes, base, catalog, calls>>

\* The provider failed: stale quotes rather than none, when that is allowed.
failed(c) ==
  IF AllowStaleOnError /\ request[c].have # {}
  THEN respond(c, {IF q.symbol \in request[c].missing THEN markStale(q) ELSE q : q \in request[c].have})
  ELSE refuse(c)

Sent == calls' = [calls EXCEPT ![now] = @ + 1]

\* TwelveDataProvider.GetQuotes: one request for the whole batch.
askTwelveData(c) ==
  /\ Chain = "twelvedata" /\ request[c].at = "ask" /\ Allow
  /\ IF Allowed THEN /\ request' = [request EXCEPT ![c].at = "waiting"]
                     /\ Sent /\ UNCHANGED <<front, served>>
     ELSE failed(c) /\ UNCHANGED calls
  /\ UNCHANGED <<configuration, now, quotes, base, catalog>>

\* The answer covers the symbols that were found; none found is an error, and so
\* is a response that cannot be read.
answered(c, found) ==
  /\ request[c].at = "waiting" /\ found # {}
  /\ request' = [request EXCEPT ![c].at = "store", ![c].got = {QuoteOf(s, now) : s \in found}]
  /\ UNCHANGED <<configuration, now, limiter, quotes, front, base, catalog, calls, served>>

failing(c) ==
  /\ request[c].at = "waiting" /\ failed(c)
  /\ UNCHANGED <<configuration, now, limiter, quotes, base, catalog, calls>>

tooManyRequests(c) ==
  /\ request[c].at = "waiting" /\ Backoff /\ failed(c)
  /\ UNCHANGED <<configuration, now, quotes, base, catalog, calls>>

\* The adapter's quote is as of now, whatever its price is (price_provider_adapter.go).
adapted(s, seen) == QuoteOf(s, seen)

\* CachedPriceProvider over Yahoo, behind the adapter: symbol by symbol; `up` are
\* the ones the client would answer.
askYahoo(c, up) ==
  LET fresh(s) == {e.quote.seen : e \in Get(base, s)}
      known(s) == {e.quote.seen : e \in GetStale(base, s)}
      seen(s)  == IF fresh(s) # {} THEN fresh(s) ELSE IF s \in up THEN {now} ELSE known(s)
  IN  /\ Chain = "yahoo" /\ request[c].at = "ask"
      /\ base' = [s \in Symbols |->
                    IF s \in request[c].missing /\ s \in up /\ fresh(s) = {}
                    THEN {[quote |-> QuoteOf(s, now), expiresAt |-> now + QuoteCacheTTL, storedAt |-> now]} ELSE base[s]]
      /\ IF \A s \in request[c].missing : seen(s) # {}
         THEN /\ request' = [request EXCEPT ![c].at = "store",
                               ![c].got = {adapted(s, Max(seen(s))) : s \in request[c].missing}]
              /\ UNCHANGED <<front, served>>
         ELSE failed(c)
      /\ UNCHANGED <<configuration, now, limiter, quotes, catalog, calls>>

\* Store what was fetched and answer with it, or with the stale copy of what was
\* not found.
storeQuotes(c) ==
  LET got == request[c].got
  IN  /\ request[c].at = "store"
      /\ UpsertQuotes(got)
      /\ respond(c, {q \in request[c].have : Of(got, q.symbol) = {}} \cup got)
      /\ UNCHANGED <<configuration, now, limiter, base, catalog, calls>>

-----------------------------------------------------------------------------
(* Search and history share the limiter. *)

\* The provider is asked unless enough is known locally; what it finds is kept.
SearchInstruments(found) ==
  /\ Chain = "twelvedata" /\ Cardinality(catalog) < SearchLimit /\ Allow
  /\ IF Allowed THEN catalog' = catalog \cup found /\ Sent ELSE UNCHANGED <<catalog, calls>>
  /\ UNCHANGED <<configuration, now, quotes, front, base, request, served>>

\* The bars of a symbol are fetched when those at hand have aged; a failure
\* leaves the old ones in use.
fullSeries ==
  /\ Chain = "twelvedata" /\ Allow
  /\ IF Allowed THEN Sent ELSE UNCHANGED calls
  /\ UNCHANGED <<configuration, now, quotes, front, base, catalog, request, served>>

\* The client's timeout bounds how long a request waits.
timePasses ==
  /\ now < LastTick /\ now' = now + 1
  /\ \A c \in Callers : Idle(c) \/ now - request[c].begun < Timeout
  /\ served' = {}
  /\ UNCHANGED <<configuration, limiter, quotes, front, base, catalog, request, calls>>

-----------------------------------------------------------------------------

MarketInit ==
  /\ Chain \in Chains /\ AllowStaleOnError \in BOOLEAN
  /\ now = 1
  /\ limiter = [windowStart |-> 1, windowCount |-> 0, dayStart |-> 1, dayCount |-> 0, backoffUntil |-> 0]
  /\ quotes = {} /\ front = [s \in Symbols |-> {}] /\ base = [s \in Symbols |-> {}]
  /\ catalog = {} /\ request = [c \in Callers |-> NoRequest] /\ calls = [t \in 1..LastTick |-> 0] /\ served = {}

MarketNext ==
  \/ timePasses
  \/ \E found \in SUBSET Symbols : SearchInstruments(found)
  \/ fullSeries
  \/ \E c \in Callers :
       \/ readQuotes(c) \/ askTwelveData(c) \/ failing(c) \/ tooManyRequests(c) \/ storeQuotes(c)
       \/ \E batch \in SUBSET Symbols : Quotes(c, batch)
       \/ \E s \in Symbols : GetLatestPrice(c, s)
       \/ \E found \in SUBSET request[c].missing : answered(c, found)
       \/ \E up \in SUBSET request[c].missing : askYahoo(c, up)

MarketSpec == MarketInit /\ [][MarketNext]_marketVars

-----------------------------------------------------------------------------
(* Properties *)

\* How old an unmarked price may be: the times to live and the time a request takes.
Freshness ==
  Min({QuoteCacheTTL, QuoteStaleAfter}) + FrontTTL + Timeout + IF Chain = "yahoo" THEN QuoteCacheTTL + Timeout ELSE 0

\* With Twelve Data, through both caches, the stored quotes and the fallbacks of
\* each, a price that is not marked stale was seen in the market within the
\* times to live and the time one request takes.
FreshMeansRecent ==
  Chain = "twelvedata" => \A p \in served : ~p.stale => p.age <= Freshness

\* "the goal is to keep a holding valued at its last observed price ..., not to
\* manufacture a fresh-looking quote" (prices/cached_provider.go): the same of
\* every wiring.
NothingLooksFresh == \A p \in served : ~p.stale => p.age <= Freshness

\* How many requests were sent at some instants, each numbered within its own.
SentAt(counts, times) == UNION {{t} \X (1..counts[t]) : t \in times}
SumCalls(counts, times) == Cardinality(SentAt(counts, times))

\* Quotes, searches and history together never send more than the daily budget
\* in a calendar day, nor more than two windows' worth in any minute.
ProviderBudget ==
  /\ \A d \in 0..dayOf(LastTick) : SumCalls(calls, {t \in 1..LastTick : dayOf(t) = d}) <= dailyBudget
  /\ \A t \in 1..LastTick : SumCalls(calls, {u \in 1..LastTick : u >= t /\ u < t + Minute}) <= 2 * maxPerMin
=============================================================================
