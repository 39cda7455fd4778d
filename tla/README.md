# Alarvest: a TLA+ verification project

This directory models the Alarvest backend (Go, `backend/`): the portfolio
aggregate and its ledger, the ranked performance index, the mutation coordinator
and its outbox; the income and corporate-action pipelines; competitions,
leaderboards, achievements and benchmarks built on the index; accounts, the
community and its moderation; market data and instrument identity. TLC checks
the models on small instances; the TLA+ proof system proves the safety of the
coordinator and that it implements its abstract specification, the identities of the
ledger, and the safety of the outbox, the pipelines, competitions, both boards,
awards, accounts, the community, the identity register and the quotes, for every
instance (section 6).

Paths below are relative to `backend/internal/` unless they say otherwise.

## 1. Inventory of the system

| Component | State it keeps | Operations | Interacts with |
| --- | --- | --- | --- |
| `portfolio` aggregate | positions (episodes, open or closed), cash balances, activity ledger, ranked state, version, mutation audits | deposit, withdraw, buy, sell, close, correct, income (cash, reinvested, return of capital, stock, multi-component), fee, write-off, split, symbol change, replace, add, resize, delete | price and FX providers, `performance`, outbox |
| `portfolio` coordinator | none of its own; the row lock | `Apply`, `EnsureRankedEpoch` | `AggregateStore`, `PositionReader`, providers |
| `portfolio` outbox | `portfolio_outbox` rows: attempts, lease, backoff, processed, dead | append, claim, mark processed or failed, requeue | `jobs.OutboxProcessor` |
| `performance` | one chained index per portfolio | checkpoint, return checkpoint, live read | coordinator (writes), history and leaderboards (read) |
| `performancehistory` | snapshots (intraday, daily, transition), evaluations | record, window, compact, claim evaluation, protect evidence | outbox (transitions), ranked snapshot worker, coordinator (trusted boundary of corrections), `achievements` |
| `jobs` | tickers | periodic worker, outbox processor, income, corporate-action and snapshot workers | everything below |
| `corpactions`, `income` | normalised events, one application row per (event, portfolio) | ingest, revise, claim, apply, complete, fail, correct | providers, coordinator |
| `competitions` | definitions, editions, entries with their baskets, observations, ranking and finalization generations, results, outbox | define, publish, cancel, join, withdraw, baseline, observe, rank, finalize | portfolio facts, providers, applied splits, leader gate |
| `leaderboard`, `leaderlock` | rows of two generations in the database; cursor and failure latch in the leader's memory; an advisory lock | refresh a page, promote, read a board, a standing or a rank | ranked index, history |
| `achievements`, `benchmark` | permanent awards with their evidence; versioned recipes | evaluate, award; value a virtual portfolio | `performancehistory`, price history |
| `auth` | users, identities, lifecycle tokens, auth versions, email outbox | register, log in, verify, reset, change, link, revoke, delete, deliver mail | account hooks of other components |
| `social`, `safety`, `pairlock` | follows, blocks, conversations, messages, read marks, notifications; advisory locks | follow, block, send, read, hide | `auth` (standing), `moderation` |
| `moderation` | reports with copies of the evidence, audit records | report, resolve with an effect | `social`, `auth` |
| `instrument` | instruments and dated aliases; the backfill queue of `portfolio` | resolve, change ticker, backfill, review | OpenFIGI, positions and activities |
| `marketdata`, `prices` | stored quotes, catalogue, request limiter, two caches | quote, search, refresh | external providers, `portfolio` |
| `profile`, `strategy`, `dna`, `fx`, `providerhttp`, `ttlcache`, `server`, `config`, `db`, `telemetry`, `httpx`, `clock`, `cmd/api`, `frontend/` | projections, wiring, transport, user interface | | |

What is hard here, and what makes each part correct:

- **Concurrency around one portfolio.** `Apply` reads the audit log and the held
  symbols without the lock, talks to the price provider, and only then locks the
  portfolio row. Correct when a keyed request takes effect once, no commit is
  computed from a stale read, every call returns, and whatever is written is a
  single atomic change.
- **Derived figures from an append-only ledger.** Cash and positions are written
  by the plan of each mutation, the ledger rows by other lines of the same plan;
  dividend entitlement, realized result and attribution are later reconstructed
  from the ledger alone. Correct when the two agree after any sequence of
  operations, corrections included.
- **The ranked index.** It must measure market movement and income, never flows.
  Correct when a commit changes the live index by exactly the return it bears.
- **At-least-once work.** Outbox events, event applications, evaluations and mails
  are claimed, leased or marked, and retried after failures and crashes while
  others go on. Correct when everything is settled in the end and what is
  recorded is what happened.
- **Work in batches under a cursor.** Leaderboard, live ranking and finalization
  walk a population in passes, between which it changes, writes fail and the
  process dies. Correct when nobody is omitted without a trace and all are
  measured alike.
- **Check, then act.** Sign-ins, follows, blocks, messages, resolutions and
  resolvers read in one statement and write in another, on several replicas.
  Correct when a session never outlives its credential, a block excludes a
  follow, a budget is a budget, and nobody waits for ever.
- **Stale data handed on as new**: prices through two caches, tickers that have
  changed owners, filings used before they were public.

The full list, each at its line, is `hazards` in `PROJECT.json`.

## 2. Modules

| Module | Models |
| --- | --- |
| `Rational` | `money`: exact arithmetic. A value is a rational in lowest terms. |
| `RankedIndex` | `performance/calculator.go`: the pure transitions of a ranked state. |
| `PortfolioLedger` | one locked aggregate transaction: what every mutation kind writes, and what the service derives from the ledger. |
| `MutationCoordinator` | the protocol around that transaction, for many concurrent calls. |
| `AtomicPortfolio` | what the coordinator promises its callers (abstract specification). |
| `Outbox` | the outbox rows, the workers and the lifecycle history. |
| `IncomePipeline` | one dividend or distribution, from its announcement to the owner's correction. |
| `CorporateActionPipeline` | one split or symbol change, from its announcement to every holder. |
| `CompetitionRules` | rule documents and the evaluation of a portfolio against them. |
| `Competitions` | one edition: lifecycle, entries, baseline, observations, finalization. Extends `CompetitionRules`. |
| `CompetitionRanking` | the live ranking of an active edition. |
| `Leaderboard` | the global board and the election of the replica that refreshes it. |
| `Achievements` | ranked snapshots, the evaluation queue and the awards. |
| `BenchmarkIndex` | the virtual portfolio an award is measured against. |
| `Accounts` | users, identities, links, sessions and the mail outbox. |
| `Social` | follows, blocks and direct messages. |
| `Moderation` | reports and their resolution, composed with `Social`. |
| `MarketData` | quotes: limiter, stored quotes, caches, two wirings. |
| `Instruments` | the identity register and the backfill from it. |
| `Lemmas` | lemmas the proofs share: least and greatest numbers, pages under a cursor, the arithmetic of `Rational`. |
| `PortfolioLedger_proofs`, `MutationCoordinator_proofs`, `Competitions_proofs`, `Achievements_proofs` | theorems about the modules of these names. |
| `Pipelines_proofs` | theorems about the outbox and both pipelines. |
| `Community_proofs` | theorems about accounts, `Social` and `Moderation`. |
| `Services_proofs` | theorems about both boards, the register and the quotes. |
| `MCLedger`, `MCCoordinator`, `MCOutbox`, `MCPipelines`, `MCCompetitions`, `MCServices`, `MCAchievements`, `MCAccounts`, `MCCommunity` | the instances TLC checks. |

`MCServices`, `MCPipelines` and `MCAchievements` hold several specifications that
share no state; a behaviour exercises one of them while the others stay in a
first state, so that nothing is multiplied.

### PortfolioLedger

`position` is the positions table (an episode is its index, so ids never
repeat), `cash` the balance, `ledger` the activities in commit order, `ranked`
the performance state, `version` the aggregate version and also the clock.
`audit` is the newest audit row, `trusted` the newest trusted ranked snapshot,
`price` what the provider quotes (0 is an outage).

A `plan...` operator is the `case` of `coordinator.plan` of the same kind: it
returns the rows to write, the ids valued afterwards (`open`, the code's
`newOpen`, which is not always the set of open rows), the balance, the ledger
rows and the performance effect. `applyLocked` is the tail of
`coordinator.applyLocked`: both valuations, the ranked step with its
assertions, then all writes and the version at once. An operation (`Buy`,
`Sell`, `CorrectSell`, ...) adds the service's and the validator's guards.

Abstractions: one currency (an exchange rate is part of the price); an
instrument is its symbol; no rounding; a trade takes effect when it is recorded
(only corporate actions and income carry another date, with `Backdating`).
`Store` selects the repository where the two differ: the PostgreSQL row does not
carry the fee and net amount of an activity back, the in-memory one hands
metadata back unconverted, and only PostgreSQL refuses a second open row of an
instrument.

### MutationCoordinator

A call walks through `check` (corrections only), `preflight`, `pin`, `lock`,
`locked`, `staged`, possibly `rebuild`, to `done`. `holder` is the row lock. The
book is reduced to the set of symbols held, since composition is what the
coverage check is about. What a transaction commits is computed from `snap`,
what it read, so a missing lock shows up as a lost update. `Fail` is any error
or cancellation, at any point; inside the transaction it is a rollback. The
unique index on (user, request id) is left out on purpose: the lock must
suffice.

`AtomicPortfolio` says: a call takes effect at most once, at one instant between
its submission and its answer; a keyed request takes effect once however often
it is sent, and a resend is answered with the first version; anything else is
refused. The refinement mapping hides the lock, the quotes and the retries.

### Outbox

Events are numbered by `created_at`. `row[e]` is the outbox row, `worker[w]` the
batch a processor holds and where it is in the handler, `history` the transition
points. Clocks are replaced by `LeaseRunsOut` and `BackoffEnds`, which
may happen at any time, so a worker may be arbitrarily slow. `RecordTransitionIfChanged`
is two steps, the look and the insert, as in the code. Only the PostgreSQL store
is modelled: the in-memory one has no leases. Interval and daily
snapshots, which the look also sees, are not in this model: the portfolio is
one that no snapshot pass visited in between (a pass runs every few hours).

### IncomePipeline and CorporateActionPipeline

One event each. `said`/`announced` is how far the provider's revisions have come,
`event`/`action` the normalised row with its status, `apps`/`rows` the
application row of every holder, `incomePass`/`pass` where the pass is. A pass
ingests, lists what is due and walks the holders: skip, claim, apply, complete or
fail are steps of their own, between which the process may die, an answer may be
lost and the provider may revise. `requests` stands for the coordinator's audit
log: applying twice under one request id changes the book once (that it does is
`AtMostOnce` of the coordinator). Amounts are whole; holdings by day are an input
(what they are is `PortfolioLedger`'s). A correction by the owner reads the
application, books the difference and rewrites the row.

### Competitions, CompetitionRules, CompetitionRanking

`lifecycle`, `rules`, `entries[u]` (status, basket, the facts it was admitted on,
baseline), `observed` (the start and end observation sets, each sealed or not),
the finalization generation with cursor and failures, `results`, `outbox`.
Joining is two steps: the evaluation outside, the insert with its checks inside the transaction.
Baseline and finalization passes take their batch, ask the provider, which may
answer anything or nothing, capture what is not yet observed, value, and write;
each may fail or stop. `CompetitionRules` translates the admission of a rule
document and its evaluation. `CompetitionRanking` is the lap of
`refreshEditionRanking` over a field that the baseline is still filling.

### Leaderboard

The rows under construction and the served rows are shared; cursor and latch belong to a replica's memory (`service.go:670`). `lock` is the advisory
lock, `leader` what a replica believes. A page of users is computed and written;
a failed write latches the failure so that the lap is not promoted. The readers
(`BuildTimeframe`, `UserRankings`, `UserStanding`, `GetUserRank`) are operators.

### Achievements and BenchmarkIndex

`rows` are ranked snapshots of one portfolio with kind, index, quality,
protection and evaluation status; a worker pass captures, compacts, claims and
evaluates, a user's request evaluates on its own. An award keeps its two
boundaries as evidence. `BenchmarkIndex` computes one index in steps: pick the
version, flatten, fetch, align the dates, value and rebalance from close to close.

### Accounts

All accounts are for one address, which is where requests collide. A request is
a sequence of statements (`calls[c]` says which comes next); store operations are
those of the Postgres repository. A session remembers the credential it was
obtained with, which the code does not store: it is there for the property.

### Social and Moderation

`handling[h]` is a request between its statements; `locks` are the advisory locks
of the pair, the sender and the conversation, held until commit. A message is
stamped before it waits for them. `Moderation` adds reports, the copies of the
evidence, resolution under the report's row lock with its effect, suspension and
the foreign keys' behaviour when an account or message is deleted.

### MarketData and Instruments

A price is the time the market was seen, so its true age is known whatever the
caches record. `Chain` chooses the wiring. In `Instruments` every statement of
the resolver is a transaction of its own; `aliases` carry their validity, and the
backfill reads them as of the record's day.

## 3. Runs

| Run | Instance | Shows |
| --- | --- | --- |
| `trading` | 1 symbol, 2 prices, 4 commits, 1 price move, a fee of 1, tracked and untracked portfolios, purchases funded or not | cash equals the ledger's sum; the return is fully attributed, no fee twice |
| `corrections` | 1 symbol, 4 commits, snapshots between them, PostgreSQL | corrections of cash flows, purchases and sales keep the holdings equal to the replayed ledger and never change what a trusted snapshot saw; a corrected purchase is still held |
| `income` | 2 symbols, 3 commits, 1 price move with an outage, PostgreSQL | no negative basis or balance, and a commit moves the index by its return only, through dividends, two-component events, splits, ticker changes, write-offs, strategy copies and manual edits |
| `coordinator` | 3 calls, 1 key or none, 1 symbol, 2 attempts | one commit per key, gapless versions, every call returns, refinement of `AtomicPortfolio` |
| `delivery` | 2 workers, 2 events, batches of 2, 2 attempts, 1 interruption | settled events are covered by the history; every event is settled |
| `pipelines` | 2 holders, 4 revisions, 2 corrections of one holder, 2 faults; 3 portfolios, 5 notices, 1 trade, 1 mishap | rows say what was received, a cancelled event is never credited, everyone owed is paid and everyone entitled adjusted, by one set of terms |
| `competitions` | 2 users (one may leave), 2 instruments (one foreign), batches of 2 and 1, 1 split, 1 fault | results come from the stored observations, settle the field and are final; admission ignores idle cash; finalization ends |
| `services` | 1 replica, 3 users, pages of 2; 3 entries, batches of 2; 1 symbol, 5 instants, both wirings; 2 tickers and FIGIs, 2 resolvers, 3 days | boards omit nobody and readers agree; unmarked prices are recent and the budget is kept; past meanings of tickers stay and backfills respect them |
| `awards` | 1 worker, 1 request, 6 intervals, 1 portfolio change, 1 mishap; 12 recipe stores over 5 days | evidence stays, history is not rewritten, evaluations finish; a filing is used from the first close after it was public |
| `accounts` | 2 accounts of one address, 2 passwords, 1 provider identity, 2 requests at a time, 5 in all, 1 fault | a session never outlives its credential; registration mail arrives |
| `community` | 2 people, 2 requests on 2 replicas, 4 in all, 2 moderators, 1 report | a block excludes a follow, budgets hold, a report is resolved once with its effect, every request returns |
| `readback` (violation) | the instance of `corrections` | with PostgreSQL a corrected sale credits its whole proceeds again |

Why the bounds suffice: each is the least in which the case the property is about
happens, with one to spare where TLC allows it, and every mutant of
`PROJECT.json` (a dropped guard, lock or reset, an off-by-one, a swapped order)
is caught within them. Four commits allow open, partial sale, correction and
correction again; three calls are the least in which a third one interferes with
a retry; two attempts are the least in which one fails and one is the last; one
price move separates the value at a checkpoint from the value before the next
mutation; three users in pages of two, and two users finalized one at a time,
make a lap span several passes; two requests at a time are the least that
interleave, and five in all let two others (a registration and a change) come
before them. Days, ticks and intervals are as many as a deadline, a window and one
instant after it need.

Only `coordinator` checks for deadlock, with an explicit step for the state in
which every call has returned. In the others bounded counters run out, and a
system with nothing to deliver rests.

The finding `readback` quotes the test it disagrees with; `findings` in
`PROJECT.json` has the lines.

## 4. Properties and the exceptions they name

`CashMatchesLedger`, `HoldingsMatchLedger`, `EconomicIdentity` and
`IndexMovesByReturnOnly` are the identities the product rests on. Where the code
is known not to keep one, the passing form names the case it leaves out (a sale
corrected twice, a corrected sale, a return of capital beyond the basis, a
reopened episode). `IndexMovesByReturnOnly` is stated with its own arithmetic
(`IndexFollows`), not with the transitions it judges; `IndexFollowsPublished`
likewise recomputes the benchmark from the published filings. `OwedIsPaid`,
`OneSetOfTerms` and `EntitledIsAdjusted` except behaviours with a failed call or a
crash, `OneSetOfTerms` also an action revised after it was superseded,
`ReceivedMatchesApplication` a row with two corrections, and `FreshMeansRecent`
the Yahoo wiring: below is what happens there.
`EvidenceStands` is checked with a badge period well inside the intraday
retention. `IndexMovesByReturnOnly` holds of a holding without any cost basis left
as well: its write-off moves nothing, for the checkpoint of a book that is worth
nothing before and after is carried, not divided.

Some modules state properties that no run lists. These are refuted by the code as
it is (put one in the run's `.cfg` to see the behaviour):

| Property | What happens |
| --- | --- |
| `IndexMovesByReturnOnlyAlways` (PortfolioLedger) | correcting the sale that closed an episode reopens it outside the set the coordinator values, and the index jumps (`portfolio/coordinator.go:1480`; `performance/calculator.go:66` says the index is identical before and after) or pauses, and loses the return that follows |
| `CorrectedOnce` (MutationCoordinator) | two overlapping corrections of one cash flow both pass the unlocked check (`portfolio/service.go:224`; `backend/README.md:171` "an activity can only be corrected once") |
| `HistoryExact` (Outbox) | an event retried after later ones leaves a boundary missing or misplaced (`performancehistory/service.go:158`; `jobs/outbox.go:142` says reprocessing converges) |
| `HoldingsMatchLedger` with `Backdating` | a split recorded late multiplies shares bought after it took effect when they joined an older episode (`corpactions/service.go:250`; `backend/README.md:336`) |
| `FailedIsRetried` (IncomePipeline) | a failed application is never claimed again: the claim is `ON CONFLICT DO NOTHING` (`income/postgres_store.go:137`), while `income/store.go:24` keeps `claimed=false` for terminal rows and rows in progress, and `income/service.go:401` says "Mark retryable" |
| `ReceivedMatchesApplicationAlways` (IncomePipeline) | two overlapping corrections of one application both read the same net and both book their difference (`income/correction.go:82`) |
| `SupersededStaysOut` (CorporateActionPipeline) | a superseded action that is revised once more is validated again and applied by its new terms to whoever has no row yet (`corpactions/postgres_store.go:63`) |
| `SkippedChangedNothing` (CorporateActionPipeline, `MaxTrades = 2`) | an application that changed the book and lost its answer is retried, and ends as skipped when the position was sold and bought again in between |
| `NeverSilentlyDropped`, `SealedIsComplete` (Competitions) | an entry whose baseline pass was still under way stays active or pending in a completed edition |
| `ResultsFromStoredObservations` with two `BaselineWorkers` | a scheduler pass and an administrator's retry overlap, and one values with the price it captured although the other's is stored (`competitions/baseline.go:115`; the comment at `:80` promises every entry the same start price in whichever pass) |
| `PromotionOmitsNobody` (CompetitionRanking) | an entry that became active behind the cursor is missing from the promoted generation (`competitions/ranking.go:253`) |
| `BoardOmitsNobody` with two replicas | cursor and latch are in memory (`leaderboard/service.go:117`): a new leader starts a lap on rows the old one left, or without the old one's failures |
| `PercentileInRange` (Leaderboard, `MaxChanges = 2`) | a rank can exceed the number of participants, and the percentile is negative (`leaderboard/service.go:1188`; `frontend/src/api/schemas.ts:181` accepts 0 to 100) |
| `NothingLooksFresh` (MarketData) | `marketdata/price_provider_adapter.go:28` drops the stale mark of the Yahoo chain; `prices/cached_provider.go:29` says no fresh-looking quote is manufactured |
| `NoHalfIdentified` (Instruments) | a resolver that stops between its statements leaves an instrument without its FIGI alias, and the next one answers with it (`instrument/resolver.go:153`) |
| `AwardedWhileActive` (Achievements, `MaxMoves = 2`) | the outbox delivers a pause late, after an award was made over an interval that holds it |

`TypeOK`, `BookMatchesAudits` and `UnpricedCallsNeverPlan` of the coordinator,
`TypeOK` of the ledger and `EvidenceIsRetained` of moderation are proved (section 6)
and in no run; `BadgeMatchesInbox` (Social) and `BoardAppears`
(CompetitionRanking, under `RankingFairSpec`) hold on the same instances.

Met while modelling, visible in the models, and not stated as properties:

- Portfolio: a strategy copy, a manual add, resize or delete writes no activity,
  so the ledger that dividend entitlement is computed from does not know of it
  (`portfolio/coordinator.go:1577`); `summarizeLedger` counts the realized result
  of a corrected sale and of its original (`portfolio/service.go:1142`); the second
  correction of a sale that closed an episode takes the reduced quantity for what
  was held (`coordinator.go:1395`); the in-memory store does not convert the ratio
  of a stock-dividend component (`service_activities.go:269`); a resent correction
  is refused before the idempotency check is reached (`service.go:224`).
- Portfolio: the comment at `coordinator.go:1284` takes a correctable purchase for the
  last event of its episode, so that subtracting it gives back what the episode was
  before. `isLastEpisodeEvent` (`coordinator.go:729`) passes over rows of the same
  group, and an income event may reinvest a dividend and return capital in one group:
  the reinvested purchase then counts as the last event although the basis has moved
  since, and its correction can leave a negative cost basis. This is why
  `BooksStaySolvent` (section 6) leaves corrected purchases out.
- Outbox: a worker slower than its lease reports a failure for an event another
  worker has processed since, which may dead-letter it (`postgres_store.go:575`);
  with batches of one, a requeued head event keeps a younger one from being claimed.
- Accounts: the first password is checked and written in two statements; two
  concurrent requests for a link leave two open links of one kind.
- Social: a message's checks come before its transaction; the read mark can move
  backwards; a message stamped before it waited may be committed below the read
  mark; a hidden message still shows in the inbox preview; the badge counts
  conversations with blocked people.
- Leaderboard: the refresh of competition scores in Redis races the hook that
  removes a deleted account.
- Competitions: the in-memory ranking breaks ties by entry id, its comment says name.
- Market data: an older fetch can overwrite a newer stored quote; one failing batch
  aborts those after it; the limiter is per process.
- Instruments: a stop after `CreateInstrument` leaves a FIGI the next resolver
  collides with; `ChangeTicker` closes aliases at once even for a future date.
- Achievements: where a badge period and its tolerance exceed the intraday
  retention, a compaction between reading a boundary and protecting it
  (`achievements/service.go:539`) removes the evidence; an error of the ranked return is overwritten by
  the next `err :=` (`achievements/service.go:490`).
- Benchmark: two filings public between the same two closes are activated one
  close apart, although `backend/README.md:939` activates each on the first common
  date after it was public; nested recipes are resolved as of the parent's
  `publicly_known_at` (`benchmark/engine_return.go:204`), the README says as of its
  activation.

## 5. Fairness

- Coordinator: weak fairness of each call's own steps once it was submitted. A
  call is a goroutine that runs until it returns; the retry loop is bounded, and
  PostgreSQL grants a row lock that has become free. Arrivals and failures are
  not fair. Each call happens once, so weak fairness of the lock is enough.
- Outbox: weak fairness of every worker's loop (a ticker drives it) and of the
  passing of time (leases and backoffs end). Failing, crashing and requeueing are
  not fair; crashes and lost settlements are bounded.
- Pipelines: the workers' passes and the days, weakly. Revisions, faults, trades
  and corrections are not fair.
- Competitions: time and the finalization worker, which the scheduler ticks on
  every tick. Everything users, administrators and providers do is not.
- Achievements: workers, time, the growing old of an abandoned claim, and a request
  once accepted. A worker in its evaluation
  loop gets out of it, since its batch is finite; as evaluating a claim leaves the
  loop enabled, this is stated by what it reaches (`[]<>(pass[w].at # "evaluating")`).
- Accounts: the mail processor and the lapse of its leases and delays.
- Community: each accepted request runs until it returns; a lock is granted when it
  is free. Leaderboard, market data and instruments state safety only.

## 6. Proofs

Every theorem holds for all values of the constants that the named assumption of
its module allows. The assumptions say what the code has by construction: batch
sizes and limits are positive, an edition's dates are in order
(`competitions/lifecycle.go` refuses others), keys and the markers for "none"
differ, users and entries are numbered because passes walk them by id, and inputs
have their types. The hypotheses beyond that (`OnePass`, `LockIsKept`, `Fits`, and those
of the ledger) stand in the theorems that need them. Invariants were given to TLC on the instances of
section 3 before they were proved.

**The coordinator** (`MutationCoordinator_proofs`): `IdempotencyKeysAreHonoured`
(`AtMostOnce`), `NoLostUpdate` (`VersionChain`), `ReplayNeverPlans`, `TypeCorrect`, all
from `Invariance`, `Spec => []IInv`. They are not inductive alone: a commit publishes
what the call read earlier, so the argument needs that it is still what is
committed. `IInv` adds

- `LockInv`: exactly the call that holds the lock is inside the transaction;
- `StagedInv`: what a staged call read is the committed state as it is, and its
  key is still unused, because only the lock's holder commits;
- `PricedInv`: a call without quotes is there because its key is already
  audited, and audits are never removed;
- `CallInv`: a call beyond `idle` has a request, and attempts are left until one
  is spent.

One lemma per conjunct, by cases over the actions, on two facts used everywhere:
only `Commit` writes the book (`OnlyCommitWrites`), and a call's step leaves the
other calls alone (`OthersKeep`). `CoordinatorIsAtomic` then shows the refinement of
`AtomicPortfolio`: `Commit` maps to the atomic effect of the call, the return of a
call to its answer, and everything about locks, quotes, retries and replays to a
stutter; `StagedInv` gives the step of a commit its "unused key, next version".

**The outbox** (`Pipelines_proofs`): `SettlementNeedsHistory` (`SettledIsCovered`).
`CoveredInv` strengthens it to a worker that has recorded a transition, or found it
suppressed, and not yet marked the row. `DeliveryOnlyAdds`: the history only grows,
which is why cover, once given, lasts.

**The pipelines** (`Pipelines_proofs`): `OneSetOfTermsHolds` rests on what is true
inside a pass (`DuringPass`: the pass applies the terms that are stored, and whoever
is adjusted was adjusted by them) and between two (`BetweenPasses`: an action under
whose terms somebody was adjusted is applied or superseded, so new terms are not
processed). `RowsTellTheTruth` (`ReceivedMatchesApplication`) takes for each holder the
joint state of row, amount received and request ids at every step of a pass and of
a correction (`RowInv`), and that the terms a pass credits are those stored
(`CreditInv`). `CancelledIsNotCredited` is an action property on the latter.

**Competitions** (`Competitions_proofs`): `FinalInv` says of finalization that a row is
what its entry would be valued at now (`RowInv`: stored observations never change,
`ValuationStays`), that the cursor has passed nobody without settling him or
remembering a failure (`CursorInv`, with `BatchInv` and `AdvanceInv` for the pass in
hand), and that the generation is built only while the edition is being finalized
(`OutsideInv`). From it `EditionsSettleTheirField` (`FieldIsSettled`) and
`CompletedIsForGood` (`ResultsAreFinal`). `AdmissionIsAboutHoldings`
(`AdmissionIgnoresIdleCash`) carries the facts a request was evaluated on to the
insert. `ResultsAreFromStoredObservations` adds `StartInv`, the same for the baseline,
under `OnePass`: no two baseline passes overlap. Without it the statement is false
(section 4).

**Boards** (`Services_proofs`): `BoardsAreWhole` (`BoardIsWholeField`) for a competition's
board and `BoardsOmitNobody` (`BoardOmitsNobody`) for the global one are the same argument:
who was there when the lap began is among the rows, or still ahead of the cursor, or
the lap is marked as failed; `Lemmas` supplies that a page under a cursor skips
nobody and a short one takes the rest. For the global board cursor and mark
belong to a replica and the rows to all, hence `LockIsKept`: there is one replica, or
whoever believes to lead holds the advisory lock. `BoardReadersAgree` (`ReadersAgree`)
needs only that the served ranks are distinct and follow returns (`BoardInv`).

**Register and quotes** (`Services_proofs`): `RegisterInv` says what each resolver has
read and that aliases only begin or end today; from it `HistoryIsKept`
(`HistoryStaysResolvable`) and `BackfillsHold` (`BackfilledMatchesHistory`).
`UnmarkedPricesAreRecent` (`FreshMeansRecent`): in the Twelve Data wiring every quote
stored, cached or on its way is marked or no older than its stage allows (`MarketInv`).
`BudgetIsKept` (`ProviderBudget`): the limiter only knows the window and the day it is
in, so `LimiterInv` adds what it has forgotten: the minute before the window saw at most
a window's worth, because a window lasts at least a minute, and no request lies outside
the window and day it counts (`Counted`). Any minute then lies in two windows.

**Accounts** (`Community_proofs`): `SessionsHold` (`SessionsFollowCredentials`).
`SessionInv` and `CallInv` say that a proof of a password that was made at the
account's present version names its present password, for sessions and for requests
between two statements: every statement that changes a password raises the
version (`Lawful`).

**The community** (`Community_proofs`): from one invariant `BlocksHold`
(`BlockExcludesFollow`: where a follow is about to be inserted, the pair's lock is
held and no block stands), `BudgetsHold` (`MessageBudget`: where a message is about to
be written, sender's and conversation's locks are held and both budgets have room),
`ResolutionsStand` (`ResolvedOnceWithItsEffect`: a resolved report has one audit record,
whose effect stands) and `EvidenceStays` (`EvidenceIsRetained`).

**Awards** (`Achievements_proofs`): every statement is `Conservative`: a complete row
stays what it is, and only unprotected intraday rows beyond the retention go.
`TrustedHistoryStays` (`HistoryIsNotRewritten`) follows with the uniqueness of ids.
`FittingEvidenceStands` says of each award that its evidence stands if its badge
`Fits`: period, boundary tolerance and the interval an evaluation may take lie
within the retention of intraday points (30 and 90 days in 120 do, 6 months and a
year do not unless the retention is configured longer). What an evaluation is about
to award is protected, or too recent to be compacted (`TodoInv`).
`EvidenceOfAwardsStands` is `EvidenceStands` where all badges fit.

**The ledger** (`PortfolioLedger_proofs`, on the arithmetic in `Lemmas`). Amounts are
rationals in lowest terms, and two of them are equal when they are the same pair.
The lemmas on `Rational` show that its operations keep lowest terms (the Euclidean
`gcd` divides both and nothing left has a common divisor, `Stands`) and obey the laws of
a field and its order. Sums over rows and ledgers are one recursive function, `Total`,
which is treated by what appending or replacing one element adds to it. The rest is
three layers:

- what each plan of `coordinator.plan` does: `Whole` (typed, costs not made negative,
  `Balanced`: the new balance is the old one and what the new legs say; `Accounted`:
  balance and bases are the old ones and what the new legs gained), and for a
  correction `Corrects`, the same with the effect of the corrected leg taken out;
- `applyLocked`: a commit appends the legs and keeps the facts of its plan (`Facts`);
- the invariants, one step lemma each.

| Theorem | States | Invariant | Hypothesis, and why |
| --- | --- | --- | --- |
| `LedgerTypes` | `TypeOK` | `LedgerInv`: types, lowest terms, open rows hold something, each leg refers to an episode and an original that exist, cash is not negative, the ranked state is valid | none |
| `BooksStaySolvent` | `SolventBook` | `Costed`: no average below zero | no purchase is corrected: the case above |
| `CashIsWhatTheLedgerSays` | `CashMatchesLedger` | `CashIsRecorded`: cash is the sum over all legs, each with the effect of its latest correction | the book is not replaced, which moves cash and records nothing (`coordinator.go:1577`); trades are corrected only with a store that reads back what was written, which PostgreSQL does not (run `readback`) |
| `TrustedHistoryIsNotRewritten` | `SnapshotsStayTrue` | the replay up to the boundary is over legs that no later commit adds to, and none of them is corrected (`validateCorrection`) | corporate actions are not dated back |
| `CorrectedPurchasesAreHeld` | `PurchasesCorrectedWhileHeld` | `ClosedInv`: behind every closed episode stands a later leg that is not a purchase, so none of its purchases is its last event (`Sealed`) | none |
| `PerformanceAddsUp` | `EconomicIdentity` | `GainsExplain`: while no sale is corrected, cash and cost bases are the sum of deposits, realized results, income and fees | the book is not reshaped by hand (add, resize, delete, replace): these record no leg |
| `IndexMovesByReturn` | `IndexMovesByReturnOnly` | `RankedInv`: a book with something in it has an active ranked state, so no return is applied to a paused one | no sale is corrected: the correction of the sale that closed an episode reopens it outside the set of the valuation, so the index may pause over a book that holds something, and the return of the next commit is lost (buy, sell everything, withdraw, correct the sale, receive income) |

The hypotheses on `Kinds` are about which handlers are used, so the theorems cover
every portfolio whose owner never used those. Each is needed: TLC finds the
counterexample with the kind added.

Model-checked only:

- all liveness: fairness and `ENABLED` are outside the prover's reach;
- `HoldingsMatchLedger`: the replay is a fold over a set in order of occurrence, and that
  a later leg can be applied last, or that the sum over rows follows it, is an
  induction over that set;
- `IndexFollowsPublished`: the index is carried over closes in the order a sort returns,
  and its recipes are flattened by recursion.

## 7. Not modelled, and what is left

Left for proofs: `HoldingsMatchLedger`, by a replay written as a fold over the legs in
order of occurrence, and `IndexFollowsPublished` for recipes that are not nested.

Left for models: the valuation and the ranked state as two reads
(`performance/service.go:85`), and outbox order against commit order, since
`created_at` is taken before the lock (`portfolio/coordinator.go:611`). Both need
the amounts or the calls of one module and the history of another in one
instance, which is too large for TLC at bounds that show the case.

Not modelled:

- user interface, HTTP handlers and middleware, configuration, migrations except
  the foreign keys, telemetry: no state of their own that others depend on;
- `profile`, explore and `strategy`: projections of data modelled elsewhere (a
  strategy copy reaches the core as a replacement);
- `dna`, the analytics and risk figures of `performancehistory`: arithmetic over one
  snapshot or series, without state;
- the clients of external providers: the models take any answer, or none;
- the in-memory repositories, except where `Store` says otherwise: they serve tests
  and development;
- decimal rounding and foreign exchange inside the ledger.
