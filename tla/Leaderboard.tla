----------------------------- MODULE Leaderboard -----------------------------
(***************************************************************************)
(* The global leaderboard (internal/leaderboard) and the election of the   *)
(* replica that refreshes it (internal/leaderlock).                        *)
(*                                                                         *)
(* Every replica keeps its own refresh cursor and failure latch in memory; *)
(* the rows under construction and the served rows are in the database.    *)
(* A user is a number, which is also the order of the ids; a performance   *)
(* is what CurrentRankedPerformance answers: "failing", "paused", or a     *)
(* return together with the timeframes an old enough snapshot exists for.  *)
(***************************************************************************)
EXTENDS Integers, FiniteSets, FiniteSetsExt

CONSTANTS
  Replicas,
  Users,           \* 1..n
  NameOf,          \* display names, as numbers
  Timeframes,      \* "ALL" and the trailing windows
  Performances,    \* what the performance of a user may be
  RefreshBatchSize,
  MaxLiveComputeUsers,
  MaxLeaderboardSize,
  MaxChanges,      \* bound: changes of performance and deletions
  MaxFaults        \* bound: lost connections, crashes and failed writes

ASSUME LeaderboardAssumption ==
  /\ IsFiniteSet(Users) /\ Users = 1..Cardinality(Users) /\ NameOf \in [Users -> Int]
  /\ IsFiniteSet(Timeframes) /\ "ALL" \in Timeframes
  /\ Performances \subseteq
       [state : {"ranked", "paused", "failing"}, return : Int, windows : SUBSET Timeframes]
  /\ RefreshBatchSize \in Nat \ {0} /\ MaxLiveComputeUsers \in Nat

VARIABLES
  lock,         \* the replicas whose session holds the advisory lock
  leader,       \* leader[r]: what IsLeader answers on r
  cursor,       \* cursor[r]: refreshCursorID, 0 at the start of a lap
  failedLap,    \* failedLap[r]: cycleRankingFailed
  pass,         \* pass[r]: the call of RefreshCache under way
  building,     \* rows of the building generation
  active,       \* rows of the active generation, with their ranks
  activated,    \* a generation has been promoted
  performance,  \* performance[u]
  living,       \* users without deleted_at
  steady,       \* history: users whose performance has not changed since the building generation began
  changes, faults

electionVars == <<lock, leader>>
memoryVars   == <<cursor, failedLap, pass>>
boardVars    == <<building, active, activated>>
worldVars    == <<performance, living, changes>>
vars == <<electionVars, memoryVars, boardVars, worldVars, steady, faults>>

NoRefresh == [busy |-> FALSE, todo |-> {}, lap |-> FALSE]

Fault == faults < MaxFaults /\ faults' = faults + 1

-----------------------------------------------------------------------------
(* Election (leaderlock.go) *)

\* A session that loses the try gives its connection back.
tryAcquire(r) ==
  /\ ~leader[r] /\ lock = {}
  /\ lock' = {r} /\ leader' = [leader EXCEPT ![r] = TRUE]
  /\ UNCHANGED <<memoryVars, boardVars, worldVars, steady, faults>>

\* The server drops the session and with it the lock; the replica does not know.
loseConnection(r) ==
  /\ r \in lock /\ Fault
  /\ lock' = {}
  /\ UNCHANGED <<leader, memoryVars, boardVars, worldVars, steady>>

\* The next tick of Run sees the closed connection.
noticeLost(r) ==
  /\ leader[r] /\ r \notin lock
  /\ leader' = [leader EXCEPT ![r] = FALSE]
  /\ UNCHANGED <<lock, memoryVars, boardVars, worldVars, steady, faults>>

\* The process ends, orderly (release) or not, and starts again with nothing.
restart(r) ==
  /\ Fault
  /\ lock' = lock \ {r} /\ leader' = [leader EXCEPT ![r] = FALSE]
  /\ cursor' = [cursor EXCEPT ![r] = 0] /\ failedLap' = [failedLap EXCEPT ![r] = FALSE]
  /\ pass' = [pass EXCEPT ![r] = NoRefresh]
  /\ UNCHANGED <<boardVars, worldVars, steady>>

-----------------------------------------------------------------------------
(* Rows and ranks *)

Ranked(u) == performance[u].state = "ranked"

\* The timeframes a ranked user has a return for: all time, and the windows
\* whose base snapshot is recent enough and not older than the epoch.
timeframeReturn(u, tf) == Ranked(u) /\ (tf = "ALL" \/ tf \in performance[u].windows)

Row(u) == performance[u].return

\* The store's writes, for the timeframes tfs of one user.
Delete(rows, u, tfs) == {x \in rows : x.user # u \/ x.tf \notin tfs}

Upsert(rows, u, tfs) == Delete(rows, u, tfs) \cup {[tf |-> tf, user |-> u, return |-> Row(u)] : tf \in tfs}

BetterIgnoringTies(x, y) == x.return > y.return

\* The one ranking rule: return, then display name, then id.
Better(x, y) ==
  \/ x.return > y.return
  \/ x.return = y.return /\ NameOf[x.user] < NameOf[y.user]
  \/ x.return = y.return /\ NameOf[x.user] = NameOf[y.user] /\ x.user < y.user

rankIn(x, rows) == 1 + Cardinality({y \in rows : y.tf = x.tf /\ Better(y, x)})

\* Rows of deleted users are not joined and get no rank.
Materialized(rows) ==
  LET joined == {x \in rows : x.user \in living}
  IN  {[tf |-> x.tf, user |-> x.user, return |-> x.return, rank |-> rankIn(x, joined)] : x \in joined}

-----------------------------------------------------------------------------
(* The refresh (service.go) *)

ListRankableUsersPage(after, size) ==
  LET rest == {u \in living : u > after} IN {u \in rest : Cardinality({v \in rest : v < u}) < size}

\* A full page moves the cursor; a short one ends the lap, unless nobody exists.
nextPagedBatch(r) ==
  LET batch == ListRankableUsersPage(cursor[r], RefreshBatchSize)
      short == Cardinality(batch) < RefreshBatchSize
  IN  /\ leader[r] /\ ~pass[r].busy
      /\ pass' = [pass EXCEPT ![r] = [busy |-> TRUE, todo |-> batch, lap |-> short /\ (cursor[r] # 0 \/ batch # {})]]
      /\ cursor' = [cursor EXCEPT ![r] = IF short THEN 0 ELSE Max(batch)]
      /\ UNCHANGED <<electionVars, failedLap, boardVars, worldVars, steady, faults>>

\* The row of every timeframe with a return is written, every other one deleted.
refreshRankingRows(rows, u, tfs) ==
  LET eligible == {tf \in tfs : timeframeReturn(u, tf)} IN Upsert(Delete(rows, u, tfs), u, eligible)

\* A latch that the next user's success clears.
latchesLast(r, lost) == failedLap' = [failedLap EXCEPT ![r] = lost # {}]

\* markCycleRankingFailure
latches(r, lost) == failedLap' = [failedLap EXCEPT ![r] = @ \/ lost # {}]

\* One user of the batch; the writes of the timeframes in lost fail.  A failed
\* delete of a paused user's row is logged only.
refreshUser(r, u, lost) ==
  LET written == Timeframes \ lost
  IN  /\ u \in pass[r].todo
      /\ pass' = [pass EXCEPT ![r].todo = @ \ {u}]
      /\ IF lost = {} THEN UNCHANGED faults ELSE Fault
      /\ \/ performance[u].state = "failing" /\ lost = {} /\ UNCHANGED <<building, failedLap>>
         \/ performance[u].state = "paused" /\ building' = Delete(building, u, written) /\ UNCHANGED failedLap
         \/ Ranked(u) /\ building' = refreshRankingRows(building, u, written) /\ latches(r, lost)
      /\ UNCHANGED <<electionVars, cursor, active, activated, worldVars, steady>>

\* CompleteCycle: ranks, promotion, the next generation and the pruning in one
\* transaction.
CompleteCycle ==
  /\ active' = Materialized(building) /\ activated' = TRUE
  /\ building' = {}
  /\ steady' = {u \in living : Ranked(u)}

\* The end of RefreshCache: a lap without a failed write is promoted, and the
\* latch is cleared either way.
finishPass(r) ==
  /\ pass[r].busy /\ pass[r].todo = {}
  /\ pass' = [pass EXCEPT ![r] = NoRefresh]
  /\ IF pass[r].lap THEN failedLap' = [failedLap EXCEPT ![r] = FALSE] ELSE UNCHANGED failedLap
  /\ IF pass[r].lap /\ ~failedLap[r] THEN CompleteCycle ELSE UNCHANGED <<boardVars, steady>>
  /\ UNCHANGED <<electionVars, cursor, worldVars, faults>>

\* The promoting transaction fails: everything is left for the next lap.
promotionFails(r) ==
  /\ pass[r].busy /\ pass[r].todo = {} /\ pass[r].lap /\ ~failedLap[r] /\ Fault
  /\ pass' = [pass EXCEPT ![r] = NoRefresh]
  /\ UNCHANGED <<electionVars, cursor, failedLap, boardVars, worldVars, steady>>

RefreshCache(r) == nextPagedBatch(r) \/ finishPass(r) \/ \E u \in Users : refreshUser(r, u, {})

-----------------------------------------------------------------------------
(* What the users do *)

Change == changes < MaxChanges /\ changes' = changes + 1

perform(u, p) ==
  /\ Change /\ u \in living /\ performance[u] # p
  /\ performance' = [performance EXCEPT ![u] = p]
  /\ steady' = steady \ {u}
  /\ UNCHANGED <<electionVars, memoryVars, boardVars, living, faults>>

deleteUser(u) ==
  /\ Change /\ u \in living
  /\ living' = living \ {u} /\ steady' = steady \ {u}
  /\ UNCHANGED <<electionVars, memoryVars, boardVars, performance, faults>>

-----------------------------------------------------------------------------
(* Reads.  A rank of 0 is no rank. *)

\* Any promoted generation is served, however old.
useRanking == activated

Served(tf) == {x \in active : x.tf = tf /\ x.user \in living}

TopPage(tf, limit) == {x \in Served(tf) : Cardinality({y \in Served(tf) : y.rank < x.rank}) < limit}

RankOf(tf, u) == LET x == {y \in Served(tf) : y.user = u} IN IF x = {} THEN 0 ELSE (CHOOSE y \in x : TRUE).rank

liveComputeAllowed == MaxLiveComputeUsers = 0 \/ Cardinality(living) <= MaxLiveComputeUsers

\* Every user valued now, ranked by the same rule.
rankRows(tf) ==
  LET rows == {[tf |-> tf, user |-> u, return |-> Row(u)] : u \in {v \in living : timeframeReturn(v, tf)}}
  IN  IF liveComputeAllowed
      THEN {[tf |-> tf, user |-> x.user, return |-> x.return, rank |-> rankIn(x, rows)] : x \in rows}
      ELSE {}

buildFromRanking(tf) == TopPage(tf, MaxLeaderboardSize)

BuildTimeframe(tf) == IF useRanking THEN buildFromRanking(tf) ELSE rankRows(tf)

\* An empty projection falls back to the live rows.
UserRankings(tf) == IF useRanking /\ Served(tf) # {} THEN Served(tf) ELSE rankRows(tf)

LiveRank(u, tf) == LET x == {y \in rankRows(tf) : y.user = u} IN IF x = {} THEN 0 ELSE (CHOOSE y \in x : TRUE).rank

\* The user's own state comes first, then the projection, then the live rows.
GetUserRank(u) ==
  IF performance[u].state = "paused" THEN 0
  ELSE IF Ranked(u) /\ useRanking /\ RankOf("ALL", u) # 0 THEN RankOf("ALL", u)
  ELSE LiveRank(u, "ALL")

\* Whole percent points; the code keeps two decimals.
percentile(rank, participants) ==
  IF rank <= 0 \/ participants <= 0 THEN 0 ELSE ((participants - rank + 1) * 100) \div participants

userStandingFromRanking(u, tf) ==
  LET rank == RankOf(tf, u)
  IN  [rank |-> rank, participants |-> Cardinality(Served(tf)), percentile |-> percentile(rank, Cardinality(Served(tf)))]

UserStanding(u, tf) ==
  IF useRanking /\ RankOf(tf, u) # 0 THEN userStandingFromRanking(u, tf)
  ELSE LET rows == rankRows(tf) rank == LiveRank(u, tf)
       IN  [rank |-> rank, participants |-> Cardinality(rows), percentile |-> percentile(rank, Cardinality(rows))]

-----------------------------------------------------------------------------

Init ==
  /\ lock = {} /\ leader = [r \in Replicas |-> FALSE]
  /\ cursor = [r \in Replicas |-> 0] /\ failedLap = [r \in Replicas |-> FALSE]
  /\ pass = [r \in Replicas |-> NoRefresh]
  /\ building = {} /\ active = {} /\ activated = FALSE
  /\ living = Users /\ performance \in [Users -> {p \in Performances : p.state = "ranked"}]
  /\ steady = Users /\ changes = 0 /\ faults = 0

Next ==
  \/ \E r \in Replicas : tryAcquire(r) \/ loseConnection(r) \/ noticeLost(r) \/ restart(r)
  \/ \E r \in Replicas : RefreshCache(r) \/ promotionFails(r)
  \/ \E r \in Replicas, u \in Users, lost \in SUBSET Timeframes \ {{}} : refreshUser(r, u, lost)
  \/ \E u \in Users : deleteUser(u) \/ \E p \in Performances : perform(u, p)

Spec == Init /\ [][Next]_vars

-----------------------------------------------------------------------------
(* Properties *)

\* A promoted board silently omits nobody: everyone whose performance stood
\* unchanged while the generation was built is on it, in every timeframe the
\* user has a return for and with that return, whatever pages, failed writes,
\* restarts and re-elections the laps went through.
BoardOmitsNobody ==
  [][activated' /\ active' # active => \A u \in steady, tf \in Timeframes :
       timeframeReturn(u, tf) => \E x \in active' : x.tf = tf /\ x.user = u /\ x.return = Row(u)]_vars

\* The readers agree: nobody shares a rank, ranks follow returns, and a user
\* whose own page shows an all-time rank is on the board at that rank.
ReadersAgree ==
  /\ \A tf \in Timeframes : \A x, y \in BuildTimeframe(tf) :
       x.user # y.user => x.rank # y.rank /\ (x.rank < y.rank => x.return >= y.return)
  /\ \A u \in living : useRanking /\ GetUserRank(u) # 0 =>
       \/ \E x \in UserRankings("ALL") : x.user = u /\ x.rank = GetUserRank(u) /\ x.rank = UserStanding(u, "ALL").rank
       \/ \A x \in Served("ALL") : x.user # u

\* "percentile: z.number().finite().min(0).max(100)": what the client accepts.
PercentileInRange ==
  \A u \in living, tf \in Timeframes : UserStanding(u, tf).percentile \in 0..100
==============================================================================
