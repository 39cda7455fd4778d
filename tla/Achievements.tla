---------------------------- MODULE Achievements ----------------------------
(***************************************************************************)
(* Ranked snapshots (internal/performancehistory), the evaluation queue on *)
(* them, and the permanent benchmark awards they justify                   *)
(* (internal/achievements, internal/benchmark), for one portfolio.         *)
(*                                                                         *)
(* Store operations are those of the Postgres repositories.  Time counts   *)
(* intraday intervals; a UTC day has DayLength of them.  A portfolio's     *)
(* tracking epoch is set once, when its ranked state is created, so it is  *)
(* left out of the rows.  Stale, partial and invalid valuations are        *)
(* treated alike everywhere and appear as "stale".  Percentages are whole; *)
(* returns are compared by cross-multiplication, which is exact.           *)
(***************************************************************************)
EXTENDS Integers, FiniteSets, FiniteSetsExt

CONSTANTS
  Workers,            \* processes that run the ranked snapshot worker
  Requests,           \* callers of POST /achievements/evaluate
  Badges,             \* Badges[b]: [period, kind, edge], the catalogue
  Modes,              \* award modes a deployment may be configured with
  Returns, Grades,    \* what the benchmark engine may answer
  Indexes,            \* values the ranked index may take
  DayLength,
  BoundaryTolerance, EndFreshness, MaxTrustedGap, EligibilityThreshold,
  IntradayRetention,
  BatchSize,          \* evaluations claimed at once (100 in the code)
  LastTick, MaxMoves, \* bounds: time, changes of the portfolio
  MaxMishaps          \* bound: stale prices, failed calls, crashes, slow workers

ASSUME AchievementsAssumption ==
  /\ Workers \cap Requests = {}
  /\ DayLength \in Nat \ {0}
  /\ Indexes \subseteq Nat \ {0} /\ Indexes # {}
  /\ Modes \subseteq {"disabled", "demo", "verified_only"}
  /\ BoundaryTolerance \in Nat /\ IntradayRetention \in Nat
  /\ \A b \in DOMAIN Badges : Badges[b].period \in Nat

VARIABLES
  mode,       \* the configured award mode
  now,
  index, status, \* the portfolio's ranked state
  outbox,     \* mutation events whose snapshot is not recorded yet
  rows,       \* ranked_performance_snapshots
  awards,     \* user_benchmark_achievements
  pass,       \* pass[e]: where each worker or request is
  moves, mishaps

achievementVars == <<mode, now, index, status, outbox, rows, awards, pass, moves, mishaps>>
history == <<rows, awards>>
world   == <<mode, now, index, status, outbox, moves>>

dayOf(t) == t \div DayLength

InitialIndex == 100

NoRow    == [kind |-> "none"]
Resting  == [at |-> "idle", point |-> NoRow, claims |-> {}, doing |-> <<>>, todo |-> {}, asOf |-> 0, ranAt |-> -1]

Hold(e, p) == pass' = [pass EXCEPT ![e] = p]
Mishap     == mishaps < MaxMishaps /\ mishaps' = mishaps + 1
NoMishap   == UNCHANGED mishaps

-----------------------------------------------------------------------------
(* Snapshots (performancehistory/model.go, postgres_repository.go) *)

complete(r) == r.quality = "complete"

evaluationStatusFor(kind, quality) ==
  IF quality = "complete" /\ kind # "daily" THEN "pending" ELSE "done"

\* A row is identified by the unique key of its kind and keeps it when upserted.
Snapshot(kind, at, i, s, quality) ==
  [id |-> <<kind, IF kind = "daily" THEN dayOf(at) ELSE at>>, kind |-> kind, at |-> at,
   index |-> i, status |-> s, quality |-> quality, protected |-> FALSE,
   eval |-> evaluationStatusFor(kind, quality)]

stored(id) == {r \in rows : r.id = id}

\* An upsert that trusts the newest valuation of its bucket.
InsertNewest(r) == {s \in rows : s.id # r.id} \cup {r}

\* A bucket's row is replaced only when it was not complete and the new one is;
\* a second transition at one instant is ignored.
Insert(r) ==
  IF stored(r.id) = {} THEN rows \cup {r}
  ELSE {IF s.id = r.id /\ r.kind # "transition" /\ ~complete(s) /\ complete(r)
          THEN [r EXCEPT !.protected = s.protected] ELSE s : s \in rows}

Protect(ids) == {IF r.id \in ids THEN [r EXCEPT !.protected = TRUE] ELSE r : r \in rows}

\* Compaction that goes by age alone.
CompactByAge(before) == {r \in rows : ~(r.kind = "intraday" /\ r.at < before)}

\* An old intraday point goes once its day has a complete daily point, unless
\* an award rests on it.
Compact(before) ==
  {r \in rows : ~(/\ r.kind = "intraday" /\ r.at < before /\ ~r.protected
                  /\ \E d \in rows : d.kind = "daily" /\ d.id[2] = dayOf(r.at) /\ complete(d))}

SetEvaluation(id, s) == {IF r.id = id THEN [r EXCEPT !.eval = s] ELSE r : r \in rows}

-----------------------------------------------------------------------------
(* Windows (performancehistory/service.go, alignment.go) *)

snapshotKindPriority(kind) == CASE kind = "transition" -> 0 [] kind = "daily" -> 1 [] OTHER -> 2

\* One point per instant: the transition, else the daily, else the intraday one.
collapse(points) ==
  {p \in points : \A q \in points :
     q.at = p.at => snapshotKindPriority(p.kind) <= snapshotKindPriority(q.kind)}

latest(points)   == {p \in points : \A q \in points : q.at <= p.at}
earliest(points) == {p \in points : \A q \in points : q.at >= p.at}

NoWindow == [start |-> NoRow, end |-> NoRow, points |-> {}, history |-> 0, active |-> 0, trusted |-> 0]

spanAfter(p, points) == Min({q.at : q \in {x \in points : x.at > p.at}}) - p.at

\* The trusted boundaries of an interval, and how much of it they cover.
Window(targetStart, targetEnd) ==
  LET points == collapse({r \in rows : targetStart - BoundaryTolerance <= r.at /\ r.at <= targetEnd})
      trusted == {p \in points : complete(p)}
      before  == latest({p \in trusted : p.at <= targetStart})
      after   == earliest({p \in trusted : p.at > targetStart /\ p.at - targetStart <= BoundaryTolerance})
      bounds  == {b \in (IF before # {} THEN before ELSE after) \X latest(trusted) :
                    targetEnd - b[2].at <= EndFreshness /\ b[2].at > b[1].at}
  IN  IF bounds = {} THEN NoWindow
      ELSE LET w      == CHOOSE b \in bounds : TRUE
               inside == {p \in points : w[1].at <= p.at /\ p.at <= w[2].at}
               lefts  == {p \in inside : p.at < w[2].at}
               cover(S) == MapThenSumSet(LAMBDA p : spanAfter(p, inside), S)
               followed(p) == \E q \in inside : q.at = p.at + spanAfter(p, inside) /\ complete(q)
           IN  [start |-> w[1], end |-> w[2], points |-> inside,
                history |-> w[2].at - w[1].at,
                active  |-> cover({p \in lefts : p.status = "active"}),
                trusted |-> cover({p \in lefts : complete(p) /\ followed(p) /\ spanAfter(p, inside) <= MaxTrustedGap})]

\* The three coverages against the threshold, in percent.
Eligible(w, nominal) ==
  /\ w # NoWindow
  /\ 100 * w.history >= EligibilityThreshold * nominal
  /\ 100 * w.active  >= EligibilityThreshold * w.history
  /\ 100 * w.trusted >= EligibilityThreshold * w.history

trustedAtOrBeforeClose(points, day) ==
  latest({p \in points : p.at < (day + 1) * DayLength /\ complete(p) /\ p.status = "active"})

\* The boundaries at the benchmark's own closes; every point between them must
\* be complete and active.  Empty when there are none.
AlignWindowToBenchmarkCloses(points, from, to) ==
  {b \in trustedAtOrBeforeClose(points, from) \X trustedAtOrBeforeClose(points, to) :
     /\ to > from /\ b[2].at > b[1].at
     /\ \A p \in points : b[1].at <= p.at /\ p.at <= b[2].at => complete(p) /\ p.status = "active"}

-----------------------------------------------------------------------------
(* Rules and policy (benchmark/rules.go, policy.go) *)

\* The engine's answer over a window: two trading days inside it, a return in
\* percent and the grade of the data behind it.
CalculateReturn(w) ==
  [from : dayOf(w.start.at)..dayOf(w.end.at), to : dayOf(w.start.at)..dayOf(w.end.at),
   return : Returns, grade : Grades]

\* Award-grade data is required, except in demo mode.
admitted(grade) == grade = "verified" \/ mode = "demo"

Evaluate(rule, s, e, benchmark) ==
  LET gain == 100 * (e.index - s.index)
      edge == gain - benchmark * s.index
  IN  CASE rule.kind = "positive_and_beat"          -> gain > 0 /\ edge > 0
        [] rule.kind = "beat_by_points"             -> edge >= rule.edge * s.index
        [] rule.kind = "beat_by_points_and_positive" -> gain > 0 /\ edge >= rule.edge * s.index

\* The verification an award is stored with; none when it may not be stored.
CanPersistPermanentAward(grade) ==
  IF mode = "disabled" THEN {}
  ELSE IF grade = "verified" THEN {"verified"}
  ELSE IF mode = "demo" /\ grade = "synthetic" THEN {"demo"}
  ELSE {}

boundary(r) == [id |-> r.id, at |-> r.at, index |-> r.index]

\* What the badge b would be awarded with, given the engine's answer a.
evidenceFor(b, w, a) ==
  {[badge |-> b, start |-> boundary(x[1]), end |-> boundary(x[2]), verification |-> v, protected |-> FALSE] :
     x \in {y \in AlignWindowToBenchmarkCloses(w.points, a.from, a.to) :
              Evaluate(Badges[b], y[1], y[2], a.return)},
     v \in IF admitted(a.grade) THEN CanPersistPermanentAward(a.grade) ELSE {}}

Awarded(b) == {x \in awards : x.badge = b}

-----------------------------------------------------------------------------
(* The portfolio and the passage of time *)

\* A mutation or the market changes the ranked state; a change of status is an
\* outbox event stamped with the instant of the mutation.
portfolioChanges ==
  /\ moves < MaxMoves
  /\ moves' = moves + 1
  /\ \E i \in Indexes, s \in {"active", "paused"} :
       /\ <<i, s>> # <<index, status>>
       /\ index' = i /\ status' = s
       /\ outbox' = IF s = status THEN outbox ELSE outbox \cup {[at |-> now, index |-> i, status |-> s]}
  /\ UNCHANGED <<mode, now, rows, awards, pass, mishaps>>

\* Each worker makes its pass in the interval, unless it is down or slow; even
\* then one capture or evaluation takes less than an interval.
intervalPasses ==
  /\ now < LastTick
  /\ IF \A w \in Workers : pass[w].at = "idle" /\ pass[w].ranAt = now THEN NoMishap ELSE Mishap
  /\ \A e \in Workers \cup Requests : pass[e].at \in {"capturing", "closing", "awarding"} => pass[e].asOf = now
  /\ now' = now + 1
  /\ UNCHANGED <<mode, index, status, outbox, rows, awards, pass, moves>>

statusAtOrBefore(t) == {p.status : p \in latest({r \in rows : r.at <= t})}

\* The outbox delivers in any order and again after a failure; a transition is
\* recorded when the row before it says otherwise.
RecordTransitionIfChanged ==
  \E ev \in outbox :
    /\ \E known \in IF statusAtOrBefore(ev.at - 1) = {} THEN {"none"} ELSE statusAtOrBefore(ev.at - 1) :
         rows' = IF known = ev.status THEN rows
                 ELSE Insert(Snapshot("transition", ev.at, ev.index, ev.status, "complete"))
    /\ \/ outbox' = outbox \ {ev} /\ NoMishap
       \/ outbox' = outbox /\ Mishap
    /\ UNCHANGED <<mode, now, index, status, awards, pass, moves>>

-----------------------------------------------------------------------------
(* The ranked snapshot worker (jobs/ranked_snapshot_worker.go, cmd/api/main.go) *)

\* RecordCurrent values the portfolio and stamps the point; a failed valuation
\* skips the portfolio.
SnapshotAll(w) ==
  /\ pass[w].at = "idle" /\ (pass[w].ranAt < now \/ now = LastTick)
  /\ \/ \E q \in {"complete", "stale"} :
          /\ Hold(w, [Resting EXCEPT !.at = "capturing", !.asOf = now, !.ranAt = now,
                        !.point = Snapshot("intraday", now, index, status, q)])
          /\ IF q = "stale" THEN Mishap ELSE NoMishap
     \/ Hold(w, [Resting EXCEPT !.at = "claiming", !.ranAt = now]) /\ Mishap
  /\ UNCHANGED <<history, world>>

insertIntraday(w) ==
  /\ pass[w].at = "capturing"
  /\ rows' = Insert(pass[w].point)
  /\ Hold(w, [pass[w] EXCEPT !.at = "closing"])
  /\ UNCHANGED <<awards, world, mishaps>>

\* The second insert of the capture; it may fail after the first succeeded.
insertDaily(w) ==
  LET p == pass[w].point
  IN  /\ pass[w].at = "closing"
      /\ \/ rows' = Insert(Snapshot("daily", p.at, p.index, p.status, p.quality)) /\ NoMishap
         \/ rows' = rows /\ Mishap
      /\ Hold(w, [Resting EXCEPT !.at = "claiming", !.ranAt = pass[w].ranAt])
      /\ UNCHANGED <<awards, world>>

\* Without the second clause of the query.
pendingOnly(r) == r.eval = "pending"

\* A claim older than fifteen minutes counts as abandoned.
claimable(r) == r.eval \in {"pending", "lapsed"}

\* The oldest claimable evaluations, up to the limit.
ClaimEvaluations(w) ==
  LET due == {r \in rows : claimable(r)}
  IN  /\ pass[w].at = "claiming"
      /\ \E picked \in SUBSET due :
           /\ Cardinality(picked) = Min({BatchSize, Cardinality(due)})
           /\ \A r \in picked, s \in due \ picked : r.at <= s.at
           /\ rows' = {IF r \in picked THEN [r EXCEPT !.eval = "processing"] ELSE r : r \in rows}
           /\ Hold(w, [pass[w] EXCEPT !.at = "evaluating", !.claims = {r.id : r \in picked}])
      /\ UNCHANGED <<awards, world, mishaps>>

heldBy(w) == pass[w].claims \cup {pass[w].doing}

\* A claim whose worker died grows old; one whose worker is slow may as well.
leaseLapses ==
  /\ \E r \in rows :
       /\ r.eval = "processing" /\ rows' = SetEvaluation(r.id, "lapsed")
       /\ IF \E w \in Workers : r.id \in heldBy(w) THEN Mishap ELSE NoMishap
  /\ UNCHANGED <<awards, pass, world>>

CompleteEvaluation(w) ==
  /\ pass[w].at = "awarding" /\ pass[w].todo = {}
  /\ \/ rows' = SetEvaluation(pass[w].doing, "done") /\ NoMishap
     \/ rows' = rows /\ Mishap
  /\ Hold(w, [pass[w] EXCEPT !.at = "evaluating", !.doing = <<>>, !.asOf = 0])
  /\ UNCHANGED <<awards, world>>

FailEvaluation(w) ==
  /\ pass[w].at = "failed"
  /\ \/ rows' = SetEvaluation(pass[w].doing, "pending") /\ NoMishap
     \/ rows' = rows /\ Mishap
  /\ Hold(w, [pass[w] EXCEPT !.at = "evaluating", !.doing = <<>>, !.asOf = 0])
  /\ UNCHANGED <<awards, world>>

\* The pass ends with a compaction, which may fail and is then left to the next.
compactHistory(w) ==
  /\ pass[w].at = "evaluating" /\ pass[w].claims = {}
  /\ \/ rows' = Compact(now - IntradayRetention) /\ NoMishap
     \/ rows' = rows /\ Mishap
  /\ Hold(w, [Resting EXCEPT !.ranAt = pass[w].ranAt])
  /\ UNCHANGED <<awards, world>>

\* A worker that starts again makes its first pass at once.
crash(w) ==
  /\ pass[w].at # "idle"
  /\ Hold(w, Resting) /\ Mishap
  /\ UNCHANGED <<history, world>>

-----------------------------------------------------------------------------
(* Evaluation (achievements/service.go) *)

\* Reads the awards and the windows and decides, badge by badge, what to award.
checkAndAwardBadges(e, claimed) ==
  LET open      == {b \in DOMAIN Badges : Awarded(b) = {} /\ mode # "disabled"}
      window    == [b \in open |-> Window(now - Badges[b].period, now)]
      eligible  == {b \in open : Eligible(window[b], Badges[b].period)}
  IN  \E id \in claimed :
      /\ \/ /\ \E a \in [eligible -> UNION {CalculateReturn(window[b]) : b \in eligible}] :
                 /\ \A b \in eligible : a[b] \in CalculateReturn(window[b])
                 /\ Hold(e, [pass[e] EXCEPT !.at = "awarding", !.asOf = now, !.doing = id, !.claims = @ \ {id},
                               !.todo = UNION {evidenceFor(b, window[b], a[b]) : b \in eligible}])
            /\ NoMishap
         \/ Hold(e, [pass[e] EXCEPT !.at = "failed", !.doing = id, !.claims = @ \ {id}]) /\ Mishap
      /\ UNCHANGED <<history, world>>

\* A worker evaluates for each of its claims, a request for its caller.
EvaluateLocked(w) == pass[w].at = "evaluating" /\ checkAndAwardBadges(w, pass[w].claims)
EvaluateAll(q)    == pass[q].at = "idle" /\ checkAndAwardBadges(q, {<<>>})

\* The boundary rows are protected first, then the award is written.
ProtectEvidence(e) ==
  /\ pass[e].at = "awarding"
  /\ \E x \in pass[e].todo :
       /\ ~x.protected
       /\ \/ /\ rows' = Protect({x.start.id, x.end.id})
             /\ Hold(e, [pass[e] EXCEPT !.todo = (@ \ {x}) \cup {[x EXCEPT !.protected = TRUE]}])
             /\ NoMishap
          \/ rows' = rows /\ Hold(e, [pass[e] EXCEPT !.todo = @ \ {x}]) /\ Mishap
  /\ UNCHANGED <<awards, world>>

\* An award that was written in the meantime is kept.
Award(e) ==
  /\ pass[e].at = "awarding"
  /\ \E x \in pass[e].todo :
       /\ x.protected
       /\ Hold(e, [pass[e] EXCEPT !.todo = @ \ {x}])
       /\ \/ awards' = (IF Awarded(x.badge) = {} THEN awards \cup {x} ELSE awards) /\ NoMishap
          \/ awards' = awards /\ Mishap
  /\ UNCHANGED <<rows, world>>

\* A request answers its caller.
answer(q) ==
  /\ pass[q].at = "failed" \/ (pass[q].at = "awarding" /\ pass[q].todo = {})
  /\ Hold(q, Resting)
  /\ UNCHANGED <<history, world, mishaps>>

-----------------------------------------------------------------------------
AchievementsInit ==
  /\ mode \in Modes
  /\ now = 0
  /\ index = InitialIndex /\ status = "active"
  /\ outbox = {} /\ rows = {} /\ awards = {}
  /\ pass = [e \in Workers \cup Requests |-> Resting]
  /\ moves = 0 /\ mishaps = 0

workerStep(w) ==
  \/ SnapshotAll(w) \/ insertIntraday(w) \/ insertDaily(w) \/ ClaimEvaluations(w)
  \/ ProtectEvidence(w) \/ Award(w)
  \/ CompleteEvaluation(w) \/ FailEvaluation(w) \/ compactHistory(w)

finishRequest(q) == ProtectEvidence(q) \/ Award(q) \/ answer(q)

AchievementsNext ==
  \/ portfolioChanges \/ intervalPasses \/ RecordTransitionIfChanged \/ leaseLapses
  \/ \E w \in Workers : workerStep(w) \/ EvaluateLocked(w)
  \/ \E q \in Requests : EvaluateAll(q) \/ finishRequest(q)
  \/ \E e \in Workers \cup Requests : crash(e)

\* Time passes, every worker is ticked for ever, a request that was accepted is
\* worked off, and an abandoned claim does grow old.  EvaluateLocked is enabled
\* as long as claims are left, so its fairness is stated by what it leaves.
AchievementsSpec ==
  /\ AchievementsInit /\ [][AchievementsNext]_achievementVars
  /\ \A w \in Workers : WF_achievementVars(workerStep(w)) /\ []<>(pass[w].at # "evaluating")
  /\ \A q \in Requests : WF_achievementVars(finishRequest(q))
  /\ WF_achievementVars(intervalPasses) /\ WF_achievementVars(leaseLapses)

-----------------------------------------------------------------------------
(* An award is permanent, and so is what it rests on: the two boundary points *)
(* it names stay stored, complete, active and with the index the evidence     *)
(* states, whatever is compacted, upserted or delivered late afterwards.      *)
EvidenceStands ==
  \A x \in awards : \A b \in {x.start, x.end} :
    \E r \in rows : boundary(r) = b /\ complete(r) /\ r.status = "active"

(* Trusted history is not rewritten: a complete point keeps its index, status *)
(* and instant and stays protected once it is, and an award keeps the         *)
(* evidence it was first written with, however many workers and requests      *)
(* capture and evaluate the same portfolio.                                   *)
HistoryIsNotRewritten ==
  [][ /\ awards \subseteq awards'
      /\ \A r \in rows, s \in rows' :
           s.id = r.id /\ complete(r) =>
             /\ boundary(s) = boundary(r) /\ s.status = r.status /\ complete(s)
             /\ r.protected => s.protected
    ]_achievementVars

(* The evaluation queue drains again and again: every trusted point that was  *)
(* queued is evaluated, unless compaction removed it first.  A failed         *)
(* evaluation, a lost completion, a crashed worker and a claim that lapses    *)
(* under a slow worker do not strand it.                                      *)
EvaluationsFinish == []<>(\A r \in rows : r.eval = "done")

(* No stored transition says that the portfolio was paused inside the interval *)
(* an award was measured over.                                                 *)
AwardedWhileActive ==
  \A x \in awards, r \in rows :
    r.kind = "transition" /\ x.start.at <= r.at /\ r.at <= x.end.at => r.status = "active"
=============================================================================
