------------------------- MODULE Achievements_proofs -------------------------
(***************************************************************************)
(* An award's evidence stands and trusted history is not rewritten, for    *)
(* any number of workers, requests, badges and instants.  Rows are known   *)
(* by their ids (UniqueIds) and a complete row is never replaced.  What an *)
(* evaluation is about to award rests on rows that are either protected or *)
(* too recent to be compacted (TodoInv), and once an award is written on   *)
(* protected ones (StandInv), which no compaction removes.                 *)
(***************************************************************************)
EXTENDS Achievements, TLAPS

SnapshotKinds == {"intraday", "daily", "transition"}
Row ==
  [id : SnapshotKinds \X Int, kind : SnapshotKinds, at : Int, index : Int, status : {"active", "paused"},
   quality : {"complete", "stale"}, protected : BOOLEAN, eval : {"pending", "processing", "lapsed", "done"}]

Executors == Workers \cup Requests

\* An executor's pass and an award in the making have the fields they begin with.
IsPass(p) ==
  p = [at |-> p.at, point |-> p.point, claims |-> p.claims, doing |-> p.doing, todo |-> p.todo,
       asOf |-> p.asOf, ranAt |-> p.ranAt]
IsEvidence(x) ==
  x = [badge |-> x.badge, start |-> x.start, end |-> x.end, verification |-> x.verification, protected |-> x.protected]

AwardTypes ==
  /\ now \in Int /\ index \in Int /\ status \in {"active", "paused"}
  /\ \A ev \in outbox : ev.at \in Int /\ ev.index \in Int /\ ev.status \in {"active", "paused"}
  /\ rows \subseteq Row
  /\ DOMAIN pass = Executors
  /\ \A e \in Executors : IsPass(pass[e]) /\ (pass[e].at \in {"capturing", "closing"} => pass[e].point \in Row)

UniqueIds == \A r, s \in rows : r.id = s.id => r = s

\* The badge's period lies within the retention of intraday points, with the
\* boundary tolerance and the interval an evaluation may take.
Fits(b) == Badges[b].period + BoundaryTolerance + 1 <= IntradayRetention

\* r is what the boundary b of an award states.
Behind(r, b) == boundary(r) = b /\ complete(r) /\ r.status = "active"

Safe(R, b)      == \E r \in R : Behind(r, b) /\ r.protected
Recent(R, b, t) == \E r \in R : Behind(r, b) /\ r.at >= t + 1 - IntradayRetention

Grounded(R, x) == x.badge \in DOMAIN Badges /\ (Fits(x.badge) => Safe(R, x.start) /\ Safe(R, x.end))

StandInv == \A x \in awards : Grounded(rows, x)

\* The boundaries of an award in the making are stored.
Prepared(R, x, t) ==
  /\ IsEvidence(x) /\ x.badge \in DOMAIN Badges
  /\ Fits(x.badge) => \/ x.protected /\ Safe(R, x.start) /\ Safe(R, x.end)
                      \/ ~x.protected /\ Recent(R, x.start, t) /\ Recent(R, x.end, t)

TodoInv ==
  \A e \in Executors : pass[e].at = "awarding" =>
    pass[e].asOf \in {now - 1, now} /\ \A x \in pass[e].todo : Prepared(rows, x, pass[e].asOf)

\* The inductive invariant.
AwardInv == AwardTypes /\ UniqueIds /\ StandInv /\ TodoInv

-----------------------------------------------------------------------------
(* What the statements do to the rows *)


\* s is r after a statement: a complete row stays what it is and, once protected,
\* protected.
Kept(r, s) ==
  /\ s.id = r.id
  /\ complete(r) => /\ boundary(s) = boundary(r) /\ s.status = r.status /\ complete(s)
                    /\ r.protected => s.protected

Expendable(r) == ~r.protected /\ r.at < now - IntradayRetention

\* The rows after a statement are those from before and new ones, and only
\* expendable ones are gone.
Conservative ==
  /\ rows' \subseteq Row /\ UniqueIds'
  /\ \A s \in rows' : (\E r \in rows : Kept(r, s)) \/ (\A r \in rows : r.id # s.id)
  /\ \A r \in rows : (\E s \in rows' : Kept(r, s)) \/ Expendable(r)

\* A statement that leaves the rows alone.
LEMMA SameConserves ==
  ASSUME AwardTypes, UniqueIds, rows' = rows
  PROVE  Conservative
BY DEF Conservative, UniqueIds, AwardTypes, Kept

\* An UPDATE that rewrites each row as it may.
LEMMA UpdateConserves ==
  ASSUME AwardTypes, UniqueIds, NEW g, rows' = {g[r] : r \in rows},
         \A r \in rows : g[r] \in Row /\ Kept(r, g[r])
  PROVE  Conservative
<1>1. \A r \in rows : g[r] \in rows' /\ g[r].id = r.id
  BY DEF Kept
<1>2. ASSUME NEW s \in rows', NEW t \in rows', s.id = t.id
      PROVE  s = t
  <2>1. PICK q \in rows : s = g[q]
    OBVIOUS
  <2>2. PICK r \in rows : t = g[r]
    OBVIOUS
  <2>3. q.id = r.id
    BY <1>1, <1>2, <2>1, <2>2
  <2> QED
    BY <2>1, <2>2, <2>3 DEF UniqueIds
<1> QED
  BY <1>1, <1>2 DEF Conservative, UniqueIds

\* ProtectEvidence: UPDATE ... SET protected.
LEMMA ProtectConserves ==
  ASSUME AwardTypes, UniqueIds, NEW ids, rows' = Protect(ids)
  PROVE  Conservative
<1> DEFINE g == [r \in rows |-> IF r.id \in ids THEN [r EXCEPT !.protected = TRUE] ELSE r]
<1>1. rows' = {g[r] : r \in rows}
  BY DEF Protect
<1>2. \A r \in rows : g[r] \in Row /\ Kept(r, g[r])
  BY DEF AwardTypes, Row, Kept, boundary, complete
<1> HIDE DEF g
<1> QED
  BY <1>1, <1>2, UpdateConserves

\* MarkEvaluation: the status of an evaluation is set.
LEMMA SetEvaluationConserves ==
  ASSUME AwardTypes, UniqueIds, NEW id, NEW e \in {"pending", "processing", "lapsed", "done"},
         rows' = SetEvaluation(id, e)
  PROVE  Conservative
<1> DEFINE g == [r \in rows |-> IF r.id = id THEN [r EXCEPT !.eval = e] ELSE r]
<1>1. rows' = {g[r] : r \in rows}
  BY DEF SetEvaluation
<1>2. \A r \in rows : g[r] \in Row /\ Kept(r, g[r])
  BY DEF AwardTypes, Row, Kept, boundary, complete
<1> HIDE DEF g
<1> QED
  BY <1>1, <1>2, UpdateConserves

\* ClaimEvaluations: so are those of a batch.
LEMMA ClaimConserves ==
  ASSUME AwardTypes, UniqueIds, NEW picked,
         rows' = {IF r \in picked THEN [r EXCEPT !.eval = "processing"] ELSE r : r \in rows}
  PROVE  Conservative
<1> DEFINE g == [r \in rows |-> IF r \in picked THEN [r EXCEPT !.eval = "processing"] ELSE r]
<1>1. rows' = {g[r] : r \in rows}
  OBVIOUS
<1>2. \A r \in rows : g[r] \in Row /\ Kept(r, g[r])
  BY DEF AwardTypes, Row, Kept, boundary, complete
<1> HIDE DEF g
<1> QED
  BY <1>1, <1>2, UpdateConserves

\* Insert: a new row under a new id, or the better valuation of a bucket.
LEMMA InsertConserves ==
  ASSUME AwardTypes, UniqueIds, NEW x \in Row, rows' = Insert(x)
  PROVE  Conservative
<1>1. CASE stored(x.id) = {}
  <2>1. rows' = rows \cup {x}
    BY <1>1 DEF Insert
  <2>2. \A r \in rows : r.id # x.id
    BY <1>1 DEF stored
  <2> QED
    BY <2>1, <2>2 DEF Conservative, UniqueIds, AwardTypes, Kept
<1>2. CASE stored(x.id) # {}
  <2> DEFINE g == [s \in rows |-> IF s.id = x.id /\ x.kind # "transition" /\ ~complete(s) /\ complete(x)
                                    THEN [x EXCEPT !.protected = s.protected] ELSE s]
  <2>1. rows' = {g[r] : r \in rows}
    BY <1>2 DEF Insert
  <2>2. \A r \in rows : g[r] \in Row /\ Kept(r, g[r])
    BY DEF AwardTypes, Row, Kept, complete
  <2> HIDE DEF g
  <2> QED
    BY <2>1, <2>2, UpdateConserves
<1> QED
  BY <1>1, <1>2

\* Compact deletes expendable rows only.
LEMMA CompactConserves ==
  ASSUME AwardTypes, UniqueIds, rows' = Compact(now - IntradayRetention)
  PROVE  Conservative
<1>1. \A r \in rows : r \in rows' \/ Expendable(r)
  BY DEF Compact, Expendable
<1> QED
  BY <1>1 DEF Compact, Conservative, UniqueIds, AwardTypes, Kept

\* A snapshot is a row.
LEMMA SnapshotTyped ==
  ASSUME NEW kind \in SnapshotKinds, NEW at \in Int, NEW i \in Int, NEW s \in {"active", "paused"},
         NEW q \in {"complete", "stale"}
  PROVE  Snapshot(kind, at, i, s, q) \in Row
<1>1. dayOf(at) \in Int
  BY AchievementsAssumption DEF dayOf
<1> QED
  BY <1>1 DEF Snapshot, Row, SnapshotKinds, evaluationStatusFor

-----------------------------------------------------------------------------
(* What an award rests on *)

\* A protected boundary stays.
LEMMA SafeStays ==
  ASSUME Conservative, NEW b, Safe(rows, b)
  PROVE  Safe(rows', b)
<1>1. PICK r \in rows : Behind(r, b) /\ r.protected
  BY DEF Safe
<1>2. PICK s \in rows' : Kept(r, s)
  BY <1>1 DEF Conservative, Expendable
<1> QED
  BY <1>1, <1>2 DEF Safe, Behind, Kept

\* A recent one does while the evaluation that read it lasts.
LEMMA RecentStays ==
  ASSUME Conservative, AwardTypes, NEW t \in {now - 1, now}, NEW b, Recent(rows, b, t)
  PROVE  Recent(rows', b, t)
<1>1. PICK r \in rows : Behind(r, b) /\ r.at >= t + 1 - IntradayRetention
  BY DEF Recent
<1>2. ~Expendable(r)
  BY <1>1, AchievementsAssumption DEF Expendable, AwardTypes, Row
<1>3. PICK s \in rows' : Kept(r, s)
  BY <1>1, <1>2 DEF Conservative
<1>4. s.at = r.at
  BY <1>1, <1>3 DEF Behind, Kept, boundary
<1> QED
  BY <1>1, <1>3, <1>4 DEF Recent, Behind, Kept

\* So does what an evaluation has prepared.
LEMMA PreparedStays ==
  ASSUME Conservative, AwardTypes, NEW t \in {now - 1, now}, NEW x, Prepared(rows, x, t)
  PROVE  Prepared(rows', x, t)
BY SafeStays, RecentStays DEF Prepared

\* The boundaries the window of a badge is aligned to are stored, complete and
\* active, and no older than the window and its tolerance.
LEMMA WindowPoints ==
  ASSUME NEW from \in Int, NEW to \in Int, NEW p \in Window(from, to).points
  PROVE  p \in rows /\ from - BoundaryTolerance <= p.at
<1> DEFINE points  == collapse({r \in rows : from - BoundaryTolerance <= r.at /\ r.at <= to})
           trusted == {q \in points : complete(q)}
           before  == latest({q \in trusted : q.at <= from})
           after   == earliest({q \in trusted : q.at > from /\ q.at - from <= BoundaryTolerance})
           bounds  == {b \in (IF before # {} THEN before ELSE after) \X latest(trusted) :
                         to - b[2].at <= EndFreshness /\ b[2].at > b[1].at}
<1>1. bounds # {}
  BY DEF Window, NoWindow
<1> DEFINE w == CHOOSE b \in bounds : TRUE
<1>2. Window(from, to).points = {q \in points : w[1].at <= q.at /\ q.at <= w[2].at}
  BY <1>1 DEF Window
<1>3. p \in points
  BY <1>2
<1> QED
  BY <1>3 DEF collapse

\* What an evaluation awards rests on rows it has just read.
LEMMA EvidenceIsPrepared ==
  ASSUME AwardTypes, NEW b \in DOMAIN Badges, NEW a,
         NEW x \in evidenceFor(b, Window(now - Badges[b].period, now), a)
  PROVE  Prepared(rows, x, now)
<1> DEFINE w == Window(now - Badges[b].period, now)
           aligned == AlignWindowToBenchmarkCloses(w.points, a.from, a.to)
<1>1. PICK y \in aligned :
        \E v : x = [badge |-> b, start |-> boundary(y[1]), end |-> boundary(y[2]), verification |-> v, protected |-> FALSE]
  BY DEF evidenceFor
<1>2. y[1] \in w.points /\ complete(y[1]) /\ y[1].status = "active"
  BY <1>1 DEF AlignWindowToBenchmarkCloses, trustedAtOrBeforeClose, latest
<1>3. y[2] \in w.points /\ complete(y[2]) /\ y[2].status = "active"
  BY <1>1 DEF AlignWindowToBenchmarkCloses, trustedAtOrBeforeClose, latest
<1>4. Badges[b].period \in Int /\ now \in Int /\ now - Badges[b].period \in Int
  BY AchievementsAssumption DEF AwardTypes
<1>5. /\ y[1] \in rows /\ now - Badges[b].period - BoundaryTolerance <= y[1].at
      /\ y[2] \in rows /\ now - Badges[b].period - BoundaryTolerance <= y[2].at
  BY <1>2, <1>3, <1>4, WindowPoints
<1>6. ASSUME NEW r \in rows, now - Badges[b].period - BoundaryTolerance <= r.at, Fits(b)
      PROVE  r.at >= now + 1 - IntradayRetention
  BY <1>4, <1>6, AchievementsAssumption DEF Fits, AwardTypes, Row
<1>7. IsEvidence(x) /\ x.badge = b /\ x.protected = FALSE /\ x.start = boundary(y[1]) /\ x.end = boundary(y[2])
  BY <1>1 DEF IsEvidence
<1> QED
  BY <1>2, <1>3, <1>5, <1>6, <1>7 DEF Prepared, Recent, Behind

-----------------------------------------------------------------------------
(* The steps *)

\* A step of one executor that leaves the world alone: the pass it leaves behind
\* is sound, and so is what it awards.
LEMMA PassStep ==
  ASSUME AwardInv, Conservative, UNCHANGED world, NEW e \in Executors, NEW p, Hold(e, p), IsPass(p),
         p.at \in {"capturing", "closing"} => p.point \in Row,
         p.at = "awarding" => p.asOf \in {now - 1, now} /\ \A x \in p.todo : Prepared(rows', x, p.asOf),
         \A x \in awards' \ awards : Grounded(rows', x)
  PROVE  AwardInv'
<1>1. pass' = [pass EXCEPT ![e] = p] /\ DOMAIN pass = Executors
  BY DEF Hold, AwardInv, AwardTypes
<1>2. AwardTypes'
  BY <1>1 DEF AwardInv, AwardTypes, Conservative, world
<1>3. UniqueIds'
  BY DEF Conservative
<1>4. StandInv'
  BY SafeStays DEF AwardInv, StandInv, Grounded
<1>5. ASSUME NEW f \in Executors, pass'[f].at = "awarding"
      PROVE  pass'[f].asOf \in {now' - 1, now'} /\ \A x \in pass'[f].todo : Prepared(rows', x, pass'[f].asOf)
  <2>1. CASE f = e
    BY <1>1, <1>5, <2>1 DEF world
  <2>2. CASE f # e
    <3>1. pass'[f] = pass[f]
      BY <1>1, <2>2
    <3>2. pass[f].asOf \in {now - 1, now} /\ \A x \in pass[f].todo : Prepared(rows, x, pass[f].asOf)
      BY <1>5, <3>1 DEF AwardInv, TodoInv
    <3> QED
      BY <3>1, <3>2, PreparedStays DEF AwardInv, world
  <2> QED
    BY <2>1, <2>2
<1> QED
  BY <1>2, <1>3, <1>4, <1>5 DEF AwardInv, TodoInv

\* The same where the executor is not about to award anything.
LEMMA QuietStep ==
  ASSUME AwardInv, Conservative, UNCHANGED world, awards' = awards, NEW e \in Executors, NEW p, Hold(e, p), IsPass(p),
         p.at # "awarding", p.at \in {"capturing", "closing"} => p.point \in Row
  PROVE  AwardInv'
BY PassStep

\* Resting is a pass.
LEMMA RestingIsPass == IsPass(Resting) /\ Resting.at = "idle"
BY DEF IsPass, Resting

\* SnapshotAll begins a pass over a valuation, or without one.
LEMMA SnapshotAllInv ==
  ASSUME AwardInv, NEW w \in Workers, SnapshotAll(w)
  PROVE  Conservative /\ AwardInv'
<1>1. Conservative
  BY SameConserves DEF SnapshotAll, AwardInv, history
<1>2. w \in Executors /\ UNCHANGED world /\ awards' = awards
  BY DEF SnapshotAll, history, Executors
<1>3. ASSUME NEW q \in {"complete", "stale"}, NEW x, x = Snapshot("intraday", now, index, status, q), NEW p,
             p = [Resting EXCEPT !.at = "capturing", !.asOf = now, !.ranAt = now, !.point = x], Hold(w, p)
      PROVE  AwardInv'
  <2>1. x \in Row
    BY <1>3, SnapshotTyped DEF AwardInv, AwardTypes, SnapshotKinds
  <2>2. IsPass(p) /\ p.at = "capturing" /\ p.point = x
    BY <1>3, RestingIsPass DEF IsPass
  <2> QED
    BY <1>1, <1>2, <1>3, <2>1, <2>2, QuietStep
<1>4. ASSUME NEW p, p = [Resting EXCEPT !.at = "claiming", !.ranAt = now], Hold(w, p)
      PROVE  AwardInv'
  <2>1. IsPass(p) /\ p.at = "claiming"
    BY <1>4, RestingIsPass DEF IsPass
  <2> QED
    BY <1>1, <1>2, <1>4, <2>1, QuietStep
<1> QED
  BY <1>1, <1>3, <1>4 DEF SnapshotAll

\* The intraday insert of a capture.
LEMMA InsertIntradayInv ==
  ASSUME AwardInv, NEW w \in Workers, insertIntraday(w)
  PROVE  Conservative /\ AwardInv'
<1>1. w \in Executors /\ IsPass(pass[w]) /\ pass[w].point \in Row
  BY DEF insertIntraday, AwardInv, AwardTypes, Executors
<1>2. Conservative
  BY <1>1, InsertConserves DEF insertIntraday, AwardInv
<1>3. ASSUME NEW p, p = [pass[w] EXCEPT !.at = "closing"], Hold(w, p)
      PROVE  AwardInv'
  <2>1. IsPass(p) /\ p.at = "closing" /\ p.point = pass[w].point
    BY <1>1, <1>3 DEF IsPass
  <2> QED
    BY <1>1, <1>2, <1>3, <2>1, QuietStep DEF insertIntraday
<1> QED
  BY <1>2, <1>3 DEF insertIntraday

\* The daily one, which may fail.
LEMMA InsertDailyInv ==
  ASSUME AwardInv, NEW w \in Workers, insertDaily(w)
  PROVE  Conservative /\ AwardInv'
<1>1. w \in Executors /\ IsPass(pass[w]) /\ pass[w].point \in Row
  BY DEF insertDaily, AwardInv, AwardTypes, Executors
<1>2. Snapshot("daily", pass[w].point.at, pass[w].point.index, pass[w].point.status, pass[w].point.quality) \in Row
  <2>1. /\ pass[w].point.at \in Int /\ pass[w].point.index \in Int /\ pass[w].point.status \in {"active", "paused"}
        /\ pass[w].point.quality \in {"complete", "stale"} /\ "daily" \in SnapshotKinds
    BY <1>1 DEF Row, SnapshotKinds
  <2> QED
    BY <2>1, SnapshotTyped
<1>3. Conservative
  BY <1>2, InsertConserves, SameConserves DEF insertDaily, AwardInv
<1>4. ASSUME NEW p, p = [Resting EXCEPT !.at = "claiming", !.ranAt = pass[w].ranAt], Hold(w, p)
      PROVE  AwardInv'
  <2>1. IsPass(p) /\ p.at = "claiming"
    BY <1>4, RestingIsPass DEF IsPass
  <2> QED
    BY <1>1, <1>3, <1>4, <2>1, QuietStep DEF insertDaily
<1> QED
  BY <1>3, <1>4 DEF insertDaily

\* ClaimEvaluations takes a batch.
LEMMA ClaimInv ==
  ASSUME AwardInv, NEW w \in Workers, ClaimEvaluations(w)
  PROVE  Conservative /\ AwardInv'
<1>1. w \in Executors /\ IsPass(pass[w])
  BY DEF AwardInv, AwardTypes, Executors
<1>2. PICK picked :
        /\ rows' = {IF r \in picked THEN [r EXCEPT !.eval = "processing"] ELSE r : r \in rows}
        /\ Hold(w, [pass[w] EXCEPT !.at = "evaluating", !.claims = {r.id : r \in picked}])
  BY DEF ClaimEvaluations
<1>3. Conservative
  BY <1>2, ClaimConserves DEF AwardInv
<1>4. ASSUME NEW claims, NEW p, p = [pass[w] EXCEPT !.at = "evaluating", !.claims = claims], Hold(w, p)
      PROVE  AwardInv'
  <2>1. IsPass(p) /\ p.at = "evaluating"
    BY <1>1, <1>4 DEF IsPass
  <2> QED
    BY <1>1, <1>3, <1>4, <2>1, QuietStep DEF ClaimEvaluations
<1> QED
  BY <1>2, <1>3, <1>4

\* Completing or failing an evaluation, which may fail in turn.
LEMMA FinishInv ==
  ASSUME AwardInv, NEW w \in Workers, CompleteEvaluation(w) \/ FailEvaluation(w)
  PROVE  Conservative /\ AwardInv'
<1>1. w \in Executors /\ IsPass(pass[w]) /\ awards' = awards /\ UNCHANGED world
  BY DEF AwardInv, AwardTypes, Executors, CompleteEvaluation, FailEvaluation
<1>2. Conservative
  BY SetEvaluationConserves, SameConserves DEF CompleteEvaluation, FailEvaluation, AwardInv
<1>3. ASSUME NEW p, p = [pass[w] EXCEPT !.at = "evaluating", !.doing = <<>>, !.asOf = 0], Hold(w, p)
      PROVE  AwardInv'
  <2>1. IsPass(p) /\ p.at = "evaluating"
    BY <1>1, <1>3 DEF IsPass
  <2> QED
    BY <1>1, <1>2, <1>3, <2>1, QuietStep
<1> QED
  BY <1>2, <1>3 DEF CompleteEvaluation, FailEvaluation

\* The compaction at the end of a pass.
LEMMA CompactInv ==
  ASSUME AwardInv, NEW w \in Workers, compactHistory(w)
  PROVE  Conservative /\ AwardInv'
<1>1. w \in Executors
  BY DEF Executors
<1>2. Conservative
  BY CompactConserves, SameConserves DEF compactHistory, AwardInv
<1>3. ASSUME NEW p, p = [Resting EXCEPT !.ranAt = pass[w].ranAt], Hold(w, p)
      PROVE  AwardInv'
  <2>1. IsPass(p) /\ p.at = "idle"
    BY <1>3, RestingIsPass DEF IsPass
  <2> QED
    BY <1>1, <1>2, <1>3, <2>1, QuietStep DEF compactHistory
<1> QED
  BY <1>2, <1>3 DEF compactHistory

\* A crash, and the answer to a request, forget the pass.
LEMMA RestInv ==
  ASSUME AwardInv, NEW e \in Executors, crash(e) \/ answer(e)
  PROVE  Conservative /\ AwardInv'
<1>1. Conservative /\ UNCHANGED world /\ awards' = awards /\ Hold(e, Resting)
  BY SameConserves DEF crash, answer, AwardInv, history
<1>2. ASSUME NEW p, p = Resting
      PROVE  IsPass(p) /\ p.at = "idle"
  BY <1>2, RestingIsPass
<1>3. ASSUME NEW p, p = Resting, Hold(e, p)
      PROVE  AwardInv'
  BY <1>1, <1>2, <1>3, QuietStep
<1> QED
  BY <1>1, <1>3

\* The reading half of an evaluation.
LEMMA EvaluateInv ==
  ASSUME AwardInv, NEW e \in Executors, NEW claimed, checkAndAwardBadges(e, claimed)
  PROVE  Conservative /\ AwardInv'
<1> DEFINE open     == {b \in DOMAIN Badges : Awarded(b) = {} /\ mode # "disabled"}
           window   == [b \in open |-> Window(now - Badges[b].period, now)]
           eligible == {b \in open : Eligible(window[b], Badges[b].period)}
<1>1. IsPass(pass[e]) /\ UNCHANGED world /\ awards' = awards /\ rows' = rows
  BY DEF AwardInv, AwardTypes, checkAndAwardBadges, history
<1>2. Conservative
  BY <1>1, SameConserves DEF AwardInv
<1>3. ASSUME NEW id, NEW left, NEW todo, \A x \in todo : Prepared(rows', x, now), NEW p,
             p = [pass[e] EXCEPT !.at = "awarding", !.asOf = now, !.doing = id, !.claims = left, !.todo = todo],
             Hold(e, p)
      PROVE  AwardInv'
  <2>1. IsPass(p) /\ p.at = "awarding" /\ p.asOf = now /\ p.todo = todo
    BY <1>1, <1>3 DEF IsPass
  <2> QED
    BY <1>1, <1>2, <1>3, <2>1, PassStep
<1>4. ASSUME NEW id, NEW left, NEW p, p = [pass[e] EXCEPT !.at = "failed", !.doing = id, !.claims = left], Hold(e, p)
      PROVE  AwardInv'
  <2>1. IsPass(p) /\ p.at = "failed"
    BY <1>1, <1>4 DEF IsPass
  <2> QED
    BY <1>1, <1>2, <1>4, <2>1, QuietStep
<1>5. PICK id \in claimed :
        \/ \E a : Hold(e, [pass[e] EXCEPT !.at = "awarding", !.asOf = now, !.doing = id, !.claims = @ \ {id},
                             !.todo = UNION {evidenceFor(b, window[b], a[b]) : b \in eligible}])
        \/ Hold(e, [pass[e] EXCEPT !.at = "failed", !.doing = id, !.claims = @ \ {id}])
  BY DEF checkAndAwardBadges
<1> HIDE DEF open, window, eligible
<1>6. ASSUME NEW a, Hold(e, [pass[e] EXCEPT !.at = "awarding", !.asOf = now, !.doing = id, !.claims = @ \ {id},
                               !.todo = UNION {evidenceFor(b, window[b], a[b]) : b \in eligible}])
      PROVE  AwardInv'
  <2> DEFINE todo == UNION {evidenceFor(b, window[b], a[b]) : b \in eligible}
             left == pass[e].claims \ {id}
             p    == [pass[e] EXCEPT !.at = "awarding", !.asOf = now, !.doing = id, !.claims = left, !.todo = todo]
  <2>1. Hold(e, p)
    BY <1>6
  <2>2. ASSUME NEW x \in todo
        PROVE  Prepared(rows', x, now)
    <3>1. PICK b \in eligible : x \in evidenceFor(b, window[b], a[b])
      OBVIOUS
    <3>2. b \in DOMAIN Badges /\ window[b] = Window(now - Badges[b].period, now)
      BY DEF open, window, eligible
    <3> QED
      BY <1>1, <3>1, <3>2, EvidenceIsPrepared DEF AwardInv
  <2> HIDE DEF todo, left
  <2>3. p = [pass[e] EXCEPT !.at = "awarding", !.asOf = now, !.doing = id, !.claims = left, !.todo = todo]
    OBVIOUS
  <2> HIDE DEF p
  <2> QED
    BY <1>3, <2>1, <2>2, <2>3
<1>7. ASSUME Hold(e, [pass[e] EXCEPT !.at = "failed", !.doing = id, !.claims = @ \ {id}])
      PROVE  AwardInv'
  <2> DEFINE left == pass[e].claims \ {id}
             p    == [pass[e] EXCEPT !.at = "failed", !.doing = id, !.claims = left]
  <2>1. Hold(e, p)
    BY <1>7
  <2> HIDE DEF left
  <2>2. p = [pass[e] EXCEPT !.at = "failed", !.doing = id, !.claims = left]
    OBVIOUS
  <2> HIDE DEF p
  <2> QED
    BY <1>4, <2>1, <2>2
<1> QED
  BY <1>2, <1>5, <1>6, <1>7

\* The boundaries of an award are protected before it is written.
LEMMA ProtectInv ==
  ASSUME AwardInv, NEW e \in Executors, ProtectEvidence(e)
  PROVE  Conservative /\ AwardInv'
<1>1. PICK x \in pass[e].todo :
        /\ ~x.protected
        /\ \/ /\ rows' = Protect({x.start.id, x.end.id})
              /\ Hold(e, [pass[e] EXCEPT !.todo = (@ \ {x}) \cup {[x EXCEPT !.protected = TRUE]}])
           \/ rows' = rows /\ Hold(e, [pass[e] EXCEPT !.todo = @ \ {x}])
  BY DEF ProtectEvidence
<1>2. /\ IsPass(pass[e]) /\ pass[e].at = "awarding" /\ UNCHANGED world /\ awards' = awards
      /\ pass[e].asOf \in {now - 1, now} /\ \A y \in pass[e].todo : Prepared(rows, y, pass[e].asOf)
  BY DEF ProtectEvidence, AwardInv, AwardTypes, TodoInv
<1>3. Conservative
  BY <1>1, ProtectConserves, SameConserves DEF AwardInv
<1>4. \A y \in pass[e].todo : Prepared(rows', y, pass[e].asOf)
  BY <1>2, <1>3, PreparedStays DEF AwardInv
<1>5. ASSUME NEW todo, \A y \in todo : Prepared(rows', y, pass[e].asOf), NEW p, p = [pass[e] EXCEPT !.todo = todo], Hold(e, p)
      PROVE  AwardInv'
  <2>1. IsPass(p) /\ p.at = "awarding" /\ p.asOf = pass[e].asOf /\ p.todo = todo
    BY <1>2, <1>5 DEF IsPass
  <2> QED
    BY <1>2, <1>3, <1>5, <2>1, PassStep
<1>6. ASSUME rows' = Protect({x.start.id, x.end.id}), NEW y, y = [x EXCEPT !.protected = TRUE]
      PROVE  Prepared(rows', y, pass[e].asOf)
  <2>1. Prepared(rows, x, pass[e].asOf)
    BY <1>2
  <2>2. IsEvidence(y) /\ y.badge = x.badge /\ y.start = x.start /\ y.end = x.end /\ y.protected
    BY <1>6, <2>1 DEF Prepared, IsEvidence
  <2>3. ASSUME Fits(x.badge), NEW b \in {x.start, x.end}
        PROVE  Safe(rows', b)
    <3>1. Recent(rows, b, pass[e].asOf)
      BY <1>1, <2>1, <2>3 DEF Prepared
    <3>2. PICK r \in rows : Behind(r, b)
      BY <3>1 DEF Recent
    <3>3. r.id = b.id
      BY <3>2 DEF Behind, boundary
    <3>4. PICK s \in rows' : s = [r EXCEPT !.protected = TRUE]
      BY <1>6, <2>3, <3>3 DEF Protect
    <3>5. Behind(s, b) /\ s.protected
      BY <3>2, <3>4 DEF Behind, boundary, complete, AwardInv, AwardTypes, Row
    <3> QED
      BY <3>5 DEF Safe
  <2>4. y.badge \in DOMAIN Badges
    BY <2>1, <2>2 DEF Prepared
  <2>5. Fits(y.badge) => Safe(rows', y.start) /\ Safe(rows', y.end)
    BY <2>2, <2>3
  <2> QED
    BY <2>2, <2>4, <2>5 DEF Prepared
<1>7. ASSUME rows' = Protect({x.start.id, x.end.id}),
             Hold(e, [pass[e] EXCEPT !.todo = (@ \ {x}) \cup {[x EXCEPT !.protected = TRUE]}])
      PROVE  AwardInv'
  <2> DEFINE y    == [x EXCEPT !.protected = TRUE]
             todo == (pass[e].todo \ {x}) \cup {y}
             p    == [pass[e] EXCEPT !.todo = todo]
  <2>1. Hold(e, p)
    BY <1>7
  <2>2. y = [x EXCEPT !.protected = TRUE]
    OBVIOUS
  <2> HIDE DEF y
  <2>3. \A z \in todo : Prepared(rows', z, pass[e].asOf)
    BY <1>4, <1>6, <1>7, <2>2
  <2> HIDE DEF todo
  <2>4. p = [pass[e] EXCEPT !.todo = todo]
    OBVIOUS
  <2> HIDE DEF p
  <2> QED
    BY <1>5, <2>1, <2>3, <2>4
<1>8. ASSUME Hold(e, [pass[e] EXCEPT !.todo = @ \ {x}])
      PROVE  AwardInv'
  <2> DEFINE todo == pass[e].todo \ {x}
             p    == [pass[e] EXCEPT !.todo = todo]
  <2>1. Hold(e, p)
    BY <1>8
  <2>2. \A z \in todo : Prepared(rows', z, pass[e].asOf)
    BY <1>4
  <2> HIDE DEF todo
  <2>3. p = [pass[e] EXCEPT !.todo = todo]
    OBVIOUS
  <2> HIDE DEF p
  <2> QED
    BY <1>5, <2>1, <2>2, <2>3
<1> QED
  BY <1>1, <1>3, <1>7, <1>8

\* Then it is, unless there is one already.
LEMMA AwardStep ==
  ASSUME AwardInv, NEW e \in Executors, Award(e)
  PROVE  Conservative /\ AwardInv'
<1>1. PICK x \in pass[e].todo :
        x.protected /\ Hold(e, [pass[e] EXCEPT !.todo = @ \ {x}]) /\ awards' \subseteq awards \cup {x}
  BY DEF Award
<1>2. /\ IsPass(pass[e]) /\ pass[e].at = "awarding" /\ UNCHANGED world
      /\ pass[e].asOf \in {now - 1, now} /\ \A y \in pass[e].todo : Prepared(rows, y, pass[e].asOf)
  BY DEF Award, AwardInv, AwardTypes, TodoInv
<1>3. Conservative
  BY SameConserves DEF Award, AwardInv
<1>4. \A y \in pass[e].todo : Prepared(rows', y, pass[e].asOf)
  BY <1>2, <1>3, PreparedStays DEF AwardInv
<1>5. Grounded(rows', x)
  BY <1>1, <1>4 DEF Prepared, Grounded
<1> DEFINE todo == pass[e].todo \ {x}
           p    == [pass[e] EXCEPT !.todo = todo]
<1>6. Hold(e, p)
  BY <1>1
<1>7. \A z \in todo : Prepared(rows', z, pass[e].asOf)
  BY <1>4
<1> HIDE DEF todo
<1>8. IsPass(p) /\ p.at = "awarding" /\ p.asOf = pass[e].asOf /\ p.todo = todo
  BY <1>2 DEF IsPass
<1> HIDE DEF p
<1> QED
  BY <1>1, <1>2, <1>3, <1>5, <1>6, <1>7, <1>8, PassStep

\* The portfolio, time, the outbox and the lapse of a claim leave the passes alone.
LEMMA WorldInv ==
  ASSUME AwardInv, portfolioChanges \/ intervalPasses \/ RecordTransitionIfChanged \/ leaseLapses
  PROVE  Conservative /\ AwardInv'
<1>1. pass' = pass /\ awards' = awards
  BY DEF portfolioChanges, intervalPasses, RecordTransitionIfChanged, leaseLapses
<1>2. Conservative
  <2>1. CASE RecordTransitionIfChanged
    <3>1. PICK ev \in outbox : rows' = rows \/ rows' = Insert(Snapshot("transition", ev.at, ev.index, ev.status, "complete"))
      BY <2>1 DEF RecordTransitionIfChanged
    <3>2. ev.at \in Int /\ ev.index \in Int /\ ev.status \in {"active", "paused"} /\ "transition" \in SnapshotKinds
      BY DEF AwardInv, AwardTypes, SnapshotKinds
    <3>3. Snapshot("transition", ev.at, ev.index, ev.status, "complete") \in Row
      BY <3>2, SnapshotTyped
    <3> QED
      BY <3>1, <3>3, InsertConserves, SameConserves DEF AwardInv
  <2>2. CASE leaseLapses
    BY <2>2, SetEvaluationConserves DEF leaseLapses, AwardInv
  <2> QED
    BY <2>1, <2>2, SameConserves DEF portfolioChanges, intervalPasses, AwardInv
<1>3. AwardTypes'
  <2>1. /\ now' \in Int /\ index' \in Int /\ status' \in {"active", "paused"}
        /\ \A ev \in outbox' : ev.at \in Int /\ ev.index \in Int /\ ev.status \in {"active", "paused"}
    <3>1. CASE portfolioChanges
      BY <3>1, AchievementsAssumption DEF portfolioChanges, AwardInv, AwardTypes
    <3>2. CASE intervalPasses
      BY <3>2 DEF intervalPasses, AwardInv, AwardTypes
    <3>3. CASE RecordTransitionIfChanged
      BY <3>3 DEF RecordTransitionIfChanged, AwardInv, AwardTypes
    <3>4. CASE leaseLapses
      BY <3>4 DEF leaseLapses, AwardInv, AwardTypes, world
    <3> QED
      BY <3>1, <3>2, <3>3, <3>4
  <2> QED
    BY <1>1, <1>2, <2>1 DEF AwardInv, AwardTypes, Conservative
<1>4. StandInv' /\ UniqueIds'
  BY <1>1, <1>2, SafeStays DEF AwardInv, StandInv, Grounded, Conservative
<1>5. TodoInv'
  <2>1. CASE now' = now
    BY <1>1, <1>2, <2>1, PreparedStays DEF AwardInv, TodoInv
  <2>2. CASE intervalPasses
    <3>1. /\ now' = now + 1 /\ now \in Int
          /\ \A e \in Executors : pass[e].at = "awarding" => pass[e].asOf = now
      BY <2>2 DEF intervalPasses, Executors, AwardInv, AwardTypes
    <3> QED
      BY <1>1, <1>2, <3>1, PreparedStays DEF AwardInv, TodoInv
  <2> QED
    BY <2>1, <2>2 DEF portfolioChanges, RecordTransitionIfChanged, leaseLapses, world
<1> QED
  BY <1>2, <1>3, <1>4, <1>5 DEF AwardInv

-----------------------------------------------------------------------------
(* The invariant *)

LEMMA AwardInvInit ==
  ASSUME AchievementsInit
  PROVE  AwardInv
<1>1. \A e \in Executors : IsPass(pass[e]) /\ pass[e].at = "idle"
  BY RestingIsPass DEF AchievementsInit, Executors
<1> QED
  BY <1>1 DEF AchievementsInit, AwardInv, AwardTypes, UniqueIds, StandInv, TodoInv, InitialIndex, Executors

LEMMA AwardInvNext ==
  ASSUME AwardInv, [AchievementsNext]_achievementVars
  PROVE  Conservative /\ AwardInv'
<1>1. CASE UNCHANGED achievementVars
  <2>1. Conservative
    BY <1>1, SameConserves DEF achievementVars, AwardInv
  <2> QED
    BY <1>1, <2>1 DEF achievementVars, AwardInv, AwardTypes, UniqueIds, StandInv, TodoInv
<1>2. ASSUME NEW w \in Workers, workerStep(w) \/ EvaluateLocked(w)
      PROVE  Conservative /\ AwardInv'
  BY <1>2, SnapshotAllInv, InsertIntradayInv, InsertDailyInv, ClaimInv, FinishInv, CompactInv, ProtectInv, AwardStep, EvaluateInv
  DEF workerStep, EvaluateLocked, Executors
<1>3. ASSUME NEW q \in Requests, EvaluateAll(q) \/ finishRequest(q)
      PROVE  Conservative /\ AwardInv'
  BY <1>3, ProtectInv, AwardStep, EvaluateInv, RestInv DEF EvaluateAll, finishRequest, Executors
<1> QED
  BY <1>1, <1>2, <1>3, RestInv, WorldInv DEF AchievementsNext, Executors

\* The inductive invariant of the ranked history and its awards.
THEOREM AwardInvariance == AchievementsSpec => []AwardInv
<1> QED
  BY AwardInvInit, AwardInvNext, PTL DEF AchievementsSpec

\* Trusted history is not rewritten: neither an upsert of a bucket, a transition
\* delivered late, a claim, a protection nor a compaction changes a complete point
\* or takes its protection away, and no award is withdrawn, for any number of
\* workers and requests.
THEOREM TrustedHistoryStays == AchievementsSpec => HistoryIsNotRewritten
<1>1. ASSUME AwardInv, [AchievementsNext]_achievementVars
      PROVE  [ /\ awards \subseteq awards'
               /\ \A r \in rows, s \in rows' :
                    s.id = r.id /\ complete(r) =>
                      /\ boundary(s) = boundary(r) /\ s.status = r.status /\ complete(s)
                      /\ r.protected => s.protected
             ]_achievementVars
  <2>1. Conservative
    BY <1>1, AwardInvNext
  <2>2. ASSUME NEW r \in rows, NEW s \in rows', s.id = r.id, complete(r)
        PROVE  /\ boundary(s) = boundary(r) /\ s.status = r.status /\ complete(s)
               /\ r.protected => s.protected
    <3>1. PICK q \in rows : Kept(q, s)
      BY <2>1, <2>2 DEF Conservative
    <3>2. q = r
      BY <1>1, <2>2, <3>1 DEF Kept, AwardInv, UniqueIds
    <3> QED
      BY <2>2, <3>1, <3>2 DEF Kept
  <2>3. awards \subseteq awards'
    BY <1>1 DEF AchievementsNext, achievementVars, portfolioChanges, intervalPasses, RecordTransitionIfChanged, leaseLapses,
       workerStep, EvaluateLocked, EvaluateAll, checkAndAwardBadges, finishRequest, SnapshotAll, insertIntraday, insertDaily,
       ClaimEvaluations, ProtectEvidence, Award, CompleteEvaluation, FailEvaluation, compactHistory, answer, crash, history
  <2> QED
    BY <2>2, <2>3
<1> QED
  BY <1>1, AwardInvariance, PTL DEF AchievementsSpec, HistoryIsNotRewritten

\* The evidence of every award stands whose badge's period lies within the
\* retention of intraday points, however captures, evaluations, compactions and
\* crashes of any number of workers and requests interleave.
THEOREM FittingEvidenceStands ==
  AchievementsSpec =>
    [](\A x \in awards : Fits(x.badge) =>
         \A b \in {x.start, x.end} : \E r \in rows : boundary(r) = b /\ complete(r) /\ r.status = "active")
<1>1. ASSUME AwardInv
      PROVE  \A x \in awards : Fits(x.badge) =>
               \A b \in {x.start, x.end} : \E r \in rows : boundary(r) = b /\ complete(r) /\ r.status = "active"
  BY <1>1 DEF AwardInv, StandInv, Grounded, Safe, Behind
<1> QED
  BY <1>1, AwardInvariance, PTL

\* Where that holds of the whole catalogue, as of the 30 and 90 day badges, the
\* evidence of all awards stands.
THEOREM EvidenceOfAwardsStands ==
  ASSUME \A b \in DOMAIN Badges : Fits(b)
  PROVE  AchievementsSpec => []EvidenceStands
<1>1. ASSUME AwardInv
      PROVE  EvidenceStands
  BY <1>1 DEF AwardInv, StandInv, Grounded, Safe, Behind, EvidenceStands
<1> QED
  BY <1>1, AwardInvariance, PTL
=============================================================================
