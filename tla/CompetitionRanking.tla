------------------------- MODULE CompetitionRanking -------------------------
(***************************************************************************)
(* The live ranking of one active edition (internal/competitions,          *)
(* ranking.go): laps over the active entries in batches under a persisted  *)
(* cursor, while the baseline is still turning pending entries active.     *)
(* The pass holds the edition's ranking lock, so there is one at a time.   *)
(* Entries are numbered in the order of their ids.  Returns do not matter  *)
(* here, only who is listed; a generation keeps of its counters what their *)
(* readers ask: was anything processed, did a valuation or a write fail.   *)
(***************************************************************************)
EXTENDS Integers, FiniteSets, FiniteSetsExt

CONSTANTS
  Entries,          \* 1..n, in the order of their ids
  RankingBatchSize,
  MaxMishaps        \* bound: unpriceable entries, failed writes, crashes, deletions

ASSUME RankingAssumption ==
  IsFiniteSet(Entries) /\ Entries = 1..Cardinality(Entries) /\ RankingBatchSize \in Nat \ {0}

VARIABLES
  status,    \* status[e]: "pending", "active" or "failed" baseline
  gone,      \* entries of deleted users
  draft,     \* the building generation
  turn,      \* the pass under way
  published, \* entries of the active generation; {0} before the first promotion
  lapField,  \* history: entries that were active when the lap began
  mishaps

rankingVars == <<status, gone, draft, turn, published, lapField, mishaps>>

NewDraft == [cursor |-> 0, worked |-> FALSE, failed |-> FALSE, lost |-> FALSE, rows |-> {}]
NoTurn   == [at |-> "idle", batch |-> {}, failed |-> FALSE, lost |-> FALSE, lap |-> FALSE]

Fielded == {e \in Entries : status[e] = "active"}
Mishap  == mishaps < MaxMishaps /\ mishaps' = mishaps + 1

-----------------------------------------------------------------------------
(* The baseline settles a pending entry; a user may leave. *)

SettleBaseline(e, outcome) ==
  /\ status[e] = "pending" /\ outcome \in {"active", "failed"}
  /\ status' = [status EXCEPT ![e] = outcome]
  /\ UNCHANGED <<gone, draft, turn, published, lapField, mishaps>>

Leave(e) ==
  /\ Mishap /\ e \notin gone
  /\ gone' = gone \cup {e}
  /\ UNCHANGED <<status, draft, turn, published, lapField>>

-----------------------------------------------------------------------------
(* A pass *)

HasPendingBaselineEntries == \E e \in Entries : status[e] = "pending"

ClaimActiveEntries(cursor, limit) ==
  LET rest == {e \in Fielded : e > cursor} IN {e \in rest : Cardinality({d \in rest : d < e}) < limit}

claimBatch ==
  LET batch == ClaimActiveEntries(draft.cursor, RankingBatchSize)
  IN  /\ turn.at = "idle"
      /\ turn' = [NoTurn EXCEPT !.at = "value", !.batch = batch, !.lap = Cardinality(batch) < RankingBatchSize]
      /\ lapField' = IF draft.cursor = 0 THEN Fielded ELSE lapField
      /\ UNCHANGED <<status, gone, draft, published, mishaps>>

UpsertRanking(gen, entries) == [gen EXCEPT !.rows = @ \cup entries]

\* Entries that cannot be priced, and rows that cannot be written, are passed over.
valueBatch(unpriced, unwritten) ==
  /\ turn.at = "value" /\ unpriced \cup unwritten \subseteq turn.batch /\ unpriced \cap unwritten = {}
  /\ IF unpriced \cup unwritten = {} THEN UNCHANGED mishaps ELSE Mishap
  /\ draft' = UpsertRanking(draft, turn.batch \ (unpriced \cup unwritten))
  /\ turn' = [turn EXCEPT !.at = "advance", !.failed = unpriced # {}, !.lost = unwritten # {}]
  /\ UNCHANGED <<status, gone, published, lapField>>

\* The counters of the last pass only.
AdvanceForgetting(gen, pass) ==
  [gen EXCEPT !.cursor = IF pass.lap THEN 0 ELSE Max(pass.batch),
              !.worked = @ \/ pass.batch # {}, !.failed = pass.failed, !.lost = pass.lost]

\* The counters add up over the passes; a finished lap rewinds the cursor.
AdvanceGeneration(gen, pass) ==
  [gen EXCEPT !.cursor = IF pass.lap THEN 0 ELSE Max(pass.batch),
              !.worked = @ \/ pass.batch # {}, !.failed = @ \/ pass.failed, !.lost = @ \/ pass.lost]

advanceTurn ==
  /\ turn.at = "advance"
  /\ draft' = AdvanceGeneration(draft, turn)
  /\ turn' = IF turn.lap THEN [turn EXCEPT !.at = "settle"] ELSE NoTurn
  /\ UNCHANGED <<status, gone, published, lapField, mishaps>>

complete(gen) == gen.worked /\ ~gen.failed /\ ~gen.lost

\* The end of a lap: nothing to rank, a generation with a failure is thrown
\* away, one that is complete waits until no baseline is pending.
settleLap ==
  /\ turn.at = "settle"
  /\ IF complete(draft) /\ ~HasPendingBaselineEntries
     THEN turn' = [turn EXCEPT !.at = "promote"] /\ UNCHANGED draft
     ELSE turn' = NoTurn /\ draft' = IF draft.failed \/ draft.lost THEN NewDraft ELSE draft
  /\ UNCHANGED <<status, gone, published, lapField, mishaps>>

\* Ranks, promotion and pruning in one transaction, guarded by the counters.
PromoteGeneration ==
  /\ turn.at = "promote" /\ complete(draft)
  /\ published' = draft.rows \ gone
  /\ draft' = NewDraft /\ turn' = NoTurn
  /\ UNCHANGED <<status, gone, lapField, mishaps>>

refreshEditionRanking ==
  claimBatch \/ valueBatch({}, {}) \/ advanceTurn \/ settleLap \/ PromoteGeneration

\* The process dies; the lock goes with its session.
dropTurn ==
  /\ turn.at # "idle" /\ Mishap
  /\ turn' = NoTurn
  /\ UNCHANGED <<status, gone, draft, published, lapField>>

-----------------------------------------------------------------------------

RankingInit ==
  /\ status = [e \in Entries |-> "pending"] /\ gone = {}
  /\ draft = NewDraft /\ turn = NoTurn /\ published = {0} /\ lapField = {} /\ mishaps = 0

RankingNext ==
  \/ \E e \in Entries : Leave(e) \/ \E outcome \in {"active", "failed"} : SettleBaseline(e, outcome)
  \/ refreshEditionRanking \/ dropTurn
  \/ \E unpriced, unwritten \in SUBSET Entries : unpriced \cup unwritten # {} /\ valueBatch(unpriced, unwritten)

RankingSpec == RankingInit /\ [][RankingNext]_rankingVars

\* The scheduler runs the passes; every pending entry is eventually settled.
RankingFairSpec ==
  /\ RankingSpec /\ WF_rankingVars(refreshEditionRanking)
  /\ \A e \in Entries : WF_rankingVars(\E outcome \in {"active", "failed"} : SettleBaseline(e, outcome))

-----------------------------------------------------------------------------
(* Properties *)

\* "an unpriceable entry must never be silently omitted": a promoted board
\* lists everyone who was in the field when its lap began and still has an
\* account, whatever was skipped, lost, retried or cut off in between.
BoardIsWholeField ==
  [][published' # published => lapField \ gone \subseteq published']_rankingVars

\* A field of at least one ends up on a board: deferral and thrown-away
\* generations do not postpone the first promotion for ever.
BoardAppears == Fielded # {} ~> published # {0}

\* "Promoting here would publish a generation that omits them": nobody active
\* when a generation is promoted is missing from it.
PromotionOmitsNobody ==
  [][published' # published => Fielded \ gone \subseteq published']_rankingVars
=============================================================================
