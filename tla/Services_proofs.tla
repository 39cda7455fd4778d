-------------------------- MODULE Services_proofs --------------------------
(***************************************************************************)
(* The services that answer readers: the two ranked boards, the instrument *)
(* register and market data, for any number of readers, replicas, failed   *)
(* writes and crashes.                                                     *)
(*                                                                         *)
(* A promoted board lists the whole field of its lap.  The argument        *)
(* follows the cursor: whoever it has passed has a row, or the generation  *)
(* remembers a failure; a page has no gap in front of it; so when the last *)
(* page is in, nobody is missing.  On the global board the cursor is in a  *)
(* replica's memory, so that argument needs the leader to hold the lock.   *)
(* The ranking rule is a strict total order, so ranks follow returns on    *)
(* every board that is served.                                             *)
(*                                                                         *)
(* No statement of the register changes what a ticker meant on a day that  *)
(* is over, so a record the backfill resolved keeps the instrument its own *)
(* day knew, whatever was renamed, reopened or reviewed since.             *)
(*                                                                         *)
(* In the Twelve Data wiring every quote on its way to a reader, in a      *)
(* cache or in a request, is at most as old as the shelf life it is        *)
(* trusted for, or carries the stale mark.                                 *)
(*                                                                         *)
(* The limiter forgets a window when it is over, so how many requests were *)
(* sent in any minute is bounded through the two windows it can overlap.   *)
(***************************************************************************)
EXTENDS Leaderboard, CompetitionRanking, MarketData, Instruments, Lemmas

(* A competition's board: claims are pages of the field *)

\* Entries are numbered from 1.
LEMMA EntriesAreNumbers ==
  /\ \A e \in Entries : e \in Nat /\ e > 0
  /\ \E n \in Nat : Entries = 1..n
BY RankingAssumption, FS_CardinalityType

\* The cursor of a pass that does not end its lap is the last entry of its batch.
LEMMA LastOfBatch ==
  ASSUME NEW S \in SUBSET Entries, S # {}
  PROVE  Max(S) \in S /\ \A y \in S : Max(S) >= y
<1>1. PICK n \in Nat : Entries = 1..n
  BY EntriesAreNumbers
<1> QED
  BY <1>1, GreatestNumber

\* A claim with an entry takes every active entry between the cursor and that one.
LEMMA ClaimHasNoGap ==
  ASSUME NEW c \in Nat, NEW d \in ClaimActiveEntries(c, RankingBatchSize),
         NEW e \in Fielded, e > c, e <= d
  PROVE  e \in ClaimActiveEntries(c, RankingBatchSize)
<1>1. PICK n \in Nat : Entries = 1..n
  BY EntriesAreNumbers
<1>2. ClaimActiveEntries(c, RankingBatchSize) = Page(Fielded, c, RankingBatchSize)
  BY DEF ClaimActiveEntries, Page
<1>3. Fielded \in SUBSET (1..n)
  BY <1>1 DEF Fielded
<1>4. RankingBatchSize \in Nat
  BY RankingAssumption
<1> QED
  BY <1>2, <1>3, <1>4, PageHasNoGap

\* A claim that comes back short has taken everyone left.
LEMMA ShortClaimTakesTheRest ==
  ASSUME NEW c \in Nat,
         Cardinality(ClaimActiveEntries(c, RankingBatchSize)) < RankingBatchSize,
         NEW e \in Fielded, e > c
  PROVE  e \in ClaimActiveEntries(c, RankingBatchSize)
<1>1. PICK n \in Nat : Entries = 1..n
  BY EntriesAreNumbers
<1>2. ClaimActiveEntries(c, RankingBatchSize) = Page(Fielded, c, RankingBatchSize)
  BY DEF ClaimActiveEntries, Page
<1>3. Fielded \in SUBSET (1..n)
  BY <1>1 DEF Fielded
<1>4. RankingBatchSize \in Nat
  BY RankingAssumption
<1> QED
  BY <1>2, <1>3, <1>4, ShortPageTakesTheRest

\* A pass that does not end its lap has work.
LEMMA FullClaimHasEntries ==
  ASSUME NEW c \in Nat,
         ~(Cardinality(ClaimActiveEntries(c, RankingBatchSize)) < RankingBatchSize)
  PROVE  ClaimActiveEntries(c, RankingBatchSize) # {}
<1>1. ClaimActiveEntries(c, RankingBatchSize) = Page(Fielded, c, RankingBatchSize)
  BY DEF ClaimActiveEntries, Page
<1> QED
  BY <1>1, FullPageHasMembers, RankingAssumption

-----------------------------------------------------------------------------
(* A competition's board: the invariant *)

\* The columns' types.  A lap's field only ever grows less than the field.
RankingTypes ==
  /\ status \in [Entries -> {"pending", "active", "failed"}]
  /\ draft \in [cursor : Nat, worked : BOOLEAN, failed : BOOLEAN, lost : BOOLEAN, rows : SUBSET Entries]
  /\ turn \in [at : {"idle", "value", "advance", "settle", "promote"}, batch : SUBSET Entries,
               failed : BOOLEAN, lost : BOOLEAN, lap : BOOLEAN]
  /\ lapField \subseteq Fielded

Unblemished(gen) == ~gen.failed /\ ~gen.lost

\* Whoever of the lap's field the cursor has passed is on the draft.
CursorInv == Unblemished(draft) => \A e \in lapField : e <= draft.cursor => e \in draft.rows

\* The batch in hand starts right behind the cursor and skips nobody; a batch
\* that ends the lap takes everyone left.
NoGap ==
  /\ ~turn.lap => turn.batch # {}
  /\ \A e \in lapField : e > draft.cursor /\ (turn.lap \/ e <= Max(turn.batch)) => e \in turn.batch

PassInv ==
  /\ turn.at \in {"value", "advance"} => NoGap
  /\ turn.at = "advance" /\ Unblemished(turn) => turn.batch \subseteq draft.rows

\* After the last batch nobody of the lap's field is missing.
LapInv == turn.at \in {"settle", "promote"} /\ Unblemished(draft) => lapField \subseteq draft.rows

\* The inductive invariant.
RankingInv == RankingTypes /\ CursorInv /\ PassInv /\ LapInv

-----------------------------------------------------------------------------
(* A competition's board: the steps *)

\* Before the first pass of refreshEditionRanking.
LEMMA RankingInvInit ==
  ASSUME RankingInit
  PROVE  RankingInv
BY RankingAssumption DEF RankingInit, RankingInv, RankingTypes, CursorInv, PassInv, LapInv, NewDraft,
   NoTurn, Fielded, Unblemished

\* Entries of the field stay in it: no handler takes an active entry back, so
\* the lap's field stays a part of the field.
LEMMA SettleBaselineInv ==
  ASSUME RankingInv, NEW e \in Entries, NEW outcome \in {"active", "failed"}, SettleBaseline(e, outcome)
  PROVE  RankingInv'
<1>1. Fielded \subseteq Fielded'
  BY DEF RankingInv, RankingTypes, SettleBaseline, Fielded
<1>2. RankingTypes'
  BY <1>1 DEF RankingInv, RankingTypes, SettleBaseline
<1> QED
  BY <1>2 DEF RankingInv, SettleBaseline, CursorInv, PassInv, NoGap, LapInv, Unblemished

\* A claim opens a pass without a gap; at cursor 0 it opens a lap, whose field
\* is the one of that moment.
LEMMA ClaimInv ==
  ASSUME RankingInv, claimBatch
  PROVE  RankingInv'
<1> DEFINE batch == ClaimActiveEntries(draft.cursor, RankingBatchSize)
<1>1. draft.cursor \in Nat /\ Entries \subseteq Nat
  BY EntriesAreNumbers DEF RankingInv, RankingTypes
<1>2. /\ turn' = [at |-> "value", batch |-> batch, failed |-> FALSE, lost |-> FALSE,
                  lap |-> Cardinality(batch) < RankingBatchSize]
      /\ lapField' = IF draft.cursor = 0 THEN Fielded ELSE lapField
      /\ status' = status /\ draft' = draft
  BY DEF claimBatch, NoTurn
<1>3. lapField' \subseteq Fielded /\ Fielded' = Fielded
  BY <1>2 DEF RankingInv, RankingTypes, Fielded
<1>4. batch \subseteq Entries
  BY DEF ClaimActiveEntries, Fielded
<1>5. RankingTypes'
  <2> HIDE DEF batch
  <2> QED
    BY <1>2, <1>3, <1>4 DEF RankingInv, RankingTypes
<1>6. CursorInv'
  <2>1. CASE draft.cursor = 0
    <3>1. \A e \in Entries : ~(e <= 0)
      BY EntriesAreNumbers
    <3> QED
      BY <1>2, <1>3, <2>1, <3>1 DEF CursorInv, Fielded
  <2>2. CASE draft.cursor # 0
    BY <1>2, <2>2 DEF RankingInv, CursorInv
  <2> QED
    BY <2>1, <2>2
<1>7. NoGap'
  <2>1. turn'.batch = batch /\ turn'.lap = (Cardinality(batch) < RankingBatchSize)
    BY <1>2
  <2>2. ~turn'.lap => turn'.batch # {}
    BY <1>1, <2>1, FullClaimHasEntries
  <2>3. ASSUME NEW e \in lapField', e > draft.cursor, turn'.lap
        PROVE  e \in turn'.batch
    BY <1>1, <1>3, <2>1, <2>3, ShortClaimTakesTheRest
  <2>4. ASSUME NEW e \in lapField', e > draft.cursor, ~turn'.lap, e <= Max(turn'.batch)
        PROVE  e \in turn'.batch
    <3>1. Max(batch) \in batch
      <4> HIDE DEF batch
      <4> QED
        BY <1>4, <2>1, <2>2, <2>4, LastOfBatch
    <3> QED
      BY <1>1, <1>3, <2>1, <2>4, <3>1, ClaimHasNoGap
  <2> QED
    BY <1>2, <2>2, <2>3, <2>4 DEF NoGap
<1>8. PassInv' /\ LapInv'
  BY <1>2, <1>7 DEF PassInv, LapInv
<1> QED
  BY <1>5, <1>6, <1>8 DEF RankingInv

\* Valuing adds the rows of the batch, or marks the pass.
LEMMA ValueInv ==
  ASSUME RankingInv, NEW unpriced, NEW unwritten, valueBatch(unpriced, unwritten)
  PROVE  RankingInv'
<1> DEFINE wrote == turn.batch \ (unpriced \cup unwritten)
<1>1. /\ turn.at = "value"
      /\ draft' = [draft EXCEPT !.rows = @ \cup wrote]
      /\ turn' = [turn EXCEPT !.at = "advance", !.failed = unpriced # {}, !.lost = unwritten # {}]
      /\ status' = status /\ lapField' = lapField
  BY DEF valueBatch, UpsertRanking
<1>2. Fielded' = Fielded
  BY <1>1 DEF Fielded
<1>3. /\ draft'.cursor = draft.cursor /\ draft'.failed = draft.failed /\ draft'.lost = draft.lost
      /\ draft'.rows = draft.rows \cup wrote
      /\ turn'.at = "advance" /\ turn'.batch = turn.batch /\ turn'.lap = turn.lap
      /\ turn'.failed = (unpriced # {}) /\ turn'.lost = (unwritten # {})
  BY <1>1 DEF RankingInv, RankingTypes
<1>4. RankingTypes'
  BY <1>1, <1>2 DEF RankingInv, RankingTypes
<1>5. CursorInv'
  BY <1>1, <1>3 DEF RankingInv, CursorInv, Unblemished
<1>6. PassInv'
  <2>1. NoGap'
    BY <1>1, <1>3 DEF RankingInv, PassInv, NoGap
  <2>2. Unblemished(turn') => turn'.batch \subseteq draft'.rows
    BY <1>3 DEF Unblemished
  <2> QED
    BY <2>1, <2>2 DEF PassInv, Unblemished
<1>7. LapInv'
  BY <1>3 DEF LapInv
<1> QED
  BY <1>4, <1>5, <1>6, <1>7 DEF RankingInv

\* The cursor moves past the batch: whoever it passes was behind it or in the
\* batch.  After the last batch that is everyone.
LEMMA AdvanceInv ==
  ASSUME RankingInv, advanceTurn
  PROVE  RankingInv'
<1>1. /\ turn.at = "advance" /\ status' = status /\ lapField' = lapField
      /\ draft' = [draft EXCEPT !.cursor = IF turn.lap THEN 0 ELSE Max(turn.batch),
                                !.worked = @ \/ turn.batch # {},
                                !.failed = @ \/ turn.failed, !.lost = @ \/ turn.lost]
      /\ turn' = IF turn.lap THEN [turn EXCEPT !.at = "settle"] ELSE NoTurn
  BY DEF advanceTurn, AdvanceGeneration
<1>2. Fielded' = Fielded
  BY <1>1 DEF Fielded
<1>3. NoGap
  BY <1>1 DEF RankingInv, PassInv
<1>4. ~turn.lap => Max(turn.batch) \in turn.batch
  BY <1>3, LastOfBatch DEF RankingInv, RankingTypes, NoGap
<1>5. Entries \subseteq Nat /\ turn.batch \subseteq Entries /\ draft.cursor \in Nat /\ lapField \subseteq Entries
  BY EntriesAreNumbers DEF RankingInv, RankingTypes, Fielded
<1>6. /\ draft'.rows = draft.rows
      /\ draft'.failed = (draft.failed \/ turn.failed) /\ draft'.lost = (draft.lost \/ turn.lost)
      /\ draft'.cursor = IF turn.lap THEN 0 ELSE Max(turn.batch)
  BY <1>1 DEF RankingInv, RankingTypes
<1>7. RankingTypes'
  <2>1. (IF turn.lap THEN 0 ELSE Max(turn.batch)) \in Nat
    BY <1>4, <1>5
  <2>2. draft' \in [cursor : Nat, worked : BOOLEAN, failed : BOOLEAN, lost : BOOLEAN, rows : SUBSET Entries]
    BY <1>1, <2>1 DEF RankingInv, RankingTypes
  <2>3. turn' \in [at : {"idle", "value", "advance", "settle", "promote"}, batch : SUBSET Entries,
                   failed : BOOLEAN, lost : BOOLEAN, lap : BOOLEAN]
    BY <1>1 DEF RankingInv, RankingTypes, NoTurn
  <2> QED
    BY <1>1, <1>2, <2>2, <2>3 DEF RankingInv, RankingTypes
\* whoever the pass has dealt with, if nothing went wrong so far, is on the draft
<1>8. ASSUME Unblemished(draft'), NEW e \in lapField, turn.lap \/ e <= Max(turn.batch)
      PROVE  e \in draft'.rows
  <2>1. Unblemished(draft) /\ Unblemished(turn)
    BY <1>6, <1>8 DEF Unblemished
  <2>2. CASE e <= draft.cursor
    BY <1>6, <2>1, <2>2 DEF RankingInv, CursorInv
  <2>3. CASE e > draft.cursor
    BY <1>1, <1>3, <1>6, <1>8, <2>1, <2>3 DEF RankingInv, PassInv, NoGap
  <2> QED
    BY <1>5, <2>2, <2>3
<1>9. CASE turn.lap
  <2>1. turn'.at = "settle"
    BY <1>1, <1>9 DEF RankingInv, RankingTypes
  <2>2. LapInv' /\ CursorInv'
    BY <1>1, <1>8, <1>9 DEF LapInv, CursorInv
  <2> QED
    BY <1>7, <2>1, <2>2 DEF RankingInv, PassInv
<1>10. CASE ~turn.lap
  <2>1. turn'.at = "idle"
    BY <1>1, <1>10 DEF NoTurn
  <2>2. CursorInv'
    BY <1>1, <1>6, <1>8, <1>10 DEF CursorInv
  <2> QED
    BY <1>7, <2>1, <2>2 DEF RankingInv, PassInv, LapInv
<1> QED
  BY <1>9, <1>10

\* An empty draft and an idle pass have their columns' types.
LEMMA FreshTyped ==
  /\ NewDraft \in [cursor : Nat, worked : BOOLEAN, failed : BOOLEAN, lost : BOOLEAN, rows : SUBSET Entries]
  /\ NoTurn \in [at : {"idle", "value", "advance", "settle", "promote"}, batch : SUBSET Entries,
                 failed : BOOLEAN, lost : BOOLEAN, lap : BOOLEAN]
BY DEF NewDraft, NoTurn

\* At the end of a lap the draft goes on to its promotion, stays, or is thrown
\* away; an empty draft owes nobody anything.
LEMMA SettleInv ==
  ASSUME RankingInv, settleLap
  PROVE  RankingInv'
<1>1. /\ turn.at = "settle" /\ status' = status /\ lapField' = lapField
      /\ \/ turn' = [turn EXCEPT !.at = "promote"] /\ draft' = draft
         \/ turn' = NoTurn /\ draft' \in {draft, NewDraft}
  BY DEF settleLap
<1>2. Fielded' = Fielded
  BY <1>1 DEF Fielded
<1>3. RankingTypes'
  BY <1>1, <1>2, FreshTyped DEF RankingInv, RankingTypes
<1>4. lapField \subseteq Entries
  BY DEF RankingInv, RankingTypes, Fielded
<1>5. draft' = NewDraft => CursorInv'
  BY <1>1, <1>4, EntriesAreNumbers DEF CursorInv, NewDraft
<1>6. CASE turn' = [turn EXCEPT !.at = "promote"] /\ draft' = draft
  <2>1. turn'.at = "promote"
    BY <1>6 DEF RankingInv, RankingTypes
  <2> QED
    BY <1>1, <1>3, <1>6, <2>1 DEF RankingInv, CursorInv, PassInv, LapInv
<1>7. CASE turn' = NoTurn /\ draft' \in {draft, NewDraft}
  BY <1>1, <1>3, <1>5, <1>7 DEF RankingInv, CursorInv, PassInv, LapInv, NoTurn
<1> QED
  BY <1>1, <1>6, <1>7

\* A promotion, or a process that dies with the pass, leaves no pass behind.
LEMMA PassGoneInv ==
  ASSUME RankingInv, turn' = NoTurn, draft' \in {draft, NewDraft}, status' = status, lapField' = lapField
  PROVE  RankingInv'
<1>1. Fielded' = Fielded
  BY DEF Fielded
<1>2. RankingTypes'
  BY <1>1, FreshTyped DEF RankingInv, RankingTypes
<1>3. lapField \subseteq Entries
  BY DEF RankingInv, RankingTypes, Fielded
<1>4. CursorInv'
  BY <1>3, EntriesAreNumbers DEF RankingInv, CursorInv, NewDraft
<1> QED
  BY <1>2, <1>4 DEF RankingInv, PassInv, LapInv, NoTurn

\* Every part of a pass, every change of the field and every crash keeps the invariant.
LEMMA RankingInvNext ==
  ASSUME RankingInv, [RankingNext]_rankingVars
  PROVE  RankingInv'
<1>1. CASE UNCHANGED rankingVars
  BY <1>1 DEF rankingVars, RankingInv, RankingTypes, CursorInv, PassInv, NoGap, LapInv, Unblemished, Fielded
<1>2. ASSUME NEW e \in Entries, Leave(e)
      PROVE  RankingInv'
  BY <1>2 DEF Leave, RankingInv, RankingTypes, CursorInv, PassInv, NoGap, LapInv, Unblemished, Fielded
<1>3. ASSUME NEW e \in Entries, NEW outcome \in {"active", "failed"}, SettleBaseline(e, outcome)
      PROVE  RankingInv'
  BY <1>3, SettleBaselineInv
<1>4. CASE claimBatch
  BY <1>4, ClaimInv
<1>5. CASE \E unpriced, unwritten \in SUBSET Entries : valueBatch(unpriced, unwritten)
  BY <1>5, ValueInv
<1>6. CASE advanceTurn
  BY <1>6, AdvanceInv
<1>7. CASE settleLap
  BY <1>7, SettleInv
<1>8. CASE PromoteGeneration
  BY <1>8, PassGoneInv DEF PromoteGeneration
<1>9. CASE dropTurn
  BY <1>9, PassGoneInv DEF dropTurn
<1> QED
  BY <1>1, <1>2, <1>3, <1>4, <1>5, <1>6, <1>7, <1>8, <1>9 DEF RankingNext, refreshEditionRanking

\* Between and inside the passes of refreshEditionRanking the invariant holds.
THEOREM RankingInvariance == RankingSpec => []RankingInv
<1>1. RankingInit => RankingInv
  BY RankingInvInit
<1>2. RankingInv /\ [RankingNext]_rankingVars => RankingInv'
  BY RankingInvNext
<1> QED
  BY <1>1, <1>2, PTL DEF RankingSpec

-----------------------------------------------------------------------------
(* A competition's board: the result *)

\* A board that is promoted lists everyone who was in the field when its lap
\* began and still has an account: PromoteGeneration is the only step that
\* publishes, and it finds a generation without a failure after a whole lap.
THEOREM BoardsAreWhole == RankingSpec => BoardIsWholeField
<1> DEFINE Whole == published' # published => lapField \ gone \subseteq published'
<1>1. ASSUME RankingInv, [RankingNext]_rankingVars
      PROVE  Whole
  <2>1. CASE PromoteGeneration
    <3>1. turn.at = "promote" /\ published' = draft.rows \ gone /\ Unblemished(draft)
      BY <2>1 DEF PromoteGeneration, complete, Unblemished
    <3>2. lapField \subseteq draft.rows
      BY <1>1, <3>1 DEF RankingInv, LapInv
    <3> QED
      BY <3>1, <3>2
  <2>2. CASE ~PromoteGeneration
    <3>1. published' = published
      BY <1>1, <2>2 DEF RankingNext, rankingVars, Leave, SettleBaseline, refreshEditionRanking, claimBatch,
         valueBatch, advanceTurn, settleLap, dropTurn
    <3> QED
      BY <3>1
  <2> QED
    BY <2>1, <2>2
<1>2. RankingInv /\ [RankingNext]_rankingVars => [Whole]_rankingVars
  BY <1>1
<1> QED
  BY <1>2, RankingInvariance, PTL DEF RankingSpec, BoardIsWholeField

-----------------------------------------------------------------------------
(* The global board: ranks *)

Cell     == [tf : Timeframes, user : Users, return : Int]
RankCell == [tf : Timeframes, user : Users, return : Int, rank : Nat \ {0}]

\* Users are numbered from 1, and their names are ordered.
LEMMA UsersAreNumbers ==
  /\ \A u \in Users : u \in Nat /\ u > 0 /\ NameOf[u] \in Int
  /\ \E n \in Nat : Users = 1..n
BY LeaderboardAssumption, FS_CardinalityType

\* The ranking rule is transitive and never ranks a row before itself.
LEMMA BetterOrders ==
  ASSUME NEW x \in Cell, NEW y \in Cell, NEW z \in Cell
  PROVE  ~Better(x, x) /\ (Better(x, y) /\ Better(y, z) => Better(x, z))
<1>1. /\ x.user \in Nat /\ y.user \in Nat /\ z.user \in Nat
      /\ x.return \in Int /\ y.return \in Int /\ z.return \in Int
      /\ NameOf[x.user] \in Int /\ NameOf[y.user] \in Int /\ NameOf[z.user] \in Int
  BY UsersAreNumbers DEF Cell
<1> QED
  BY <1>1 DEF Better

\* Of two users' rows one comes first.
LEMMA BetterDecides ==
  ASSUME NEW x \in Cell, NEW y \in Cell, x.user # y.user
  PROVE  Better(x, y) \/ Better(y, x)
<1>1. /\ x.user \in Nat /\ y.user \in Nat /\ x.return \in Int /\ y.return \in Int
      /\ NameOf[x.user] \in Int /\ NameOf[y.user] \in Int
  BY UsersAreNumbers DEF Cell
<1> QED
  BY <1>1 DEF Better

\* A better row has the smaller rank: everyone before it is also before the other.
LEMMA BetterRanksAhead ==
  ASSUME NEW rows \in SUBSET Cell, IsFiniteSet(rows), NEW x \in rows, NEW y \in rows,
         x.tf = y.tf, Better(x, y)
  PROVE  rankIn(x, rows) \in Nat \ {0} /\ rankIn(y, rows) \in Nat \ {0} /\ rankIn(x, rows) < rankIn(y, rows)
<1> DEFINE A == {z \in rows : z.tf = x.tf /\ Better(z, x)}
           B == {z \in rows : z.tf = y.tf /\ Better(z, y)}
<1>1. x \in Cell /\ y \in Cell /\ \A z \in rows : z \in Cell
  OBVIOUS
<1>2. A \subseteq B
  <2>1. ASSUME NEW z \in rows, Better(z, x)
        PROVE  Better(z, y)
    BY <1>1, <2>1, BetterOrders
  <2> QED
    BY <2>1
<1>3. x \in B /\ x \notin A
  BY <1>1, BetterOrders
<1>4. IsFiniteSet(A) /\ IsFiniteSet(B)
  BY FS_Subset
<1>5. Cardinality(A) \in Nat /\ Cardinality(B) \in Nat
  BY <1>4, FS_CardinalityType
<1>6. Cardinality(A) <= Cardinality(B) /\ Cardinality(A) # Cardinality(B)
  <2> HIDE DEF A, B
  <2> QED
    BY <1>2, <1>3, <1>4, FS_Subset
<1>7. rankIn(x, rows) = 1 + Cardinality(A) /\ rankIn(y, rows) = 1 + Cardinality(B)
  BY DEF rankIn
<1> HIDE DEF A, B
<1> QED
  BY <1>5, <1>6, <1>7

\* No two users share a rank, and ranks follow returns.
LEMMA RanksFollowReturns ==
  ASSUME NEW rows \in SUBSET Cell, IsFiniteSet(rows), NEW x \in rows, NEW y \in rows,
         x.tf = y.tf, x.user # y.user
  PROVE  /\ rankIn(x, rows) # rankIn(y, rows)
         /\ rankIn(x, rows) < rankIn(y, rows) => x.return >= y.return
<1>1. x \in Cell /\ y \in Cell
  OBVIOUS
<1>2. CASE Better(x, y)
  <2>1. x.return >= y.return
    BY <1>1, <1>2 DEF Better, Cell
  <2> QED
    BY <1>2, <2>1, BetterRanksAhead
<1>3. CASE Better(y, x)
  BY <1>3, BetterRanksAhead
<1> QED
  BY <1>1, <1>2, <1>3, BetterDecides

\* Every row of a finite board has a rank, counted from 1.
LEMMA RankTyped ==
  ASSUME NEW rows, IsFiniteSet(rows), NEW x
  PROVE  rankIn(x, rows) \in Nat \ {0}
<1> DEFINE A == {y \in rows : y.tf = x.tf /\ Better(y, x)}
<1>1. Cardinality(A) \in Nat
  BY FS_Subset, FS_CardinalityType
<1>2. rankIn(x, rows) = 1 + Cardinality(A)
  BY DEF rankIn
<1> HIDE DEF A
<1> QED
  BY <1>1, <1>2

\* What a set of ranked rows owes its readers.
InOrder(board) ==
  \A x, y \in board : x.tf = y.tf /\ x.user # y.user =>
    x.rank # y.rank /\ (x.rank < y.rank => x.return >= y.return)

\* Rows that are ranked by the rule are in order.
LEMMA RankedRowsInOrder ==
  ASSUME NEW rows \in SUBSET Cell, IsFiniteSet(rows)
  PROVE  LET board == {[tf |-> x.tf, user |-> x.user, return |-> x.return, rank |-> rankIn(x, rows)] : x \in rows}
         IN  board \in SUBSET RankCell /\ InOrder(board)
<1> DEFINE ranked(x) == [tf |-> x.tf, user |-> x.user, return |-> x.return, rank |-> rankIn(x, rows)]
           board == {ranked(x) : x \in rows}
<1>1. \A x \in rows : rankIn(x, rows) \in Nat \ {0}
  BY RankTyped
<1>2. board \in SUBSET RankCell
  BY <1>1 DEF Cell, RankCell
<1>3. ASSUME NEW a \in board, NEW b \in board, a.tf = b.tf, a.user # b.user
      PROVE  a.rank # b.rank /\ (a.rank < b.rank => a.return >= b.return)
  <2>1. PICK x \in rows : a = ranked(x)
    OBVIOUS
  <2>2. PICK y \in rows : b = ranked(y)
    OBVIOUS
  <2>3. x.tf = y.tf /\ x.user # y.user
    BY <1>3, <2>1, <2>2
  <2>4. /\ rankIn(x, rows) # rankIn(y, rows)
        /\ rankIn(x, rows) < rankIn(y, rows) => x.return >= y.return
    BY <2>3, RanksFollowReturns
  <2>5. /\ a.rank = rankIn(x, rows) /\ a.return = x.return
        /\ b.rank = rankIn(y, rows) /\ b.return = y.return
    BY <2>1, <2>2
  <2> QED
    BY <2>4, <2>5
<1> QED
  BY <1>2, <1>3 DEF InOrder

-----------------------------------------------------------------------------
(* The global board: what the readers rely on *)

BoardInv ==
  /\ building \in SUBSET Cell /\ IsFiniteSet(building)
  /\ active \in SUBSET RankCell /\ InOrder(active)
  /\ living \in SUBSET Users /\ performance \in [Users -> Performances]

\* The return of a user is a number.
LEMMA RowTyped ==
  ASSUME performance \in [Users -> Performances], NEW u \in Users
  PROVE  Row(u) \in Int /\ performance[u].state \in {"ranked", "paused", "failing"}
BY LeaderboardAssumption DEF Row

\* Writing the rows of a user keeps the rows typed and finitely many.
LEMMA UpsertTyped ==
  ASSUME BoardInv, NEW rows \in SUBSET Cell, IsFiniteSet(rows), NEW u \in Users, NEW tfs \in SUBSET Timeframes
  PROVE  Upsert(rows, u, tfs) \in SUBSET Cell /\ IsFiniteSet(Upsert(rows, u, tfs))
<1> DEFINE cell(tf) == [tf |-> tf, user |-> u, return |-> Row(u)]
           new == {cell(tf) : tf \in tfs}
           f == [tf \in tfs |-> cell(tf)]
<1>1. Row(u) \in Int
  BY RowTyped DEF BoardInv
<1>2. new \in SUBSET Cell
  BY <1>1 DEF Cell
<1>3. IsFiniteSet(tfs)
  BY LeaderboardAssumption, FS_Subset
<1>4. f \in Surjection(tfs, new)
  BY DEF Surjection
<1>5. IsFiniteSet(new)
  <2> HIDE DEF f, new
  <2> QED
    BY <1>3, <1>4, FS_Surjection
<1>6. Delete(rows, u, tfs) \in SUBSET Cell /\ IsFiniteSet(Delete(rows, u, tfs))
  BY FS_Subset DEF Delete
<1>7. Upsert(rows, u, tfs) = Delete(rows, u, tfs) \cup new
  BY DEF Upsert
<1> HIDE DEF new
<1> QED
  BY <1>2, <1>5, <1>6, <1>7, FS_Union

\* Deleting rows of a user keeps the rows typed and finitely many.
LEMMA DeleteTyped ==
  ASSUME NEW rows \in SUBSET Cell, IsFiniteSet(rows), NEW u, NEW tfs
  PROVE  Delete(rows, u, tfs) \in SUBSET Cell /\ IsFiniteSet(Delete(rows, u, tfs))
BY FS_Subset DEF Delete

\* The refresh of one user.
LEMMA RefreshUserTyped ==
  ASSUME BoardInv, NEW r \in Replicas, NEW u \in Users, NEW lost \in SUBSET Timeframes, refreshUser(r, u, lost)
  PROVE  BoardInv'
<1> DEFINE written == Timeframes \ lost
           eligible == {tf \in written : timeframeReturn(u, tf)}
<1>1. /\ active' = active /\ living' = living /\ performance' = performance
      /\ building' \in {building, Delete(building, u, written), refreshRankingRows(building, u, written)}
  BY DEF refreshUser, worldVars
<1>2. refreshRankingRows(building, u, written) = Upsert(Delete(building, u, written), u, eligible)
  BY DEF refreshRankingRows
<1>3. Delete(building, u, written) \in SUBSET Cell /\ IsFiniteSet(Delete(building, u, written))
  BY DeleteTyped DEF BoardInv
<1>4. eligible \in SUBSET Timeframes
  OBVIOUS
<1>5. /\ refreshRankingRows(building, u, written) \in SUBSET Cell
      /\ IsFiniteSet(refreshRankingRows(building, u, written))
  <2> HIDE DEF eligible, written
  <2> QED
    BY <1>2, <1>3, <1>4, UpsertTyped
<1>6. building' \in SUBSET Cell /\ IsFiniteSet(building')
  <2> HIDE DEF written
  <2> QED
    BY <1>1, <1>3, <1>5 DEF BoardInv
<1> QED
  BY <1>1, <1>6 DEF BoardInv, InOrder

\* A promotion ranks the rows of the users who still exist.
LEMMA CompleteCycleTyped ==
  ASSUME BoardInv, CompleteCycle, UNCHANGED worldVars
  PROVE  BoardInv'
<1> DEFINE joined == {x \in building : x.user \in living}
<1>1. joined \in SUBSET Cell /\ IsFiniteSet(joined)
  BY FS_Subset DEF BoardInv
<1>2. active' = {[tf |-> x.tf, user |-> x.user, return |-> x.return, rank |-> rankIn(x, joined)] : x \in joined}
  BY DEF CompleteCycle, Materialized
<1>3. active' \in SUBSET RankCell /\ InOrder(active')
  <2> HIDE DEF joined
  <2> QED
    BY <1>1, <1>2, RankedRowsInOrder
<1>4. building' = {} /\ living' = living /\ performance' = performance
  BY DEF CompleteCycle, worldVars
<1>5. InOrder(active)'
  BY <1>3 DEF InOrder
<1> QED
  BY <1>3, <1>4, <1>5, FS_EmptySet DEF BoardInv

\* Every step of a refresh, of the election and of the users.
LEMMA BoardInvNext ==
  ASSUME BoardInv, [Next]_vars
  PROVE  BoardInv'
<1>1. CASE UNCHANGED <<boardVars, living, performance>>
  BY <1>1 DEF BoardInv, InOrder, boardVars
<1>2. ASSUME NEW r \in Replicas, tryAcquire(r) \/ loseConnection(r) \/ noticeLost(r) \/ restart(r)
      PROVE  BoardInv'
  BY <1>1, <1>2 DEF tryAcquire, loseConnection, noticeLost, restart, worldVars
<1>3. ASSUME NEW r \in Replicas, nextPagedBatch(r) \/ promotionFails(r)
      PROVE  BoardInv'
  BY <1>1, <1>3 DEF nextPagedBatch, promotionFails, worldVars
<1>4. ASSUME NEW r \in Replicas, finishPass(r)
      PROVE  BoardInv'
  <2>1. CASE CompleteCycle
    BY <1>4, <2>1, CompleteCycleTyped DEF finishPass
  <2>2. CASE UNCHANGED boardVars
    BY <1>1, <1>4, <2>2 DEF finishPass, worldVars
  <2> QED
    BY <1>4, <2>1, <2>2 DEF finishPass
<1>5. ASSUME NEW r \in Replicas, NEW u \in Users, NEW lost \in SUBSET Timeframes, refreshUser(r, u, lost)
      PROVE  BoardInv'
  BY <1>5, RefreshUserTyped
<1>6. ASSUME NEW u \in Users, NEW p \in Performances, perform(u, p)
      PROVE  BoardInv'
  BY <1>6 DEF perform, BoardInv, InOrder, boardVars
<1>7. ASSUME NEW u \in Users, deleteUser(u)
      PROVE  BoardInv'
  BY <1>7 DEF deleteUser, BoardInv, InOrder, boardVars
<1>8. CASE UNCHANGED vars
  BY <1>1, <1>8 DEF vars, worldVars
<1> QED
  BY <1>2, <1>3, <1>4, <1>5, <1>6, <1>7, <1>8 DEF Next, RefreshCache

\* The rows under construction and the served rows are always in this shape.
THEOREM BoardInvariance == Spec => []BoardInv
<1>1. Init => BoardInv
  BY FS_EmptySet DEF Init, BoardInv, InOrder
<1>2. BoardInv /\ [Next]_vars => BoardInv'
  BY BoardInvNext
<1> QED
  BY <1>1, <1>2, PTL DEF Spec

-----------------------------------------------------------------------------
(* The global board: the readers agree *)

\* The rows that are computed for a reader are ranked by the same rule.
LEMMA LiveRowsInOrder ==
  ASSUME BoardInv, NEW tf \in Timeframes
  PROVE  rankRows(tf) \in SUBSET RankCell /\ InOrder(rankRows(tf)) /\ \A x \in rankRows(tf) : x.tf = tf
<1> DEFINE present == {v \in living : timeframeReturn(v, tf)}
           cell(u) == [tf |-> tf, user |-> u, return |-> Row(u)]
           rows == {cell(u) : u \in present}
           f == [u \in present |-> cell(u)]
           board == {[tf |-> x.tf, user |-> x.user, return |-> x.return, rank |-> rankIn(x, rows)] : x \in rows}
<1>1. present \in SUBSET Users
  BY DEF BoardInv
<1>2. \A u \in present : Row(u) \in Int
  BY <1>1, RowTyped DEF BoardInv
<1>3. rows \in SUBSET Cell
  BY <1>1, <1>2 DEF Cell
<1>4. IsFiniteSet(present)
  BY <1>1, LeaderboardAssumption, FS_Subset
<1>5. f \in Surjection(present, rows)
  BY DEF Surjection
<1>6. IsFiniteSet(rows)
  <2> HIDE DEF f, rows, present
  <2> QED
    BY <1>4, <1>5, FS_Surjection
<1>7. board \in SUBSET RankCell /\ InOrder(board)
  <2> HIDE DEF rows
  <2> QED
    BY <1>3, <1>6, RankedRowsInOrder
<1>8. \A x \in rows : x.tf = tf
  OBVIOUS
<1>9. rankRows(tf) = IF liveComputeAllowed THEN board ELSE {}
  <2>1. board = {[tf |-> tf, user |-> x.user, return |-> x.return, rank |-> rankIn(x, rows)] : x \in rows}
    <3> HIDE DEF rows
    <3> QED
      BY <1>8
  <2> QED
    BY <2>1 DEF rankRows
<1>10. \A x \in board : x.tf = tf
  <2> HIDE DEF rows
  <2> QED
    BY <1>8
<1> HIDE DEF board
<1> QED
  BY <1>7, <1>9, <1>10 DEF InOrder

\* Only a ranked user has a live rank.
LEMMA LiveRankOfRanked ==
  ASSUME NEW u, NEW tf, LiveRank(u, tf) # 0
  PROVE  Ranked(u)
<1> DEFINE present == {v \in living : timeframeReturn(v, tf)}
           rows == {[tf |-> tf, user |-> v, return |-> Row(v)] : v \in present}
<1>1. PICK y \in rankRows(tf) : y.user = u
  BY DEF LiveRank
<1>2. PICK x \in rows : y.user = x.user
  <2>1. rankRows(tf) \subseteq {[tf |-> tf, user |-> x.user, return |-> x.return, rank |-> rankIn(x, rows)] : x \in rows}
    BY DEF rankRows
  <2> HIDE DEF rows
  <2> QED
    BY <1>1, <2>1
<1>3. x.user \in present
  OBVIOUS
<1> QED
  BY <1>1, <1>2, <1>3 DEF timeframeReturn

\* BuildTimeframe, UserRankings, UserStanding and GetUserRank show one board:
\* ranks are distinct and follow returns, and the rank on a user's own page is
\* the rank of the user's row on the board, if there is one.
THEOREM BoardReadersAgree == Spec => []ReadersAgree
<1>1. ASSUME BoardInv
      PROVE  ReadersAgree
  <2>1. ASSUME NEW tf \in Timeframes, NEW x \in BuildTimeframe(tf), NEW y \in BuildTimeframe(tf), x.user # y.user
        PROVE  x.rank # y.rank /\ (x.rank < y.rank => x.return >= y.return)
    <3>1. CASE useRanking
      <4>1. x \in active /\ y \in active /\ x.tf = y.tf
        BY <2>1, <3>1 DEF BuildTimeframe, buildFromRanking, TopPage, Served
      <4> QED
        BY <1>1, <2>1, <4>1 DEF BoardInv, InOrder
    <3>2. CASE ~useRanking
      BY <1>1, <2>1, <3>2, LiveRowsInOrder DEF BuildTimeframe, InOrder
    <3> QED
      BY <3>1, <3>2
  <2>2. ASSUME NEW u \in living, useRanking, GetUserRank(u) # 0, NEW y \in Served("ALL"), y.user = u
        PROVE  \E x \in UserRankings("ALL") :
                 x.user = u /\ x.rank = GetUserRank(u) /\ x.rank = UserStanding(u, "ALL").rank
    <3> DEFINE mine == {z \in Served("ALL") : z.user = u}
               x == CHOOSE z \in mine : TRUE
    <3>1. x \in Served("ALL") /\ x.user = u
      BY <2>2
    <3>2. x.rank \in Nat \ {0}
      BY <1>1, <3>1 DEF BoardInv, RankCell, Served
    <3>3. RankOf("ALL", u) = x.rank
      BY <2>2 DEF RankOf
    <3>4. x \in UserRankings("ALL")
      BY <2>2, <3>1 DEF UserRankings
    <3> HIDE DEF x, mine
    <3>5. RankOf("ALL", u) # 0
      BY <3>2, <3>3
    <3>6. UserStanding(u, "ALL").rank = x.rank
      BY <2>2, <3>3, <3>5 DEF UserStanding, userStandingFromRanking
    <3>7. Ranked(u)
      BY <2>2, LiveRankOfRanked DEF GetUserRank
    <3>8. GetUserRank(u) = x.rank
      BY <2>2, <3>3, <3>5, <3>7 DEF GetUserRank, Ranked
    <3> QED
      BY <3>1, <3>4, <3>6, <3>8
  <2> QED
    BY <2>1, <2>2 DEF ReadersAgree
<1> QED
  BY <1>1, BoardInvariance, PTL

-----------------------------------------------------------------------------
(* The global board: laps *)

\* Nobody else refreshes: there is one replica, or whoever believes to lead
\* holds the advisory lock.
LockIsKept == (\E r : Replicas = {r}) \/ \A r \in Replicas : leader[r] => r \in lock

\* A replica whose memory holds a part of a lap.
MidLap(r) == cursor[r] # 0 \/ pass[r].busy

LapTypes ==
  /\ lock \in SUBSET Replicas /\ leader \in [Replicas -> BOOLEAN]
  /\ cursor \in [Replicas -> Nat] /\ failedLap \in [Replicas -> BOOLEAN]
  /\ pass \in [Replicas -> [busy : BOOLEAN, todo : SUBSET Users, lap : BOOLEAN]]
  /\ steady \in SUBSET {u \in living : Ranked(u)}

\* Only a leader is in the middle of a lap.
LeadInv ==
  /\ \A r, s \in lock : r = s
  /\ \A r \in lock : leader[r]
  /\ (\E r : Replicas = {r}) \/ \A r \in Replicas : MidLap(r) => leader[r]

HasRows(u) ==
  \A tf \in Timeframes : timeframeReturn(u, tf) => [tf |-> tf, user |-> u, return |-> Row(u)] \in building

\* An idle replica has nothing in hand, and the last page of a lap resets the cursor.
PassShape(r) ==
  /\ ~pass[r].busy => pass[r].todo = {} /\ ~pass[r].lap
  /\ pass[r].lap => cursor[r] = 0

\* Whoever the lap has dealt with and nothing has changed for since the
\* generation began has the rows, or a failed write is remembered.
Covered(r) ==
  ~failedLap[r] => \A u \in steady \ pass[r].todo : u <= cursor[r] \/ pass[r].lap => HasRows(u)

\* The inductive invariant of the laps.
BoardLapInv == LapTypes /\ LeadInv /\ \A r \in Replicas : PassShape(r) /\ Covered(r)

\* While the lock is kept no two replicas are in the middle of a lap.
LEMMA OneLap ==
  ASSUME LeadInv, LockIsKept, NEW r \in Replicas, NEW s \in Replicas, MidLap(r), MidLap(s)
  PROVE  r = s
BY DEF LeadInv, LockIsKept

\* A replica without a part of a lap has passed nobody.
LEMMA IdleCovers ==
  ASSUME LapTypes, NEW r \in Replicas, PassShape(r), ~MidLap(r), steady \in SUBSET Users
  PROVE  Covered(r)
BY UsersAreNumbers DEF LapTypes, PassShape, MidLap, Covered

\* Who is steady exists.
LEMMA SteadyAreUsers ==
  ASSUME BoardInv, LapTypes
  PROVE  steady \in SUBSET Users
BY DEF BoardInv, LapTypes

\* A page of users: the next ones behind the cursor, without a gap, and all
\* that are left if it is short.
LEMMA UserPages ==
  ASSUME BoardInv, NEW c \in Nat
  PROVE  LET batch == ListRankableUsersPage(c, RefreshBatchSize)
             short == Cardinality(batch) < RefreshBatchSize
         IN  /\ batch \in SUBSET Users
             /\ ~short => batch # {} /\ Max(batch) \in batch
             /\ \A u \in living : u > c /\ (short \/ u <= Max(batch)) => u \in batch
<1> DEFINE batch == ListRankableUsersPage(c, RefreshBatchSize)
           short == Cardinality(batch) < RefreshBatchSize
<1>1. PICK n \in Nat : Users = 1..n
  BY UsersAreNumbers
<1>2. living \in SUBSET (1..n) /\ RefreshBatchSize \in Nat /\ RefreshBatchSize \in Nat \ {0}
  BY <1>1, LeaderboardAssumption DEF BoardInv
<1>3. batch = Page(living, c, RefreshBatchSize)
  BY DEF ListRankableUsersPage, Page
<1>4. batch \in SUBSET living
  BY DEF ListRankableUsersPage
<1> HIDE DEF batch
<1>5. batch \in SUBSET (1..n)
  BY <1>2, <1>4
<1>6. ~short => batch # {}
  BY <1>2, <1>3, FullPageHasMembers
<1>7. ~short => Max(batch) \in batch
  BY <1>5, <1>6, GreatestNumber
<1>8. ASSUME NEW u \in living, u > c, short
      PROVE  u \in batch
  BY <1>2, <1>3, <1>8, ShortPageTakesTheRest
<1>9. ASSUME NEW u \in living, u > c, ~short, u <= Max(batch)
      PROVE  u \in batch
  BY <1>2, <1>3, <1>7, <1>9, PageHasNoGap
<1>10. batch \in SUBSET Users
  BY <1>1, <1>5
<1> QED
  BY <1>6, <1>7, <1>8, <1>9, <1>10 DEF batch

\* Rows under construction and performances that stay leave what everyone has.
LEMMA HasRowsStays ==
  ASSUME building' = building, performance' = performance, NEW u
  PROVE  HasRows(u)' <=> HasRows(u)
BY DEF HasRows, timeframeReturn, Ranked, Row

\* Before the first lap.
LEMMA BoardLapInit ==
  ASSUME Init
  PROVE  BoardLapInv
<1>1. LapTypes
  BY DEF Init, LapTypes, NoRefresh, Ranked
<1>2. LeadInv
  BY DEF Init, LeadInv, MidLap, NoRefresh
<1>3. ASSUME NEW r \in Replicas
      PROVE  PassShape(r) /\ Covered(r)
  BY <1>3, UsersAreNumbers DEF Init, PassShape, Covered, NoRefresh
<1> QED
  BY <1>1, <1>2, <1>3 DEF BoardLapInv

\* The election does not touch a lap: a replica that acquires the lock is alone
\* with it, and while the lock is kept nobody loses it in the middle of a lap.
LEMMA ElectionLap ==
  ASSUME BoardLapInv, LockIsKept, NEW r \in Replicas,
         tryAcquire(r) \/ loseConnection(r) \/ noticeLost(r)
  PROVE  BoardLapInv'
<1>1. UNCHANGED <<memoryVars, boardVars, worldVars, steady>>
  BY DEF tryAcquire, loseConnection, noticeLost
<1>2. LapTypes'
  BY <1>1 DEF BoardLapInv, LapTypes, memoryVars, worldVars, Ranked, tryAcquire, loseConnection, noticeLost
<1>3. \A s \in Replicas : (PassShape(s) /\ Covered(s))'
  BY <1>1, HasRowsStays DEF BoardLapInv, PassShape, Covered, memoryVars, boardVars, worldVars
<1>4. \A s \in Replicas : MidLap(s)' <=> MidLap(s)
  BY <1>1 DEF MidLap, memoryVars
<1> DEFINE Lone == \E s : Replicas = {s}
<1>5. (\A s \in lock' : leader'[s]) /\ (\A s, t \in lock' : s = t)
  <2>1. CASE tryAcquire(r)
    BY <2>1 DEF tryAcquire, BoardLapInv, LapTypes
  <2>2. CASE loseConnection(r)
    BY <2>2 DEF loseConnection
  <2>3. CASE noticeLost(r)
    BY <2>3 DEF noticeLost, BoardLapInv, LapTypes, LeadInv
  <2> QED
    BY <2>1, <2>2, <2>3
<1>6. ASSUME ~Lone, NEW s \in Replicas, MidLap(s)
      PROVE  leader'[s]
  <2>1. leader[s] /\ s \in lock
    BY <1>6 DEF BoardLapInv, LeadInv, LockIsKept
  <2>2. CASE tryAcquire(r)
    BY <2>1, <2>2 DEF tryAcquire
  <2>3. CASE loseConnection(r)
    BY <2>1, <2>3 DEF loseConnection
  <2>4. CASE noticeLost(r)
    BY <1>6, <2>4 DEF noticeLost, LockIsKept
  <2> QED
    BY <2>2, <2>3, <2>4
<1>7. LeadInv'
  BY <1>4, <1>5, <1>6 DEF LeadInv
<1> QED
  BY <1>2, <1>3, <1>7 DEF BoardLapInv

\* A restarted replica begins a lap at the first user.
LEMMA RestartLap ==
  ASSUME BoardInv, BoardLapInv, NEW r \in Replicas, restart(r)
  PROVE  BoardLapInv'
<1>1. /\ lock' = lock \ {r} /\ leader' = [leader EXCEPT ![r] = FALSE]
      /\ cursor' = [cursor EXCEPT ![r] = 0] /\ failedLap' = [failedLap EXCEPT ![r] = FALSE]
      /\ pass' = [pass EXCEPT ![r] = NoRefresh]
      /\ UNCHANGED <<boardVars, worldVars, steady>>
  BY DEF restart
<1>2. LapTypes'
  BY <1>1 DEF BoardLapInv, LapTypes, worldVars, Ranked, NoRefresh
<1>3. LeadInv'
  BY <1>1 DEF BoardLapInv, LapTypes, LeadInv, MidLap, NoRefresh
<1>4. \A u \in steady : u \in Nat /\ u > 0
  BY SteadyAreUsers, UsersAreNumbers DEF BoardLapInv
<1>5. ASSUME NEW s \in Replicas
      PROVE  (PassShape(s) /\ Covered(s))'
  <2>1. CASE s = r
    BY <1>1, <1>4, <2>1 DEF BoardLapInv, LapTypes, PassShape, Covered, NoRefresh
  <2>2. CASE s # r
    <3>1. cursor'[s] = cursor[s] /\ failedLap'[s] = failedLap[s] /\ pass'[s] = pass[s]
      BY <1>1, <2>2 DEF BoardLapInv, LapTypes
    <3> QED
      BY <1>1, <3>1, HasRowsStays DEF BoardLapInv, PassShape, Covered, boardVars, worldVars
  <2> QED
    BY <2>1, <2>2
<1> QED
  BY <1>2, <1>3, <1>5 DEF BoardLapInv

\* A page leaves nobody behind the cursor who had no row before: it starts
\* right behind it, and the page that ends a lap takes everyone left.
LEMMA NextPageLap ==
  ASSUME BoardInv, BoardLapInv, NEW r \in Replicas, nextPagedBatch(r)
  PROVE  BoardLapInv'
<1> DEFINE batch == ListRankableUsersPage(cursor[r], RefreshBatchSize)
           short == Cardinality(batch) < RefreshBatchSize
           lap == short /\ (cursor[r] # 0 \/ batch # {})
<1>1. /\ leader[r] /\ ~pass[r].busy
      /\ pass' = [pass EXCEPT ![r] = [busy |-> TRUE, todo |-> batch, lap |-> lap]]
      /\ cursor' = [cursor EXCEPT ![r] = IF short THEN 0 ELSE Max(batch)]
      /\ UNCHANGED <<electionVars, failedLap, boardVars, worldVars, steady>>
  BY DEF nextPagedBatch
<1>2. cursor[r] \in Nat
  BY DEF BoardLapInv, LapTypes
<1>3. /\ batch \in SUBSET Users
      /\ ~short => batch # {} /\ Max(batch) \in batch
      /\ \A u \in living : u > cursor[r] /\ (short \/ u <= Max(batch)) => u \in batch
  BY <1>2, UserPages
<1>4. short \in BOOLEAN /\ lap \in BOOLEAN
  OBVIOUS
<1>5. lap => short
  OBVIOUS
<1>6. short /\ ~lap => batch = {}
  OBVIOUS
<1> HIDE DEF batch, short, lap
<1>7. (IF short THEN 0 ELSE Max(batch)) \in Nat
  BY <1>3, UsersAreNumbers
<1>8. LapTypes'
  BY <1>1, <1>3, <1>4, <1>7 DEF BoardLapInv, LapTypes, worldVars, electionVars, Ranked
<1>9. LeadInv'
  BY <1>1 DEF BoardLapInv, LapTypes, LeadInv, MidLap, electionVars
<1>10. /\ pass'[r].busy /\ pass'[r].todo = batch /\ pass'[r].lap = lap
       /\ cursor'[r] = IF short THEN 0 ELSE Max(batch)
       /\ failedLap' = failedLap /\ steady' = steady
       /\ building' = building /\ performance' = performance
  BY <1>1 DEF BoardLapInv, LapTypes, boardVars, worldVars
<1>11. ASSUME NEW u \in steady, u \notin batch, u <= cursor'[r] \/ lap, ~failedLap[r]
       PROVE  HasRows(u)
  <2>1. u \in living /\ u \in Nat /\ u > 0
    BY SteadyAreUsers, UsersAreNumbers DEF BoardLapInv, LapTypes
  <2>2. u <= cursor[r]
    <3>1. CASE short
      BY <1>2, <1>3, <1>10, <1>11, <2>1, <3>1
    <3>2. CASE ~short
      BY <1>2, <1>3, <1>5, <1>10, <1>11, <2>1, <3>2
    <3> QED
      BY <3>1, <3>2
  <2>3. u \notin pass[r].todo
    BY <1>1 DEF BoardLapInv, PassShape
  <2> QED
    BY <1>11, <2>2, <2>3 DEF BoardLapInv, Covered
<1>12. ASSUME NEW s \in Replicas
       PROVE  (PassShape(s) /\ Covered(s))'
  <2>1. CASE s = r
    <3>1. PassShape(r)'
      BY <1>5, <1>10 DEF PassShape
    <3>2. Covered(r)'
      BY <1>10, <1>11, HasRowsStays DEF Covered
    <3> QED
      BY <2>1, <3>1, <3>2
  <2>2. CASE s # r
    <3>1. cursor'[s] = cursor[s] /\ failedLap'[s] = failedLap[s] /\ pass'[s] = pass[s]
      BY <1>1, <2>2 DEF BoardLapInv, LapTypes
    <3> QED
      BY <1>10, <3>1, HasRowsStays DEF BoardLapInv, PassShape, Covered
  <2> QED
    BY <2>1, <2>2
<1> QED
  BY <1>8, <1>9, <1>12 DEF BoardLapInv

\* The refresh of one user writes the rows of all timeframes the user has a
\* return for, or latches the failure; nobody else's rows are touched.
LEMMA RefreshUserLap ==
  ASSUME BoardInv, BoardLapInv, LockIsKept,
         NEW r \in Replicas, NEW u \in Users, NEW lost \in SUBSET Timeframes, refreshUser(r, u, lost)
  PROVE  BoardLapInv'
<1> DEFINE written == Timeframes \ lost
<1>1. /\ u \in pass[r].todo /\ pass' = [pass EXCEPT ![r].todo = @ \ {u}]
      /\ UNCHANGED <<electionVars, cursor, active, activated, worldVars, steady>>
      /\ \/ performance[u].state = "failing" /\ building' = building /\ failedLap' = failedLap
         \/ performance[u].state = "paused" /\ building' = Delete(building, u, written) /\ failedLap' = failedLap
         \/ /\ Ranked(u) /\ building' = refreshRankingRows(building, u, written)
            /\ failedLap' = [failedLap EXCEPT ![r] = @ \/ lost # {}]
  BY DEF refreshUser, latches
<1>2. /\ pass'[r].todo = pass[r].todo \ {u} /\ pass'[r].busy = pass[r].busy /\ pass'[r].lap = pass[r].lap
      /\ cursor' = cursor /\ performance' = performance /\ living' = living /\ steady' = steady
      /\ lock' = lock /\ leader' = leader
  BY <1>1 DEF BoardLapInv, LapTypes, worldVars, electionVars
<1>3. \A s \in Replicas : s # r => pass'[s] = pass[s] /\ failedLap'[s] = failedLap[s]
  BY <1>1 DEF BoardLapInv, LapTypes
<1>4. LapTypes'
  BY <1>1, <1>2 DEF BoardLapInv, LapTypes, Ranked
<1>5. pass[r].busy
  BY <1>1 DEF BoardLapInv, PassShape
<1>6. LeadInv'
  <2>1. \A s \in Replicas : MidLap(s)' <=> MidLap(s)
    BY <1>2, <1>3 DEF MidLap
  <2> QED
    BY <1>2, <2>1 DEF BoardLapInv, LeadInv
<1>7. \A s \in Replicas : PassShape(s)'
  <2>1. PassShape(r)'
    BY <1>2, <1>5 DEF BoardLapInv, PassShape
  <2>2. \A s \in Replicas : s # r => PassShape(s)'
    BY <1>2, <1>3 DEF BoardLapInv, PassShape
  <2> QED
    BY <2>1, <2>2
\* rows of other users stay
<1>8. ASSUME NEW v \in Users, v # u, HasRows(v)
      PROVE  HasRows(v)'
  <2>1. \A x \in building : x.user # u => x \in building'
    BY <1>1 DEF Delete, refreshRankingRows, Upsert
  <2>2. ASSUME NEW tf \in Timeframes, timeframeReturn(v, tf)
        PROVE  [tf |-> tf, user |-> v, return |-> Row(v)] \in building'
    BY <1>8, <2>1, <2>2 DEF HasRows
  <2> QED
    BY <1>2, <2>2 DEF HasRows, timeframeReturn, Ranked, Row
\* a user in the ranking has the rows, unless a write was lost
<1>9. ASSUME u \in steady, ~failedLap'[r]
      PROVE  HasRows(u)'
  <2>1. Ranked(u)
    BY <1>9 DEF BoardLapInv, LapTypes
  <2>2. building' = refreshRankingRows(building, u, written) /\ lost = {}
    BY <1>1, <1>9, <2>1 DEF Ranked, BoardLapInv, LapTypes
  <2>3. ASSUME NEW tf \in Timeframes, timeframeReturn(u, tf)
        PROVE  [tf |-> tf, user |-> u, return |-> Row(u)] \in building'
    BY <2>2, <2>3 DEF refreshRankingRows, Upsert
  <2> QED
    BY <1>2, <2>3 DEF HasRows, timeframeReturn, Ranked, Row
<1>10. ~failedLap'[r] => ~failedLap[r]
  BY <1>1 DEF BoardLapInv, LapTypes
<1>11. steady \in SUBSET Users
  BY SteadyAreUsers DEF BoardLapInv
<1>12. Covered(r)'
  <2>1. ASSUME ~failedLap'[r], NEW v \in steady, v \notin pass[r].todo \ {u}, v <= cursor[r] \/ pass[r].lap
        PROVE  HasRows(v)'
    <3>1. CASE v = u
      BY <1>9, <2>1, <3>1
    <3>2. CASE v # u
      <4>1. HasRows(v)
        BY <1>10, <2>1, <3>2 DEF BoardLapInv, Covered
      <4> QED
        BY <1>8, <1>11, <3>2, <4>1
    <3> QED
      BY <3>1, <3>2
  <2> QED
    BY <1>2, <2>1 DEF Covered
<1>13. ASSUME NEW s \in Replicas, s # r
       PROVE  Covered(s)'
  <2>1. ~MidLap(s)
    BY <1>5, <1>13, OneLap DEF BoardLapInv, MidLap
  <2>2. ~MidLap(s)'
    BY <1>2, <1>3, <1>13, <2>1 DEF MidLap
  <2>3. pass'[s].lap = FALSE /\ cursor'[s] = 0
    BY <1>2, <1>3, <1>13, <2>1, <1>7, <2>2 DEF MidLap, PassShape, LapTypes, BoardLapInv
  <2>4. \A v \in steady : ~(v <= 0)
    BY <1>11, UsersAreNumbers
  <2> QED
    BY <1>2, <2>3, <2>4 DEF Covered
<1> QED
  BY <1>4, <1>6, <1>7, <1>12, <1>13 DEF BoardLapInv

\* The end of a pass: an idle replica; after a lap the cursor is at the start,
\* and a promotion leaves an empty generation that owes nobody anything.
LEMMA EndOfPassLap ==
  ASSUME BoardInv, BoardLapInv, LockIsKept, NEW r \in Replicas, finishPass(r) \/ promotionFails(r)
  PROVE  BoardLapInv'
<1>1. /\ pass[r].busy /\ pass[r].todo = {} /\ pass' = [pass EXCEPT ![r] = NoRefresh]
      /\ UNCHANGED <<electionVars, cursor, worldVars>>
      /\ \/ CompleteCycle /\ pass[r].lap
         \/ UNCHANGED <<boardVars, steady>>
      /\ failedLap' = failedLap \/ (pass[r].lap /\ failedLap' = [failedLap EXCEPT ![r] = FALSE])
  BY DEF finishPass, promotionFails
<1>2. /\ cursor' = cursor /\ performance' = performance /\ living' = living
      /\ lock' = lock /\ leader' = leader
  BY <1>1 DEF worldVars, electionVars
<1>3. /\ pass'[r] = NoRefresh
      /\ \A s \in Replicas : s # r => pass'[s] = pass[s] /\ failedLap'[s] = failedLap[s]
  BY <1>1 DEF BoardLapInv, LapTypes
<1>4. LapTypes'
  <2>1. steady' \in SUBSET {v \in living : Ranked(v)}
    BY <1>1 DEF CompleteCycle, BoardLapInv, LapTypes
  <2>2. /\ pass' \in [Replicas -> [busy : BOOLEAN, todo : SUBSET Users, lap : BOOLEAN]]
        /\ failedLap' \in [Replicas -> BOOLEAN]
    BY <1>1 DEF BoardLapInv, LapTypes, NoRefresh
  <2> QED
    BY <1>2, <2>1, <2>2 DEF BoardLapInv, LapTypes, Ranked
<1>5. LeadInv'
  <2>1. \A s \in Replicas : MidLap(s)' => MidLap(s)
    BY <1>2, <1>3 DEF MidLap, NoRefresh
  <2> QED
    BY <1>2, <2>1 DEF BoardLapInv, LeadInv
<1>6. \A s \in Replicas : PassShape(s)'
  <2>1. PassShape(r)'
    BY <1>3 DEF PassShape, NoRefresh
  <2> QED
    BY <1>2, <1>3, <2>1 DEF BoardLapInv, PassShape
<1>7. \A v \in steady' : ~(v <= 0)
  <2>1. steady' \subseteq Users
    BY <1>2, <1>4 DEF LapTypes, BoardInv
  <2> QED
    BY <2>1, UsersAreNumbers
<1>8. Covered(r)'
  <2>1. CASE pass[r].lap
    <3>1. cursor'[r] = 0 /\ ~pass'[r].lap
      BY <1>2, <1>3, <2>1 DEF BoardLapInv, PassShape, NoRefresh
    <3> QED
      BY <1>7, <3>1 DEF Covered
  <2>2. CASE ~pass[r].lap
    <3>1. building' = building /\ steady' = steady /\ failedLap' = failedLap
      BY <1>1, <2>2 DEF boardVars
    <3>2. pass'[r].todo = {} /\ ~pass'[r].lap
      BY <1>3 DEF NoRefresh
    <3> QED
      BY <1>1, <1>2, <3>1, <3>2, HasRowsStays DEF BoardLapInv, Covered
  <2> QED
    BY <2>1, <2>2
<1>9. ASSUME NEW s \in Replicas, s # r
      PROVE  Covered(s)'
  <2>1. ~MidLap(s)
    BY <1>1, <1>9, OneLap DEF BoardLapInv, MidLap
  <2>2. ~pass'[s].lap /\ cursor'[s] = 0
    BY <1>2, <1>3, <1>9, <2>1 DEF MidLap, PassShape, LapTypes, BoardLapInv
  <2> QED
    BY <1>7, <2>2 DEF Covered
<1> QED
  BY <1>4, <1>5, <1>6, <1>8, <1>9 DEF BoardLapInv

\* A user who changes or leaves is no longer owed a row; the others have theirs.
LEMMA UserStepLap ==
  ASSUME BoardInv, BoardLapInv, NEW u \in Users, deleteUser(u) \/ \E p \in Performances : perform(u, p)
  PROVE  BoardLapInv'
<1>1. /\ UNCHANGED <<electionVars, memoryVars, boardVars>>
      /\ steady' = steady \ {u} /\ living' \in {living, living \ {u}}
      /\ \A v \in Users : v # u => performance'[v] = performance[v]
  BY DEF deleteUser, perform, BoardInv
<1>2. steady \in SUBSET Users
  BY SteadyAreUsers DEF BoardLapInv
<1>3. LapTypes'
  <2>1. \A v \in steady' : v \in living' /\ Ranked(v)'
    BY <1>1, <1>2 DEF BoardLapInv, LapTypes, Ranked
  <2> QED
    BY <1>1, <2>1 DEF BoardLapInv, LapTypes, electionVars, memoryVars
<1>4. LeadInv'
  BY <1>1 DEF BoardLapInv, LeadInv, MidLap, electionVars, memoryVars
<1>5. ASSUME NEW v \in steady'
      PROVE  v \in steady /\ (HasRows(v)' <=> HasRows(v))
  BY <1>1, <1>2 DEF HasRows, timeframeReturn, Ranked, Row, boardVars
<1>6. ASSUME NEW s \in Replicas
      PROVE  (PassShape(s) /\ Covered(s))'
  BY <1>1, <1>5 DEF BoardLapInv, PassShape, Covered, memoryVars
<1> QED
  BY <1>3, <1>4, <1>6 DEF BoardLapInv

\* While the lock is kept every step keeps the invariant.
LEMMA BoardLapNext ==
  ASSUME BoardInv, BoardLapInv, LockIsKept, [Next]_vars
  PROVE  BoardLapInv'
<1>1. CASE UNCHANGED vars
  <2>1. /\ UNCHANGED <<electionVars, memoryVars, steady, living, performance, building>>
    BY <1>1 DEF vars, worldVars, boardVars
  <2>2. LapTypes' /\ LeadInv'
    BY <2>1 DEF BoardLapInv, LapTypes, LeadInv, MidLap, Ranked, electionVars, memoryVars
  <2> QED
    BY <2>1, <2>2, HasRowsStays DEF BoardLapInv, PassShape, Covered, memoryVars
<1>2. ASSUME NEW r \in Replicas, tryAcquire(r) \/ loseConnection(r) \/ noticeLost(r)
      PROVE  BoardLapInv'
  BY <1>2, ElectionLap
<1>3. ASSUME NEW r \in Replicas, restart(r)
      PROVE  BoardLapInv'
  BY <1>3, RestartLap
<1>4. ASSUME NEW r \in Replicas, nextPagedBatch(r)
      PROVE  BoardLapInv'
  BY <1>4, NextPageLap
<1>5. ASSUME NEW r \in Replicas, finishPass(r) \/ promotionFails(r)
      PROVE  BoardLapInv'
  BY <1>5, EndOfPassLap
<1>6. ASSUME NEW r \in Replicas, NEW u \in Users, NEW lost \in SUBSET Timeframes, refreshUser(r, u, lost)
      PROVE  BoardLapInv'
  BY <1>6, RefreshUserLap
<1>7. ASSUME NEW u \in Users, deleteUser(u) \/ \E p \in Performances : perform(u, p)
      PROVE  BoardLapInv'
  BY <1>7, UserStepLap
<1> QED
  BY <1>1, <1>2, <1>3, <1>4, <1>5, <1>6, <1>7 DEF Next, RefreshCache

\* As long as the lock is kept, laps cover everyone behind their cursor.
THEOREM BoardLapInvariance == Spec /\ []LockIsKept => []BoardLapInv
<1>1. Init => BoardLapInv
  BY BoardLapInit
<1>2. BoardInv /\ LockIsKept /\ BoardLapInv /\ [Next]_vars => BoardLapInv'
  BY BoardLapNext
<1> QED
  BY <1>1, <1>2, BoardInvariance, PTL DEF Spec

\* RefreshCache and CompleteCycle: a promoted board silently omits nobody, as
\* long as a replica that believes to lead holds the advisory lock, or is the
\* only one.  Failed writes, crashes, changes and deletions are all allowed.
THEOREM BoardsOmitNobody == Spec /\ []LockIsKept => BoardOmitsNobody
<1> DEFINE Listed(u, tf) == \E x \in active' : x.tf = tf /\ x.user = u /\ x.return = Row(u)
           Whole == activated' /\ active' # active =>
                      \A u \in steady, tf \in Timeframes : timeframeReturn(u, tf) => Listed(u, tf)
<1>1. ASSUME BoardInv, BoardLapInv, [Next]_vars
      PROVE  Whole
  <2>1. CASE active' = active
    BY <2>1
  <2>2. CASE active' # active
    <3>1. PICK r \in Replicas : finishPass(r)
      BY <1>1, <2>2 DEF Next, RefreshCache, vars, boardVars, tryAcquire, loseConnection, noticeLost, restart,
         nextPagedBatch, promotionFails, refreshUser, perform, deleteUser
    <3>2. pass[r].lap /\ ~failedLap[r] /\ pass[r].todo = {} /\ CompleteCycle
      BY <2>2, <3>1 DEF finishPass, boardVars
    <3>3. ASSUME NEW u \in steady, NEW tf \in Timeframes, timeframeReturn(u, tf)
          PROVE  Listed(u, tf)
      <4> DEFINE joined == {x \in building : x.user \in living}
                 row == [tf |-> tf, user |-> u, return |-> Row(u)]
      <4>1. row \in building
        BY <1>1, <3>2, <3>3 DEF BoardLapInv, Covered, HasRows
      <4>2. u \in living
        BY <1>1 DEF BoardLapInv, LapTypes
      <4>3. row \in joined
        BY <4>1, <4>2
      <4>4. active' = {[tf |-> x.tf, user |-> x.user, return |-> x.return, rank |-> rankIn(x, joined)] : x \in joined}
        BY <3>2 DEF CompleteCycle, Materialized
      <4>5. [tf |-> row.tf, user |-> row.user, return |-> row.return, rank |-> rankIn(row, joined)] \in active'
        <5> HIDE DEF joined, row
        <5> QED
          BY <4>3, <4>4
      <4> QED
        BY <4>5
    <3> QED
      BY <3>3
  <2> QED
    BY <2>1, <2>2
<1>2. BoardInv /\ BoardLapInv /\ [Next]_vars => [Whole]_vars
  BY <1>1
<1> QED
  BY <1>2, BoardInvariance, BoardLapInvariance, PTL DEF Spec, BoardOmitsNobody

-----------------------------------------------------------------------------
(* The register: the invariant *)

AliasRecord == [owner : FIGIs, type : {"ticker", "figi"}, value : Tickers \cup FIGIs, from : Nat, to : Nat]

Resolution == [at : {"idle", "asking", "create", "ticker", "figi", "reopen", "rename"},
               ticker : Tickers \cup {""}, figi : FIGIs \cup {""}]

\* Requests under way know their ticker, and from the answer on their FIGI.
ResolutionInv(r) ==
  /\ resolving[r].at # "idle" => resolving[r].ticker \in Tickers
  /\ resolving[r].at \notin {"idle", "asking"} => resolving[r].figi \in FIGIs

RegisterTypes ==
  /\ date \in Nat \ {0}
  /\ aliases \in SUBSET AliasRecord /\ IsFiniteSet(aliases)
  /\ register \in SUBSET [figi : FIGIs, symbol : Tickers]
  /\ resolving \in [Resolvers -> Resolution]
  /\ records \in [Records -> [symbol : Tickers, on : Nat, instrument : FIGIs \cup {""}]]
  /\ queue \in [Records -> {"none", "pending", "resolved", "rejected"}]

\* A record the backfill resolved had its day behind it, and the register of
\* that day knows one owner of its symbol.
RecordInv(x) ==
  records[x].instrument # "" /\ queue[x] # "resolved" =>
    /\ records[x].on < date
    /\ FindInstrumentByAliasAsOf("ticker", records[x].symbol, records[x].on) = {records[x].instrument}

RegisterInv == RegisterTypes /\ (\A r \in Resolvers : ResolutionInv(r)) /\ \A x \in Records : RecordInv(x)

-----------------------------------------------------------------------------
(* The register: the steps *)

\* What the statements do to the aliases: nothing, a new one from today on, or
\* the end, today, of those of one owner.
AliasStep ==
  \/ aliases' = aliases
  \/ \E owner \in FIGIs, type \in {"ticker", "figi"}, value \in Tickers \cup FIGIs :
       aliases' = aliases \cup {NewAlias(owner, type, value, date)}
  \/ \E owner \in FIGIs : aliases' = CloseAlias(owner, date)

\* No statement changes what a ticker meant on a day that is over.
LEMMA PastStays ==
  ASSUME RegisterTypes, AliasStep, NEW t, NEW d \in Nat, d < date
  PROVE  FindInstrumentByAliasAsOf("ticker", t, d)' = FindInstrumentByAliasAsOf("ticker", t, d)
<1> DEFINE Bears(a) == a.type = "ticker" /\ a.value = t /\ ActiveAt(a, d)
<1>1. FindInstrumentByAliasAsOf("ticker", t, d) = {a.owner : a \in {a \in aliases : Bears(a)}}
  BY DEF FindInstrumentByAliasAsOf
<1>2. FindInstrumentByAliasAsOf("ticker", t, d)' = {a.owner : a \in {a \in aliases' : Bears(a)}}
  BY DEF FindInstrumentByAliasAsOf
<1>3. \A a \in aliases : a \in AliasRecord
  BY DEF RegisterTypes
<1>4. date \in Nat \ {0}
  BY DEF RegisterTypes
<1>5. CASE aliases' = aliases
  BY <1>1, <1>2, <1>5
<1>6. ASSUME NEW owner \in FIGIs, NEW type \in {"ticker", "figi"}, NEW value \in Tickers \cup FIGIs,
             aliases' = aliases \cup {NewAlias(owner, type, value, date)}
      PROVE  FindInstrumentByAliasAsOf("ticker", t, d)' = FindInstrumentByAliasAsOf("ticker", t, d)
  <2>1. ~ActiveAt(NewAlias(owner, type, value, date), d)
    BY <1>4 DEF NewAlias, ActiveAt
  <2>2. {a \in aliases' : Bears(a)} = {a \in aliases : Bears(a)}
    BY <1>6, <2>1
  <2> QED
    BY <1>1, <1>2, <2>2
<1>7. ASSUME NEW owner \in FIGIs, aliases' = CloseAlias(owner, date)
      PROVE  FindInstrumentByAliasAsOf("ticker", t, d)' = FindInstrumentByAliasAsOf("ticker", t, d)
  <2> DEFINE closed(a) == IF a.owner = owner /\ a.type = "ticker" /\ Active(a) THEN [a EXCEPT !.to = date] ELSE a
  <2>1. aliases' = {closed(a) : a \in aliases}
    BY <1>7 DEF CloseAlias
  <2>2. ASSUME NEW a \in aliases
        PROVE  closed(a).owner = a.owner /\ (Bears(closed(a)) <=> Bears(a))
    <3>1. a \in AliasRecord
      BY <1>3
    <3>2. CASE a.owner = owner /\ a.type = "ticker" /\ a.to = 0
      BY <1>4, <3>1, <3>2 DEF AliasRecord, Active, ActiveAt
    <3>3. CASE ~(a.owner = owner /\ a.type = "ticker" /\ a.to = 0)
      BY <3>3 DEF Active
    <3> QED
      BY <3>2, <3>3
  <2> HIDE DEF closed, Bears
  <2>3. {a.owner : a \in {a \in aliases' : Bears(a)}} = {a.owner : a \in {a \in aliases : Bears(a)}}
    BY <2>1, <2>2
  <2> QED
    BY <1>1, <1>2, <2>3
<1> QED
  BY <1>5, <1>6, <1>7 DEF AliasStep

\* Closing keeps the aliases well formed and as many.
LEMMA CloseTyped ==
  ASSUME RegisterTypes, NEW owner \in FIGIs
  PROVE  CloseAlias(owner, date) \in SUBSET AliasRecord /\ IsFiniteSet(CloseAlias(owner, date))
<1> DEFINE closed(a) == IF a.owner = owner /\ a.type = "ticker" /\ Active(a) THEN [a EXCEPT !.to = date] ELSE a
           map == [a \in aliases |-> closed(a)]
<1>1. CloseAlias(owner, date) = {map[a] : a \in aliases}
  BY DEF CloseAlias
<1>2. \A a \in aliases : closed(a) \in AliasRecord
  BY DEF RegisterTypes, AliasRecord
<1> HIDE DEF closed
<1>3. map \in Surjection(aliases, {map[a] : a \in aliases})
  BY DEF Surjection
<1>4. IsFiniteSet({map[a] : a \in aliases})
  BY <1>3, FS_Surjection DEF RegisterTypes
<1> QED
  BY <1>1, <1>2, <1>4

\* Before anything is resolved.
LEMMA RegisterInitInv ==
  ASSUME InstrumentInit
  PROVE  RegisterInv
<1>1. \A n \in 1..LastDate - 1 : n \in Nat
  BY InstrumentAssumption
<1>2. \A x \in Records : records[x].instrument = ""
  BY DEF InstrumentInit
<1>3. records \in [Records -> [symbol : Tickers, on : Nat, instrument : FIGIs \cup {""}]]
  BY <1>1 DEF InstrumentInit
<1>4. NoResolution \in Resolution
  BY DEF NoResolution, Resolution
<1>5. RegisterTypes
  <2>1. IsFiniteSet(aliases)
    BY FS_EmptySet DEF InstrumentInit
  <2>2. resolving \in [Resolvers -> Resolution]
    BY <1>4 DEF InstrumentInit
  <2>3. date = 1 /\ aliases \in SUBSET AliasRecord /\ register \in SUBSET [figi : FIGIs, symbol : Tickers]
    BY Zenon DEF InstrumentInit
  <2>4. queue \in [Records -> {"none", "pending", "resolved", "rejected"}]
    BY DEF InstrumentInit
  <2>5. date \in Nat \ {0}
    BY <2>3
  <2> QED
    BY <1>3, <2>1, <2>2, <2>3, <2>4, <2>5, Zenon DEF RegisterTypes
<1> QED
  BY <1>2, <1>5 DEF InstrumentInit, RegisterInv, ResolutionInv, RecordInv, NoResolution

\* A request that is answered, or goes on to its next statement.
LEMMA ResolutionTyped ==
  ASSUME RegisterInv, NEW r \in Resolvers, NEW me \in Resolution,
         me.at # "idle" => me.ticker \in Tickers, me.at \notin {"idle", "asking"} => me.figi \in FIGIs,
         resolving' = [resolving EXCEPT ![r] = me]
  PROVE  resolving' \in [Resolvers -> Resolution] /\ \A s \in Resolvers : ResolutionInv(s)'
<1>1. resolving' \in [Resolvers -> Resolution] /\ resolving'[r] = me /\ \A s \in Resolvers \ {r} : resolving'[s] = resolving[s]
  BY DEF RegisterInv, RegisterTypes
<1> QED
  BY <1>1 DEF RegisterInv, ResolutionInv

\* The statements of a request: the aliases they write, and where they leave it.
LEMMA RequestMoves ==
  ASSUME RegisterInv, NEW r \in Resolvers,
         \/ createInstrument(r) \/ createAliases(r) \/ openNewTicker(r) \/ UpdateInstrumentSymbol(r) \/ stop(r)
         \/ \E candidates \in SUBSET FIGIs : providerAnswers(r, candidates)
         \/ \E t \in Tickers : ResolveDetailedAt(r, t) \/ \E i \in register : ChangeTicker(r, i, t)
  PROVE  /\ AliasStep
         /\ register' \in SUBSET [figi : FIGIs, symbol : Tickers]
         /\ resolving' \in [Resolvers -> Resolution] /\ \A s \in Resolvers : ResolutionInv(s)'
<1> DEFINE me == resolving[r]
           Goal == /\ AliasStep
                   /\ register' \in SUBSET [figi : FIGIs, symbol : Tickers]
                   /\ resolving' \in [Resolvers -> Resolution] /\ \A s \in Resolvers : ResolutionInv(s)'
<1> SUFFICES Goal
  OBVIOUS
<1>1. me \in Resolution /\ register \in SUBSET [figi : FIGIs, symbol : Tickers]
  BY DEF RegisterInv, RegisterTypes
<1>2. /\ me.at # "idle" => me.ticker \in Tickers
      /\ me.at \notin {"idle", "asking"} => me.figi \in FIGIs
  BY DEF RegisterInv, ResolutionInv
<1>3. NoResolution \in Resolution /\ NoResolution.at = "idle"
  BY DEF NoResolution, Resolution
<1>4. ASSUME answerTo(r)
      PROVE  resolving' \in [Resolvers -> Resolution] /\ \A s \in Resolvers : ResolutionInv(s)'
  BY <1>3, <1>4, ResolutionTyped DEF answerTo
<1>5. ASSUME NEW at \in {"ticker", "figi", "rename"}, me.at \notin {"idle", "asking"}, stepTo(r, at)
      PROVE  resolving' \in [Resolvers -> Resolution] /\ \A s \in Resolvers : ResolutionInv(s)'
  <2> DEFINE next == [me EXCEPT !.at = at]
  <2>1. next \in Resolution /\ next.ticker = me.ticker /\ next.figi = me.figi
    BY <1>1 DEF Resolution
  <2>2. resolving' = [resolving EXCEPT ![r] = next]
    BY <1>5 DEF stepTo
  <2> HIDE DEF next
  <2> QED
    BY <1>2, <1>5, <2>1, <2>2, ResolutionTyped
<1>6. CASE createInstrument(r)
  <2>1. aliases' = aliases /\ register' \in SUBSET [figi : FIGIs, symbol : Tickers]
    BY <1>1, <1>2, <1>6 DEF createInstrument, CreateInstrument
  <2> QED
    BY <1>4, <1>5, <1>6, <2>1 DEF createInstrument, AliasStep
<1>7. CASE createAliases(r)
  <2>1. AliasStep /\ register' = register
    BY <1>1, <1>2, <1>7 DEF createAliases, AliasStep
  <2> QED
    BY <1>1, <1>4, <1>5, <1>7, <2>1 DEF createAliases
<1>8. CASE openNewTicker(r)
  <2>1. AliasStep /\ register' = register
    BY <1>1, <1>2, <1>8 DEF openNewTicker, AliasStep
  <2> QED
    BY <1>1, <1>4, <1>5, <1>8, <2>1 DEF openNewTicker
<1>9. CASE UpdateInstrumentSymbol(r)
  <2>1. aliases' = aliases /\ answerTo(r)
    BY <1>9 DEF UpdateInstrumentSymbol
  <2>2. \A i \in register : i \in [figi : FIGIs, symbol : Tickers] /\ [i EXCEPT !.symbol = me.ticker] \in [figi : FIGIs, symbol : Tickers]
    BY <1>1, <1>2, <1>9 DEF UpdateInstrumentSymbol
  <2>3. register' \in SUBSET [figi : FIGIs, symbol : Tickers]
    BY <1>9, <2>2 DEF UpdateInstrumentSymbol
  <2> QED
    BY <1>4, <2>1, <2>3 DEF AliasStep
<1>10. CASE stop(r)
  BY <1>1, <1>4, <1>10 DEF stop, AliasStep
<1>11. ASSUME NEW candidates \in SUBSET FIGIs, providerAnswers(r, candidates)
       PROVE  Goal
  <2>1. aliases' = aliases /\ register' = register /\ me.at = "asking"
    BY <1>11 DEF providerAnswers
  <2>2. ASSUME NEW figi \in candidates, resolving' = [resolving EXCEPT ![r].at = "create", ![r].figi = figi]
        PROVE  resolving' \in [Resolvers -> Resolution] /\ \A s \in Resolvers : ResolutionInv(s)'
    <3> DEFINE asked == [me EXCEPT !.at = "create"]
               next  == [asked EXCEPT !.figi = figi]
    <3>1. asked \in Resolution /\ asked.ticker = me.ticker /\ asked.at = "create"
      BY <1>1 DEF Resolution
    <3>2. next \in Resolution /\ next.ticker = me.ticker /\ next.figi = figi
      BY <3>1 DEF Resolution
    <3>3. resolving' = [[resolving EXCEPT ![r] = asked] EXCEPT ![r] = next]
      BY <2>2 DEF RegisterInv, RegisterTypes
    <3> HIDE DEF asked, next
    <3>4. resolving' = [resolving EXCEPT ![r] = next]
      BY <3>3 DEF RegisterInv, RegisterTypes
    <3> QED
      BY <1>2, <2>1, <3>2, <3>4, ResolutionTyped
  <2> QED
    BY <1>1, <1>4, <1>11, <2>1, <2>2 DEF providerAnswers, AliasStep
<1>12. ASSUME NEW t \in Tickers, ResolveDetailedAt(r, t)
       PROVE  Goal
  <2> DEFINE next == [at |-> "asking", ticker |-> t, figi |-> ""]
  <2>1. next \in Resolution
    BY DEF Resolution
  <2>2. resolving' = [resolving EXCEPT ![r] = next]
    BY <1>12 DEF ResolveDetailedAt
  <2> QED
    BY <1>1, <1>12, <2>1, <2>2, ResolutionTyped DEF ResolveDetailedAt, AliasStep
<1>13. ASSUME NEW t \in Tickers, NEW i \in register, ChangeTicker(r, i, t)
       PROVE  Goal
  <2> DEFINE next == [at |-> "reopen", ticker |-> t, figi |-> i.figi]
  <2>1. next \in Resolution /\ i.figi \in FIGIs
    BY <1>1 DEF Resolution
  <2>2. resolving' = [resolving EXCEPT ![r] = next] /\ aliases' = CloseAlias(i.figi, date) /\ register' = register
    BY <1>13 DEF ChangeTicker
  <2> QED
    BY <1>1, <2>1, <2>2, ResolutionTyped DEF AliasStep
<1> QED
  BY <1>6, <1>7, <1>8, <1>9, <1>10, <1>11, <1>12, <1>13

\* What a statement of a request does to the aliases, the types follow.
LEMMA AliasesTyped ==
  ASSUME RegisterTypes, AliasStep
  PROVE  aliases' \in SUBSET AliasRecord /\ IsFiniteSet(aliases')
<1>1. CASE aliases' = aliases
  BY <1>1 DEF RegisterTypes
<1>2. ASSUME NEW owner \in FIGIs, NEW type \in {"ticker", "figi"}, NEW value \in Tickers \cup FIGIs,
             aliases' = aliases \cup {NewAlias(owner, type, value, date)}
      PROVE  aliases' \in SUBSET AliasRecord /\ IsFiniteSet(aliases')
  <2>1. NewAlias(owner, type, value, date) \in AliasRecord
    BY DEF RegisterTypes, NewAlias, AliasRecord
  <2> QED
    BY <1>2, <2>1, FS_AddElement DEF RegisterTypes
<1>3. CASE \E owner \in FIGIs : aliases' = CloseAlias(owner, date)
  BY <1>3, CloseTyped
<1> QED
  BY <1>1, <1>2, <1>3 DEF AliasStep

\* Records the backfill has resolved stay right while nobody touches them.
LEMMA RecordsStay ==
  ASSUME RegisterInv, AliasStep, date' = date, NEW x \in Records, records'[x] = records[x], queue'[x] = queue[x]
  PROVE  RecordInv(x)'
<1>1. records[x].on \in Nat
  BY DEF RegisterInv, RegisterTypes
<1>2. records[x].on < date =>
        FindInstrumentByAliasAsOf("ticker", records[x].symbol, records[x].on)'
          = FindInstrumentByAliasAsOf("ticker", records[x].symbol, records[x].on)
  <2>1. ASSUME NEW t, NEW d \in Nat, d < date
        PROVE  FindInstrumentByAliasAsOf("ticker", t, d)' = FindInstrumentByAliasAsOf("ticker", t, d)
    BY <2>1, PastStays DEF RegisterInv
  <2> QED
    BY <1>1, <2>1 DEF FindInstrumentByAliasAsOf
<1> QED
  BY <1>2 DEF RegisterInv, RecordInv

\* The backfill takes the one owner of the record's day.
LEMMA BackfillInv ==
  ASSUME RegisterInv, NEW x \in Records, resolveOne(x)
  PROVE  RegisterInv'
<1> DEFINE owner == ResolveTickerAsOf(records[x].symbol, records[x].on)
           found == IF owner = {} THEN "" ELSE CHOOSE f \in owner : TRUE
           matching == {a \in aliases : a.type = "ticker" /\ a.value = records[x].symbol /\ ActiveAt(a, records[x].on)}
           owners == FindInstrumentByAliasAsOf("ticker", records[x].symbol, records[x].on)
<1>1. /\ records' = [records EXCEPT ![x].instrument = found]
      /\ queue' = IF owner = {} THEN [queue EXCEPT ![x] = IF @ = "none" THEN "pending" ELSE @] ELSE queue
      /\ records[x].on < date
      /\ date' = date /\ register' = register /\ aliases' = aliases /\ resolving' = resolving
  BY DEF resolveOne
<1>2. IsFiniteSet(matching) /\ matching \subseteq AliasRecord
  BY FS_Subset DEF RegisterInv, RegisterTypes
<1>3. IsFiniteSet(owners) /\ owners \subseteq FIGIs
  <2> DEFINE map == [a \in matching |-> a.owner]
  <2>1. map \in Surjection(matching, {map[a] : a \in matching})
    BY DEF Surjection
  <2>2. owners = {map[a] : a \in matching}
    BY DEF FindInstrumentByAliasAsOf
  <2>3. owners \subseteq FIGIs
    BY <1>2, <2>2 DEF AliasRecord
  <2> HIDE DEF map, owners, matching
  <2> QED
    BY <1>2, <2>1, <2>2, <2>3, FS_Surjection
<1>4. owner # {} => owners = {found}
  <2> SUFFICES ASSUME owner # {}
               PROVE  owners = {found}
    OBVIOUS
  <2>1. Cardinality(owners) = 1 /\ owner = owners
    BY DEF ResolveTickerAsOf, Only
  <2>2. PICK f \in owners : owners = {f}
    <3> HIDE DEF owners
    <3>1. PICK f \in owners : TRUE
      BY <2>1
    <3>2. IsFiniteSet(owners \ {f}) /\ Cardinality(owners \ {f}) = 0
      BY <1>3, <2>1, FS_RemoveElement
    <3>3. owners \ {f} = {}
      BY <3>2, FS_EmptySet
    <3> QED
      BY <3>1, <3>3
  <2> QED
    BY <2>1, <2>2
<1>5. found \in FIGIs \cup {""}
  BY <1>3, <1>4
<1> HIDE DEF found, owners, owner
<1>6. /\ records' \in [Records -> [symbol : Tickers, on : Nat, instrument : FIGIs \cup {""}]]
      /\ records'[x].symbol = records[x].symbol /\ records'[x].on = records[x].on /\ records'[x].instrument = found
      /\ \A y \in Records \ {x} : records'[y] = records[y]
  BY <1>1, <1>5 DEF RegisterInv, RegisterTypes
<1>7. /\ queue' \in [Records -> {"none", "pending", "resolved", "rejected"}]
      /\ \A y \in Records \ {x} : queue'[y] = queue[y]
  BY <1>1 DEF RegisterInv, RegisterTypes
<1>8. RegisterTypes' /\ \A r \in Resolvers : ResolutionInv(r)'
  BY <1>1, <1>6, <1>7 DEF RegisterInv, RegisterTypes, ResolutionInv
<1>9. owners = FindInstrumentByAliasAsOf("ticker", records[x].symbol, records[x].on)'
  BY <1>1 DEF owners, FindInstrumentByAliasAsOf
<1>10. RecordInv(x)'
  <2>1. CASE owner = {}
    BY <1>6, <2>1 DEF RecordInv, found
  <2>2. CASE owner # {}
    BY <1>1, <1>4, <1>6, <1>9, <2>2 DEF RecordInv, FindInstrumentByAliasAsOf
  <2> QED
    BY <2>1, <2>2
<1>11. \A y \in Records \ {x} : RecordInv(y)'
  BY <1>1, <1>6, <1>7, RecordsStay DEF AliasStep
<1> QED
  BY <1>8, <1>10, <1>11 DEF RegisterInv

\* An administrator decides on a record under review.
LEMMA ReviewInv ==
  ASSUME RegisterInv, NEW x \in Records,
         RejectReconciliation(x) \/ \E i \in register : ResolveReconciliation(x, i)
  PROVE  RegisterInv'
<1>1. date' = date /\ register' = register /\ aliases' = aliases /\ resolving' = resolving
  BY DEF RejectReconciliation, ResolveReconciliation
<1>2. \A i \in register : i.figi \in FIGIs
  BY DEF RegisterInv, RegisterTypes
<1>3. /\ records' \in [Records -> [symbol : Tickers, on : Nat, instrument : FIGIs \cup {""}]]
      /\ \A y \in Records \ {x} : records'[y] = records[y]
      /\ queue' \in [Records -> {"none", "pending", "resolved", "rejected"}]
      /\ \A y \in Records \ {x} : queue'[y] = queue[y]
      /\ queue'[x] = "resolved" \/ (records' = records /\ queue[x] = "pending" /\ queue'[x] = "rejected")
  <2>1. CASE RejectReconciliation(x)
    BY <2>1 DEF RejectReconciliation, RegisterInv, RegisterTypes
  <2>2. ASSUME NEW i \in register, ResolveReconciliation(x, i)
        PROVE  /\ records' \in [Records -> [symbol : Tickers, on : Nat, instrument : FIGIs \cup {""}]]
               /\ \A y \in Records \ {x} : records'[y] = records[y]
               /\ queue' \in [Records -> {"none", "pending", "resolved", "rejected"}]
               /\ \A y \in Records \ {x} : queue'[y] = queue[y]
               /\ queue'[x] = "resolved"
    BY <1>2, <2>2 DEF ResolveReconciliation, RegisterInv, RegisterTypes
  <2> QED
    BY <2>1, <2>2
<1>4. RegisterTypes' /\ \A r \in Resolvers : ResolutionInv(r)'
  BY <1>1, <1>3 DEF RegisterInv, RegisterTypes, ResolutionInv
<1>5. \A y \in Records \ {x} : RecordInv(y)'
  BY <1>1, <1>3, RecordsStay DEF AliasStep
<1>6. RecordInv(x)'
  BY <1>1, <1>3 DEF RegisterInv, RecordInv, FindInstrumentByAliasAsOf
<1> QED
  BY <1>4, <1>5, <1>6 DEF RegisterInv

\* Every statement keeps the invariant.
LEMMA RegisterInvNext ==
  ASSUME RegisterInv, [InstrumentNext]_instrumentVars
  PROVE  RegisterInv'
<1>1. CASE UNCHANGED instrumentVars \/ nextDate
  <2>1. /\ register' = register /\ aliases' = aliases /\ resolving' = resolving /\ records' = records /\ queue' = queue
        /\ date' = date \/ date' = date + 1
    BY <1>1 DEF nextDate, instrumentVars
  <2>2. date \in Nat \ {0} /\ date' \in Nat \ {0} /\ date' >= date
    <3>1. date \in Nat /\ date # 0
      BY DEF RegisterInv, RegisterTypes
    <3> QED
      BY <2>1, <3>1
  <2>3. RegisterTypes' /\ \A r \in Resolvers : ResolutionInv(r)'
    BY <2>1, <2>2 DEF RegisterInv, RegisterTypes, ResolutionInv
  <2>4. \A x \in Records : records[x].on \in Nat /\ RecordInv(x)
    BY DEF RegisterInv, RegisterTypes
  <2>5. ASSUME NEW x \in Records
        PROVE  RecordInv(x)'
    <3>1. records[x].on < date => records[x].on < date'
      BY <2>2, <2>4
    <3> QED
      BY <2>1, <2>4, <3>1 DEF RecordInv, FindInstrumentByAliasAsOf
  <2> QED
    BY <2>3, <2>5 DEF RegisterInv
<1>2. ASSUME NEW r \in Resolvers,
             \/ createInstrument(r) \/ createAliases(r) \/ openNewTicker(r) \/ UpdateInstrumentSymbol(r) \/ stop(r)
             \/ \E candidates \in SUBSET FIGIs : providerAnswers(r, candidates)
             \/ \E t \in Tickers : ResolveDetailedAt(r, t) \/ \E i \in register : ChangeTicker(r, i, t)
      PROVE  RegisterInv'
  <2>1. date' = date /\ records' = records /\ queue' = queue
    BY <1>2 DEF createInstrument, createAliases, openNewTicker, UpdateInstrumentSymbol, stop, providerAnswers,
       ResolveDetailedAt, ChangeTicker
  <2>2. /\ AliasStep
        /\ register' \in SUBSET [figi : FIGIs, symbol : Tickers]
        /\ resolving' \in [Resolvers -> Resolution] /\ \A s \in Resolvers : ResolutionInv(s)'
    BY <1>2, RequestMoves
  <2>3. aliases' \in SUBSET AliasRecord /\ IsFiniteSet(aliases')
    BY <2>2, AliasesTyped DEF RegisterInv
  <2>4. \A x \in Records : RecordInv(x)'
    BY <2>1, <2>2, RecordsStay
  <2> QED
    BY <2>1, <2>2, <2>3, <2>4 DEF RegisterInv, RegisterTypes
<1>3. CASE \E x \in Records : resolveOne(x) \/ RejectReconciliation(x) \/ \E i \in register : ResolveReconciliation(x, i)
  BY <1>3, BackfillInv, ReviewInv
<1> QED
  BY <1>1, <1>2, <1>3 DEF InstrumentNext

\* The invariant holds of the register in every behaviour.
THEOREM RegisterInvariance == InstrumentSpec => []RegisterInv
<1> QED
  BY RegisterInitInv, RegisterInvNext, PTL DEF InstrumentSpec

-----------------------------------------------------------------------------
(* The register: the results *)

\* ChangeTicker, createAliases and the backfill keep what a ticker meant on every
\* day that is over, for any number of resolvers that interleave or stop half way.
THEOREM HistoryIsKept == InstrumentSpec => HistoryStaysResolvable
<1>1. RegisterInv /\ [InstrumentNext]_instrumentVars =>
        [\A t \in Tickers, d \in 1..LastDate :
           d < date => FindInstrumentByAliasAsOf("ticker", t, d)' = FindInstrumentByAliasAsOf("ticker", t, d)]_instrumentVars
  <2> SUFFICES ASSUME RegisterInv, InstrumentNext, NEW t \in Tickers, NEW d \in 1..LastDate, d < date
               PROVE  FindInstrumentByAliasAsOf("ticker", t, d)' = FindInstrumentByAliasAsOf("ticker", t, d)
    OBVIOUS
  <2>1. AliasStep
    BY RequestMoves DEF InstrumentNext, nextDate, resolveOne, RejectReconciliation, ResolveReconciliation, AliasStep
  <2>2. d \in Nat
    BY InstrumentAssumption
  <2> QED
    BY <2>1, <2>2, PastStays DEF RegisterInv
<1> QED
  BY <1>1, RegisterInvariance, PTL DEF InstrumentSpec, HistoryStaysResolvable

\* What resolveOne assigned by itself is what the register says of the record's
\* day, also after the ticker moved to another instrument.
THEOREM BackfillsHold == InstrumentSpec => []BackfilledMatchesHistory
<1>1. RegisterInv => BackfilledMatchesHistory
  BY DEF RegisterInv, RecordInv, BackfilledMatchesHistory
<1> QED
  BY <1>1, RegisterInvariance, PTL

-----------------------------------------------------------------------------
(* Quotes: the invariant, for the Twelve Data wiring *)

\* How old a quote may be where the service still calls it fresh.
Shelf == Min({QuoteCacheTTL, QuoteStaleAfter})

Quote == [symbol : Symbols, seen : Nat, fetched : Nat, expires : Nat, stale : BOOLEAN]

Entry == [quote : Quote, expiresAt : Nat, storedAt : Nat]

Inquiry == [at : {"idle", "read", "ask", "waiting", "store"}, symbols : SUBSET Symbols, have : SUBSET Quote,
            missing : SUBSET Symbols, got : SUBSET Quote, through : {"api", "front"}, begun : Nat]

MarketTypes ==
  /\ now \in Nat
  /\ quotes \in SUBSET Quote
  /\ front \in [Symbols -> SUBSET Entry]
  /\ request \in [Callers -> Inquiry]

\* What the provider answered was seen in the market when it was fetched.
Honest(q) == q.seen = q.fetched /\ q.expires = q.fetched + QuoteCacheTTL /\ q.seen <= now

\* The front cache keeps an answer as old as a request may hand it over.
EntryInv(e) ==
  /\ e.expiresAt = e.storedAt + FrontTTL
  /\ ~e.quote.stale => e.storedAt <= e.quote.seen + Shelf + Timeout

\* A request in time has fetched what it has since it began, and what it found
\* fresh was fresh when it looked.
InquiryInv(c) ==
  request[c].at # "idle" =>
    /\ request[c].begun <= now /\ now <= request[c].begun + Timeout
    /\ \A q \in request[c].have : ~q.stale => request[c].begun <= q.seen + Shelf
    /\ \A q \in request[c].got : Honest(q) /\ request[c].begun <= q.seen

MarketInv ==
  Chain = "twelvedata" =>
    /\ MarketTypes
    /\ \A q \in quotes : Honest(q)
    /\ \A s \in Symbols : \A e \in front[s] : EntryInv(e)
    /\ \A c \in Callers : InquiryInv(c)
    /\ FreshMeansRecent

-----------------------------------------------------------------------------
(* Quotes: the steps *)

\* The shelf life is one of the two limits.
LEMMA ShelfIsALimit == Shelf \in Nat /\ Shelf \in {QuoteCacheTTL, QuoteStaleAfter} /\ {QuoteCacheTTL, FrontTTL, Timeout} \subseteq Nat
<1>1. QuoteCacheTTL \in Nat /\ QuoteStaleAfter \in Nat /\ FrontTTL \in Nat /\ Timeout \in Nat
  BY MarketDataAssumption
<1>2. \E x \in {QuoteCacheTTL, QuoteStaleAfter} : \A y \in {QuoteCacheTTL, QuoteStaleAfter} : x <= y
  <2>1. CASE QuoteCacheTTL <= QuoteStaleAfter
    BY <1>1, <2>1
  <2>2. CASE QuoteStaleAfter <= QuoteCacheTTL
    BY <1>1, <2>2
  <2> QED
    BY <1>1, <2>1, <2>2
<1>3. Shelf \in {QuoteCacheTTL, QuoteStaleAfter}
  BY <1>2 DEF Shelf, Min
<1> QED
  BY <1>1, <1>3

\* What is handed over is unmarked only within the times to live and the
\* timeout.
LEMMA HandGood ==
  ASSUME Chain = "twelvedata", Chain' = Chain, now \in Nat, NEW q \in Quote, Hand(q),
         ~q.stale => now <= q.seen + Shelf + FrontTTL + Timeout
  PROVE  FreshMeansRecent'
<1>1. Freshness' = Shelf + FrontTTL + Timeout + 0
  BY DEF Freshness, Shelf
<1>2. q.seen \in Nat /\ Shelf \in Nat /\ FrontTTL \in Nat /\ Timeout \in Nat
  BY ShelfIsALimit DEF Quote
<1>3. \A p \in served' : p.age = now - q.seen /\ p.stale = q.stale
  BY DEF Hand
<1>4. ~q.stale => now - q.seen <= Shelf + FrontTTL + Timeout + 0
  BY <1>2
<1> QED
  BY <1>1, <1>3, <1>4 DEF FreshMeansRecent

\* A caller's next step: its request is in time and what it holds is good.
LEMMA InquiryTyped ==
  ASSUME MarketInv, Chain = "twelvedata", now' = now, NEW c \in Callers, NEW me \in Inquiry,
         request' = [request EXCEPT ![c] = me],
         me.at # "idle" =>
           /\ me.begun <= now /\ now <= me.begun + Timeout
           /\ \A q \in me.have : ~q.stale => me.begun <= q.seen + Shelf
           /\ \A q \in me.got : Honest(q) /\ me.begun <= q.seen
  PROVE  request' \in [Callers -> Inquiry] /\ \A d \in Callers : InquiryInv(d)'
<1>1. request' \in [Callers -> Inquiry] /\ request'[c] = me /\ \A d \in Callers \ {c} : request'[d] = request[d]
  BY DEF MarketInv, MarketTypes
<1> QED
  BY <1>1 DEF MarketInv, InquiryInv, Honest

\* NoRequest is an idle one.
LEMMA NoRequestTyped == NoRequest \in Inquiry /\ NoRequest.at = "idle" /\ NoRequest.have = {} /\ NoRequest.got = {}
BY DEF NoRequest, Inquiry

\* A step that leaves time and caches alone keeps what they hold.
LEMMA AnswerInv ==
  ASSUME MarketInv, Chain = "twelvedata", Chain' = Chain, now' = now, quotes' \in SUBSET Quote,
         \A q \in quotes' : Honest(q), NEW c \in Callers,
         \/ request' = [request EXCEPT ![c] = NoRequest]
         \/ request' \in [Callers -> Inquiry] /\ \A d \in Callers : InquiryInv(d)',
         front' \in [Symbols -> SUBSET Entry], \A s \in Symbols : \A e \in front'[s] : EntryInv(e),
         FreshMeansRecent'
  PROVE  MarketInv'
<1>1. request' \in [Callers -> Inquiry] /\ \A d \in Callers : InquiryInv(d)'
  BY InquiryTyped, NoRequestTyped
<1> QED
  BY <1>1 DEF MarketInv, MarketTypes, Honest, EntryInv

\* Service.GetLatestPrice answers, and the decorator keeps the answer.
LEMMA RespondInv ==
  ASSUME MarketInv, Chain = "twelvedata", Chain' = Chain, now' = now, quotes' \in SUBSET Quote,
         \A q \in quotes' : Honest(q), NEW c \in Callers, NEW answer \in SUBSET Quote, respond(c, answer),
         \A q \in answer : ~q.stale => now <= q.seen + Shelf + Timeout
  PROVE  MarketInv'
<1>1. now \in Nat /\ front \in [Symbols -> SUBSET Entry] /\ \A s \in Symbols : \A e \in front[s] : EntryInv(e)
  BY DEF MarketInv, MarketTypes
<1>2. PICK q \in answer : Hand(q) /\ (front' = front \/ front' = SetEntry(front, q.symbol, q, FrontTTL))
  BY DEF respond
<1>3. q \in Quote /\ q.symbol \in Symbols /\ q.seen \in Nat
  BY <1>2 DEF Quote
<1>4. Shelf \in Nat /\ FrontTTL \in Nat /\ Timeout \in Nat
  BY ShelfIsALimit
<1>5. ~q.stale => now <= q.seen + Shelf + FrontTTL + Timeout
  BY <1>1, <1>2, <1>3, <1>4
<1>6. FreshMeansRecent'
  BY <1>1, <1>2, <1>3, <1>5, HandGood
<1>7. front' \in [Symbols -> SUBSET Entry] /\ \A s \in Symbols : \A e \in front'[s] : EntryInv(e)
  <2>1. CASE front' = front
    BY <1>1, <2>1
  <2>2. CASE front' = SetEntry(front, q.symbol, q, FrontTTL)
    <3> DEFINE entry == [quote |-> q, expiresAt |-> now + FrontTTL, storedAt |-> now]
    <3>1. entry \in Entry /\ EntryInv(entry)
      BY <1>1, <1>2, <1>3, <1>4 DEF Entry, EntryInv
    <3>2. front' = [front EXCEPT ![q.symbol] = {entry}]
      BY <2>2 DEF SetEntry
    <3> HIDE DEF entry
    <3> QED
      BY <1>1, <1>3, <3>1, <3>2
  <2> QED
    BY <1>2, <2>1, <2>2
<1> QED
  BY <1>6, <1>7, AnswerInv DEF respond

\* Or it has none, and the decorator falls back to its last known price, marked.
LEMMA RefuseInv ==
  ASSUME MarketInv, Chain = "twelvedata", Chain' = Chain, now' = now, quotes' = quotes, NEW c \in Callers, refuse(c)
  PROVE  MarketInv'
<1>1. /\ now \in Nat /\ quotes \in SUBSET Quote /\ \A q \in quotes : Honest(q)
      /\ front \in [Symbols -> SUBSET Entry] /\ \A s \in Symbols : \A e \in front[s] : EntryInv(e)
      /\ request[c] \in Inquiry
  BY DEF MarketInv, MarketTypes
<1>2. front' = front /\ request' = [request EXCEPT ![c] = NoRequest]
  BY DEF refuse
<1>3. served' = served \/ \E e \in UNION {GetStale(front, s) : s \in request[c].symbols} : Hand(frozen(e.quote))
  BY DEF refuse
<1>4. FreshMeansRecent'
  <2>1. CASE served' = served
    BY <2>1 DEF MarketInv, FreshMeansRecent, Freshness
  <2>2. ASSUME NEW s \in request[c].symbols, NEW e \in GetStale(front, s), Hand(frozen(e.quote))
        PROVE  FreshMeansRecent'
    <3>1. s \in Symbols /\ e.quote \in Quote
      BY <1>1, <2>2 DEF Inquiry, GetStale, Entry
    <3>2. frozen(e.quote) \in Quote /\ frozen(e.quote).stale
      BY <3>1 DEF frozen, Quote
    <3> QED
      BY <1>1, <2>2, <3>2, HandGood
  <2> QED
    BY <1>3, <2>1, <2>2
<1> QED
  BY <1>1, <1>2, <1>4, AnswerInv

\* The provider failed: what was held is handed over if that is allowed, the
\* missing ones marked.
LEMMA FailedInv ==
  ASSUME MarketInv, Chain = "twelvedata", Chain' = Chain, now' = now, quotes' = quotes, NEW c \in Callers,
         request[c].at # "idle", failed(c)
  PROVE  MarketInv'
<1> DEFINE answer == {IF q.symbol \in request[c].missing THEN markStale(q) ELSE q : q \in request[c].have}
<1>1. refuse(c) \/ respond(c, answer)
  BY DEF failed
<1>2. /\ now \in Nat /\ quotes \in SUBSET Quote /\ \A q \in quotes : Honest(q)
      /\ request[c].have \in SUBSET Quote /\ request[c].begun \in Nat /\ Shelf \in Nat /\ Timeout \in Nat
  BY ShelfIsALimit DEF MarketInv, MarketTypes, Inquiry
<1>3. /\ now <= request[c].begun + Timeout
      /\ \A q \in request[c].have : ~q.stale => request[c].begun <= q.seen + Shelf
  BY DEF MarketInv, InquiryInv
<1>4. \A q \in Quote : markStale(q) \in Quote /\ markStale(q).stale /\ q.seen \in Nat
  BY DEF markStale, Quote
<1>5. answer \in SUBSET Quote /\ \A q \in answer : ~q.stale => now <= q.seen + Shelf + Timeout
  BY <1>2, <1>3, <1>4
<1> HIDE DEF answer
<1> QED
  BY <1>1, <1>2, <1>5, RefuseInv, RespondInv

\* A caller asks for quotes, or for a price the front cache may still hold.
LEMMA BeginInv ==
  ASSUME MarketInv, Chain = "twelvedata", NEW c \in Callers,
         (\E batch \in SUBSET Symbols : Quotes(c, batch)) \/ \E s \in Symbols : GetLatestPrice(c, s)
  PROVE  MarketInv'
<1>1. /\ now \in Nat /\ quotes \in SUBSET Quote /\ (\A q \in quotes : Honest(q)) /\ FreshMeansRecent
      /\ front \in [Symbols -> SUBSET Entry] /\ \A s \in Symbols : \A e \in front[s] : EntryInv(e)
      /\ request \in [Callers -> Inquiry] /\ \A d \in Callers : InquiryInv(d)
  BY DEF MarketInv, MarketTypes
<1>2. Chain' = Chain /\ now' = now /\ quotes' = quotes /\ front' = front
  BY DEF Quotes, GetLatestPrice, configuration
<1>3. Shelf \in Nat /\ FrontTTL \in Nat /\ Timeout \in Nat
  BY ShelfIsALimit
<1>4. ASSUME NEW batch \in SUBSET Symbols, NEW through \in {"api", "front"}, begin(c, batch, through), served' = served
      PROVE  MarketInv'
  <2> DEFINE me == [NoRequest EXCEPT !.at = "read", !.symbols = batch, !.through = through, !.begun = now]
  <2>1. me \in Inquiry /\ me.begun = now /\ me.have = {} /\ me.got = {}
    BY <1>1, NoRequestTyped DEF Inquiry
  <2>2. request' = [request EXCEPT ![c] = me]
    BY <1>4 DEF begin
  <2> HIDE DEF me
  <2>3. now <= now /\ now <= now + Timeout
    BY <1>1, <1>3
  <2>4. request' \in [Callers -> Inquiry] /\ \A d \in Callers : InquiryInv(d)'
    BY <1>2, <2>1, <2>2, <2>3, InquiryTyped
  <2>5. FreshMeansRecent'
    BY <1>1, <1>2, <1>4 DEF FreshMeansRecent, Freshness
  <2> QED
    BY <1>1, <1>2, <2>4, <2>5, AnswerInv
<1>5. ASSUME NEW s \in Symbols, NEW e \in Get(front, s), Hand(e.quote), request' = request
      PROVE  MarketInv'
  <2>1. e \in Entry /\ EntryInv(e) /\ now <= e.expiresAt
    BY <1>1, <1>5 DEF Get
  <2>2. e.quote \in Quote /\ e.storedAt \in Nat /\ e.quote.seen \in Nat
    BY <2>1 DEF Entry, Quote
  <2>3. ~e.quote.stale => now <= e.quote.seen + Shelf + FrontTTL + Timeout
    BY <1>1, <1>3, <2>1, <2>2 DEF EntryInv
  <2>4. FreshMeansRecent'
    BY <1>1, <1>2, <1>5, <2>2, <2>3, HandGood
  <2>5. \A d \in Callers : InquiryInv(d)'
    BY <1>1, <1>2, <1>5 DEF InquiryInv, Honest
  <2> QED
    BY <1>1, <1>2, <1>5, <2>4, <2>5, AnswerInv
<1> QED
  BY <1>4, <1>5 DEF Quotes, GetLatestPrice

\* Stored quotes within both limits are fresh; those beyond are asked for.
LEMMA ReadQuotesInv ==
  ASSUME MarketInv, Chain = "twelvedata", NEW c \in Callers, readQuotes(c)
  PROVE  MarketInv'
<1> DEFINE held  == {q \in quotes : q.symbol \in request[c].symbols}
           have  == {IF IsStale(q) THEN markStale(q) ELSE q : q \in held}
           fresh == {q \in have : ~q.stale}
           missing == {s \in request[c].symbols : Of(fresh, s) = {}}
<1>1. /\ now \in Nat /\ quotes \in SUBSET Quote /\ (\A q \in quotes : Honest(q)) /\ FreshMeansRecent
      /\ front \in [Symbols -> SUBSET Entry] /\ \A s \in Symbols : \A e \in front[s] : EntryInv(e)
      /\ request[c] \in Inquiry /\ request[c].at = "read"
  BY DEF MarketInv, MarketTypes, readQuotes
<1>2. Chain' = Chain /\ now' = now /\ quotes' = quotes
  BY DEF readQuotes, configuration
<1>3. Shelf \in Nat /\ Shelf \in {QuoteCacheTTL, QuoteStaleAfter} /\ Timeout \in Nat /\ QuoteCacheTTL \in Nat
  BY ShelfIsALimit
<1>4. request[c].begun \in Nat /\ request[c].begun <= now /\ now <= request[c].begun + Timeout
  BY <1>1 DEF MarketInv, InquiryInv, Inquiry
<1>5. \A q \in quotes : ~IsStale(q) => now <= q.seen + Shelf
  BY <1>1, <1>3 DEF IsStale, Honest, Quote
<1>6. \A q \in Quote : markStale(q) \in Quote /\ markStale(q).stale /\ q.seen \in Nat
  BY DEF markStale, Quote
<1>7. have \in SUBSET Quote /\ \A q \in have : ~q.stale => now <= q.seen + Shelf
  BY <1>1, <1>5, <1>6
<1>8. missing \in SUBSET Symbols
  BY <1>1 DEF Inquiry
<1>9. CASE missing = {}
  <2>1. respond(c, fresh)
    BY <1>9 DEF readQuotes
  <2>2. fresh \in SUBSET Quote /\ \A q \in fresh : ~q.stale => now <= q.seen + Shelf + Timeout
    BY <1>1, <1>3, <1>6, <1>7
  <2> HIDE DEF fresh, have, missing
  <2> QED
    BY <1>1, <1>2, <2>1, <2>2, RespondInv
<1>10. CASE missing # {}
  <2>1. /\ request' = [request EXCEPT ![c].at = "ask", ![c].have = have, ![c].missing = missing]
        /\ front' = front /\ served' = served
    BY <1>10 DEF readQuotes
  <2> HIDE DEF missing, have
  <2> DEFINE me == request[c]
             me1 == [me EXCEPT !.at = "ask"]
             me2 == [me1 EXCEPT !.have = have]
             me3 == [me2 EXCEPT !.missing = missing]
  <2>2. me1 \in Inquiry /\ me1.begun = me.begun /\ me1.got = me.got
    BY <1>1 DEF Inquiry
  <2>3. me2 \in Inquiry /\ me2.begun = me.begun /\ me2.got = me.got /\ me2.have = have
    BY <1>7, <2>2 DEF Inquiry
  <2>4. me3 \in Inquiry /\ me3.begun = me.begun /\ me3.got = me.got /\ me3.have = have
    BY <1>8, <2>3 DEF Inquiry
  <2>5. request' = [[[request EXCEPT ![c] = me1] EXCEPT ![c] = me2] EXCEPT ![c] = me3]
    BY <2>1 DEF MarketInv, MarketTypes
  <2> HIDE DEF me1, me2, me3
  <2>6. request' = [request EXCEPT ![c] = me3]
    BY <2>5 DEF MarketInv, MarketTypes
  <2>7. \A q \in have : ~q.stale => me.begun <= q.seen + Shelf
    BY <1>1, <1>3, <1>4, <1>6, <1>7
  <2>8. \A q \in me.got : Honest(q) /\ me.begun <= q.seen
    BY <1>1 DEF MarketInv, InquiryInv
  <2>9. request' \in [Callers -> Inquiry] /\ \A d \in Callers : InquiryInv(d)'
    BY <1>2, <1>4, <2>4, <2>6, <2>7, <2>8, InquiryTyped
  <2>10. FreshMeansRecent'
    BY <1>1, <1>2, <2>1 DEF FreshMeansRecent, Freshness
  <2> QED
    BY <1>1, <1>2, <2>1, <2>9, <2>10, AnswerInv
<1> QED
  BY <1>9, <1>10

\* The request goes out, and the answer comes in, with prices of now.
LEMMA AskInv ==
  ASSUME MarketInv, Chain = "twelvedata", NEW c \in Callers,
         askTwelveData(c) \/ \E found \in SUBSET request[c].missing : answered(c, found)
  PROVE  MarketInv'
<1>1. /\ now \in Nat /\ quotes \in SUBSET Quote /\ (\A q \in quotes : Honest(q)) /\ FreshMeansRecent
      /\ front \in [Symbols -> SUBSET Entry] /\ \A s \in Symbols : \A e \in front[s] : EntryInv(e)
      /\ request \in [Callers -> Inquiry] /\ request[c] \in Inquiry /\ \A d \in Callers : InquiryInv(d)
  BY DEF MarketInv, MarketTypes
<1>2. Chain' = Chain /\ now' = now /\ quotes' = quotes /\ request[c].at # "idle"
  BY DEF askTwelveData, answered, configuration
<1>3. request[c].begun \in Nat /\ request[c].begun <= now /\ QuoteCacheTTL \in Nat
  BY <1>1, <1>2, ShelfIsALimit DEF InquiryInv, Inquiry
<1>4. ASSUME NEW me \in Inquiry, request' = [request EXCEPT ![c] = me], front' = front, served' = served,
             me.begun = request[c].begun, me.have = request[c].have,
             \A q \in me.got : Honest(q) /\ me.begun <= q.seen
      PROVE  MarketInv'
  <2>1. request' \in [Callers -> Inquiry] /\ \A d \in Callers : InquiryInv(d)'
    BY <1>1, <1>2, <1>4, InquiryTyped DEF InquiryInv
  <2>2. FreshMeansRecent'
    BY <1>1, <1>2, <1>4 DEF FreshMeansRecent, Freshness
  <2> QED
    BY <1>1, <1>2, <1>4, <2>1, <2>2, AnswerInv
<1>5. CASE askTwelveData(c)
  <2>1. failed(c) \/ (request' = [request EXCEPT ![c].at = "waiting"] /\ front' = front /\ served' = served)
    BY <1>5 DEF askTwelveData
  <2>2. ASSUME request' = [request EXCEPT ![c].at = "waiting"], front' = front, served' = served
        PROVE  MarketInv'
    <3> DEFINE me == [request[c] EXCEPT !.at = "waiting"]
    <3>1. me \in Inquiry /\ me.begun = request[c].begun /\ me.have = request[c].have /\ me.got = request[c].got
      BY <1>1 DEF Inquiry
    <3>2. request' = [request EXCEPT ![c] = me]
      BY <2>2
    <3> HIDE DEF me
    <3> QED
      BY <1>1, <1>2, <1>4, <2>2, <3>1, <3>2 DEF InquiryInv
  <2> QED
    BY <1>2, <2>1, <2>2, FailedInv
<1>6. ASSUME NEW found \in SUBSET request[c].missing, answered(c, found)
      PROVE  MarketInv'
  <2> DEFINE got == {QuoteOf(s, now) : s \in found}
             me1 == [request[c] EXCEPT !.at = "store"]
             me2 == [me1 EXCEPT !.got = got]
  <2>1. \A s \in Symbols : QuoteOf(s, now) \in Quote /\ Honest(QuoteOf(s, now)) /\ QuoteOf(s, now).seen = now
    BY <1>1, <1>3 DEF QuoteOf, Quote, Honest
  <2>2. got \in SUBSET Quote /\ \A q \in got : Honest(q) /\ request[c].begun <= q.seen
    BY <1>1, <1>3, <2>1 DEF Inquiry
  <2>3. me1 \in Inquiry /\ me1.begun = request[c].begun /\ me1.have = request[c].have
    BY <1>1 DEF Inquiry
  <2> HIDE DEF got
  <2>4. me2 \in Inquiry /\ me2.begun = request[c].begun /\ me2.have = request[c].have /\ me2.got = got
    BY <2>2, <2>3 DEF Inquiry
  <2>5. request' = [[request EXCEPT ![c] = me1] EXCEPT ![c] = me2] /\ front' = front /\ served' = served
    BY <1>1, <1>6 DEF answered, got
  <2> HIDE DEF me1, me2
  <2>6. request' = [request EXCEPT ![c] = me2]
    BY <1>1, <2>5
  <2> QED
    BY <1>4, <2>2, <2>4, <2>5, <2>6
<1> QED
  BY <1>5, <1>6

\* What was fetched is stored, and handed over with what was held.
LEMMA StoreInv ==
  ASSUME MarketInv, Chain = "twelvedata", NEW c \in Callers, storeQuotes(c)
  PROVE  MarketInv'
<1> DEFINE got == request[c].got
           answer == {q \in request[c].have : Of(got, q.symbol) = {}} \cup got
<1>1. /\ now \in Nat /\ quotes \in SUBSET Quote /\ (\A q \in quotes : Honest(q))
      /\ request[c].have \in SUBSET Quote /\ got \in SUBSET Quote /\ request[c].begun \in Nat
      /\ Shelf \in Nat /\ Timeout \in Nat
  BY ShelfIsALimit DEF MarketInv, MarketTypes, Inquiry
<1>2. /\ now <= request[c].begun + Timeout
      /\ \A q \in request[c].have : ~q.stale => request[c].begun <= q.seen + Shelf
      /\ \A q \in got : Honest(q) /\ request[c].begun <= q.seen
  BY DEF MarketInv, InquiryInv, storeQuotes
<1>3. Chain' = Chain /\ now' = now /\ quotes' \subseteq quotes \cup got /\ respond(c, answer)
  BY DEF storeQuotes, UpsertQuotes, configuration
<1>4. \A q \in Quote : q.seen \in Nat
  BY DEF Quote
<1>5. answer \in SUBSET Quote /\ \A q \in answer : ~q.stale => now <= q.seen + Shelf + Timeout
  BY <1>1, <1>2, <1>4
<1> HIDE DEF answer
<1> QED
  BY <1>1, <1>2, <1>3, <1>5, RespondInv

\* The clock moves only while every request is within its timeout, and what was
\* handed over is forgotten.
LEMMA TimeInv ==
  ASSUME MarketInv, Chain = "twelvedata", timePasses
  PROVE  MarketInv'
<1>1. /\ now \in Nat /\ now' = now + 1 /\ served' = {}
      /\ quotes' = quotes /\ front' = front /\ request' = request
      /\ \A c \in Callers : request[c].at = "idle" \/ now - request[c].begun < Timeout
  BY DEF timePasses, MarketInv, MarketTypes, Idle
<1>2. Timeout \in Nat /\ \A c \in Callers : request[c].begun \in Nat
  BY ShelfIsALimit DEF MarketInv, MarketTypes, Inquiry
<1>3. quotes \in SUBSET Quote /\ \A q \in Quote : q.seen \in Nat
  BY DEF MarketInv, MarketTypes, Quote
<1>4. \A q \in Quote : Honest(q) => Honest(q)'
  BY <1>1, <1>3 DEF Honest
<1>5. ASSUME NEW c \in Callers
      PROVE  InquiryInv(c)'
  <2> SUFFICES ASSUME request[c].at # "idle"
               PROVE  InquiryInv(c)'
    BY <1>1 DEF InquiryInv
  <2>1. InquiryInv(c) /\ request[c].got \in SUBSET Quote
    BY DEF MarketInv, MarketTypes, Inquiry
  <2>2. request[c].begun <= now' /\ now' <= request[c].begun + Timeout
    BY <1>1, <1>2, <2>1 DEF InquiryInv
  <2> QED
    BY <1>1, <1>4, <2>1, <2>2 DEF InquiryInv
<1>6. MarketTypes' /\ FreshMeansRecent'
  BY <1>1 DEF MarketInv, MarketTypes, FreshMeansRecent
<1>7. (\A q \in quotes' : Honest(q)') /\ \A s \in Symbols : \A e \in front'[s] : EntryInv(e)'
  BY <1>1, <1>3, <1>4 DEF MarketInv, EntryInv
<1> QED
  BY <1>5, <1>6, <1>7 DEF MarketInv

\* Searches and histories only share the limiter with the quotes.
LEMMA MarketInvNext ==
  ASSUME MarketInv, [MarketNext]_marketVars
  PROVE  MarketInv'
<1>1. CASE Chain # "twelvedata"
  <2>1. Chain' = Chain
    BY DEF MarketNext, marketVars, configuration, timePasses, SearchInstruments, fullSeries, readQuotes,
       askTwelveData, failing, tooManyRequests, storeQuotes, Quotes, GetLatestPrice, answered, askYahoo
  <2> QED
    BY <1>1, <2>1 DEF MarketInv
<1>2. CASE Chain = "twelvedata"
  <2>1. ASSUME (\E found \in SUBSET Symbols : SearchInstruments(found)) \/ fullSeries \/ UNCHANGED marketVars
        PROVE  MarketInv'
    <3>1. /\ Chain' = Chain /\ now' = now /\ quotes' = quotes /\ front' = front
          /\ request' = request /\ served' = served
      BY <2>1 DEF SearchInstruments, fullSeries, marketVars, configuration
    <3> QED
      BY <3>1 DEF MarketInv, MarketTypes, Honest, EntryInv, InquiryInv, FreshMeansRecent, Freshness
  <2>2. ASSUME NEW c \in Callers, failing(c) \/ tooManyRequests(c)
        PROVE  MarketInv'
    <3>1. failed(c) /\ request[c].at # "idle" /\ Chain' = Chain /\ now' = now /\ quotes' = quotes
      BY <2>2 DEF failing, tooManyRequests, configuration
    <3> QED
      BY <1>2, <3>1, FailedInv
  <2>3. \A c \in Callers : \A up \in SUBSET request[c].missing : ~askYahoo(c, up)
    BY <1>2 DEF askYahoo
  <2> QED
    BY <1>2, <2>1, <2>2, <2>3, TimeInv, BeginInv, ReadQuotesInv, AskInv, StoreInv DEF MarketNext
<1> QED
  BY <1>1, <1>2

\* Service and decorator together, over the Twelve Data client: a price that is
\* not marked stale was seen within the times to live and one request's timeout,
\* through stored quotes, both caches and the fallbacks of each.
THEOREM UnmarkedPricesAreRecent == MarketSpec => []FreshMeansRecent
<1>1. MarketInit => MarketInv
  BY NoRequestTyped DEF MarketInit, MarketInv, MarketTypes, InquiryInv, FreshMeansRecent
<1>2. MarketInv => FreshMeansRecent
  BY DEF MarketInv, FreshMeansRecent
<1> QED
  BY <1>1, <1>2, MarketInvNext, PTL DEF MarketSpec

-----------------------------------------------------------------------------
(* The provider's budget: counting requests *)

Ticks == 1..LastTick

\* Of finitely many requests each set of instants has finitely many.
LEMMA SentFinite ==
  ASSUME NEW c \in [Ticks -> Nat], IsFiniteSet(SentAt(c, Ticks)), NEW T \in SUBSET Ticks
  PROVE  IsFiniteSet(SentAt(c, T)) /\ SumCalls(c, T) \in Nat
<1>1. SentAt(c, T) \subseteq SentAt(c, Ticks)
  BY DEF SentAt
<1> QED
  BY <1>1, FS_Subset, FS_CardinalityType DEF SumCalls

\* Requests counted in two sets of instants, which leave out instants without any.
LEMMA SentCovered ==
  ASSUME NEW c \in [Ticks -> Nat], IsFiniteSet(SentAt(c, Ticks)),
         NEW T \in SUBSET Ticks, NEW U \in SUBSET Ticks, NEW V \in SUBSET Ticks,
         \A t \in T : t \in U \/ t \in V \/ c[t] = 0
  PROVE  SumCalls(c, T) <= SumCalls(c, U) + SumCalls(c, V)
<1>1. IsFiniteSet(SentAt(c, U)) /\ IsFiniteSet(SentAt(c, V)) /\ IsFiniteSet(SentAt(c, T))
  BY SentFinite
<1> DEFINE W == SentAt(c, U) \cup SentAt(c, V)
<1>2. SentAt(c, T) \subseteq W
  <2> SUFFICES ASSUME NEW x \in SentAt(c, T)
               PROVE  x \in W
    OBVIOUS
  <2>1. PICK t \in T : x \in {t} \X (1..c[t])
    BY DEF SentAt
  <2>2. c[t] # 0
    BY <2>1
  <2>3. CASE t \in U
    BY <2>1, <2>3 DEF SentAt
  <2>4. CASE t \in V
    BY <2>1, <2>4 DEF SentAt
  <2> QED
    BY <2>2, <2>3, <2>4
<1>3. IsFiniteSet(W) /\ Cardinality(W) = Cardinality(SentAt(c, U)) + Cardinality(SentAt(c, V)) - Cardinality(SentAt(c, U) \cap SentAt(c, V))
  BY <1>1, FS_Union
<1>4. Cardinality(SentAt(c, U) \cap SentAt(c, V)) \in Nat
  BY <1>1, FS_Intersection, FS_CardinalityType
<1>5. Cardinality(SentAt(c, T)) <= Cardinality(W)
  BY <1>2, <1>3, FS_Subset
<1>6. Cardinality(SentAt(c, U)) \in Nat /\ Cardinality(SentAt(c, V)) \in Nat /\ Cardinality(SentAt(c, T)) \in Nat
  BY <1>1, FS_CardinalityType
<1> HIDE DEF W
<1> QED
  BY <1>3, <1>4, <1>5, <1>6 DEF SumCalls

\* No requests, none counted.
LEMMA SentNone ==
  ASSUME NEW c \in [Ticks -> Nat], NEW T \in SUBSET Ticks, \A t \in T : c[t] = 0
  PROVE  SumCalls(c, T) = 0
<1>1. SentAt(c, T) = {}
  BY DEF SentAt
<1> QED
  BY <1>1, FS_EmptySet DEF SumCalls

\* One more request, at n.
OneMore(c, n) == [c EXCEPT ![n] = @ + 1]

\* One more request counts where its instant does.
LEMMA SentOnce ==
  ASSUME NEW c \in [Ticks -> Nat], IsFiniteSet(SentAt(c, Ticks)), NEW n \in Ticks, NEW T \in SUBSET Ticks
  PROVE  /\ OneMore(c, n) \in [Ticks -> Nat] /\ IsFiniteSet(SentAt(OneMore(c, n), Ticks))
         /\ n \in T => SumCalls(OneMore(c, n), T) = SumCalls(c, T) + 1
         /\ n \notin T => SumCalls(OneMore(c, n), T) = SumCalls(c, T)
<1> DEFINE d == OneMore(c, n)  x == <<n, c[n] + 1>>
<1>1. d \in [Ticks -> Nat] /\ d[n] = c[n] + 1 /\ \A t \in Ticks \ {n} : d[t] = c[t]
  BY DEF OneMore
<1> HIDE DEF d
<1>2. 1..(c[n] + 1) = 1..c[n] \cup {c[n] + 1} /\ c[n] + 1 \notin 1..c[n]
  OBVIOUS
<1>3. \A S \in SUBSET Ticks : n \notin S => SentAt(d, S) = SentAt(c, S)
  <2> SUFFICES ASSUME NEW S \in SUBSET Ticks, n \notin S
               PROVE  SentAt(d, S) = SentAt(c, S)
    OBVIOUS
  <2>1. \A t \in S : d[t] = c[t]
    BY <1>1
  <2> QED
    BY <2>1 DEF SentAt
<1>4. \A S \in SUBSET Ticks : n \in S => SentAt(d, S) = SentAt(c, S) \cup {x} /\ x \notin SentAt(c, S)
  <2> SUFFICES ASSUME NEW S \in SUBSET Ticks, n \in S
               PROVE  SentAt(d, S) = SentAt(c, S) \cup {x} /\ x \notin SentAt(c, S)
    OBVIOUS
  <2>1. SentAt(d, S) = SentAt(d, S \ {n}) \cup ({n} \X (1..d[n]))
    BY DEF SentAt
  <2>2. SentAt(c, S) = SentAt(c, S \ {n}) \cup ({n} \X (1..c[n]))
    BY DEF SentAt
  <2>3. SentAt(d, S \ {n}) = SentAt(c, S \ {n})
    BY <1>3
  <2>4. {n} \X (1..d[n]) = ({n} \X (1..c[n])) \cup {x} /\ x \notin {n} \X (1..c[n])
    BY <1>1, <1>2
  <2>5. x \notin SentAt(c, S \ {n})
    BY DEF SentAt
  <2> QED
    BY <2>1, <2>2, <2>3, <2>4, <2>5
<1>5. IsFiniteSet(SentAt(c, T)) /\ SumCalls(c, T) \in Nat
  BY SentFinite
<1>6. IsFiniteSet(SentAt(d, Ticks))
  <2>1. SentAt(d, Ticks) = SentAt(c, Ticks) \cup {x}
    BY <1>4
  <2> HIDE DEF x
  <2>2. IsFiniteSet(SentAt(c, Ticks) \cup {x})
    BY FS_AddElement
  <2> QED
    BY <2>1, <2>2
<1>7. ASSUME n \in T
      PROVE  SumCalls(d, T) = SumCalls(c, T) + 1
  <2>1. SentAt(d, T) = SentAt(c, T) \cup {x} /\ x \notin SentAt(c, T)
    BY <1>4, <1>7
  <2> HIDE DEF x
  <2>2. Cardinality(SentAt(c, T) \cup {x}) = Cardinality(SentAt(c, T)) + 1
    BY <1>5, <2>1, FS_AddElement
  <2> QED
    BY <2>1, <2>2 DEF SumCalls
<1>8. n \notin T => SumCalls(d, T) = SumCalls(c, T)
  BY <1>3 DEF SumCalls
<1> QED
  BY <1>1, <1>6, <1>7, <1>8 DEF d

\* A later instant is not of an earlier day.
LEMMA DaysGoOn ==
  ASSUME NEW t \in Nat, NEW u \in Nat, t <= u
  PROVE  dayOf(t) \in Nat /\ dayOf(u) \in Nat /\ dayOf(t) <= dayOf(u)
<1>1. Day \in Nat \ {0}
  BY MarketDataAssumption
<1>2. /\ dayOf(t) \in Nat /\ Day * dayOf(t) <= t /\ t < Day * (dayOf(t) + 1)
      /\ dayOf(u) \in Nat /\ Day * dayOf(u) <= u /\ u < Day * (dayOf(u) + 1)
  BY <1>1 DEF dayOf
<1> DEFINE x == dayOf(t)  y == dayOf(u)
<1> HIDE DEF x, y
<1>3. x \in Nat /\ y \in Nat /\ Day * x < Day * (y + 1)
  BY <1>1, <1>2 DEF x, y
<1>4. x < y + 1
  BY <1>1, <1>3
<1> QED
  BY <1>3, <1>4 DEF x, y

-----------------------------------------------------------------------------
(* The provider's budget: the limiter *)

\* What the limiter l knows at n of the requests c, before any of them is forgotten:
\* none lies ahead, outside the minute or after the day it counts; those of the
\* minute and of the day are at most as many as it counted; and those of the minute
\* before were at most a window's worth.
Counted(c, n, l) ==
  /\ c \in [Ticks -> Nat] /\ IsFiniteSet(SentAt(c, Ticks)) /\ n \in Ticks
  /\ l.windowStart \in 1..n /\ l.dayStart \in 1..n
  /\ l.windowCount \in 0..maxPerMin /\ l.dayCount \in 0..dailyBudget
  /\ \A t \in Ticks : t > n \/ t - l.windowStart >= Minute \/ dayOf(t) > dayOf(l.dayStart) => c[t] = 0
  /\ SumCalls(c, {t \in Ticks : t >= l.windowStart}) <= l.windowCount
  /\ SumCalls(c, {t \in Ticks : t < l.windowStart /\ t >= l.windowStart - Minute}) <= maxPerMin
  /\ SumCalls(c, {t \in Ticks : dayOf(t) = dayOf(l.dayStart)}) <= l.dayCount

\* The fields of the limiter.
LimiterFields == [windowStart : Int, windowCount : Int, dayStart : Int, dayCount : Int, backoffUntil : Int]

\* Two fields of it may be set at once.
LEMMA LimiterSet ==
  ASSUME NEW l \in LimiterFields, NEW a \in Int, NEW b \in Int
  PROVE  /\ [l EXCEPT !.windowStart = a, !.windowCount = b] \in LimiterFields
         /\ [l EXCEPT !.dayStart = a, !.dayCount = b] \in LimiterFields
         /\ [l EXCEPT !.windowCount = a, !.dayCount = b] \in LimiterFields
<1>1. [l EXCEPT !.windowStart = a] \in LimiterFields /\ [l EXCEPT !.dayStart = a] \in LimiterFields /\ [l EXCEPT !.windowCount = a] \in LimiterFields
  BY DEF LimiterFields
<1> QED
  BY <1>1 DEF LimiterFields

\* What the limiter counted bounds what was sent.
LimiterInv ==
  /\ limiter \in LimiterFields
  /\ Counted(calls, now, limiter)
  /\ ProviderBudget

\* The windows that have run out start again, with nothing counted in them.
LEMMA RollCounts ==
  ASSUME LimiterInv
  PROVE  /\ rolled \in LimiterFields /\ Counted(calls, now, rolled)
         /\ now - rolled.windowStart < Minute /\ dayOf(now) = dayOf(rolled.dayStart)
<1> DEFINE m == IF now - limiter.windowStart >= Minute THEN [limiter EXCEPT !.windowStart = now, !.windowCount = 0] ELSE limiter
           r == IF dayOf(now) # dayOf(m.dayStart) THEN [m EXCEPT !.dayStart = now, !.dayCount = 0] ELSE m
<1>1. limiter \in LimiterFields /\ Counted(calls, now, limiter) /\ now \in Nat /\ now \in Ticks
  BY DEF LimiterInv, Counted, Ticks
<1>2. Minute \in Nat \ {0} /\ Day \in Nat \ {0} /\ maxPerMin \in Nat \ {0} /\ dailyBudget \in Nat \ {0}
  BY MarketDataAssumption
<1>3. m \in LimiterFields /\ m.dayStart = limiter.dayStart /\ m.dayCount = limiter.dayCount
  <2> DEFINE n == [limiter EXCEPT !.windowStart = now, !.windowCount = 0]
  <2>1. n \in LimiterFields /\ n.dayStart = limiter.dayStart /\ n.dayCount = limiter.dayCount
    <3>1. now \in Int /\ 0 \in Int
      BY <1>1
    <3>2. n \in LimiterFields
      BY <1>1, <3>1, LimiterSet, Zenon
    <3> QED
      BY <1>1, <3>2 DEF LimiterFields
  <2> QED
    BY <1>1, <2>1
<1>4. Counted(calls, now, m) /\ now - m.windowStart < Minute
  <2>1. CASE now - limiter.windowStart >= Minute
    <3>1. m.windowStart = now /\ m.windowCount = 0
      BY <1>1, <2>1 DEF LimiterFields
    <3> DEFINE W == limiter.windowStart
    <3>2. W \in 1..now /\ limiter.windowCount \in 0..maxPerMin
      BY <1>1 DEF Counted
    <3>3. \A t \in Ticks : t >= now => calls[t] = 0
      BY <1>1, <2>1 DEF Counted, Ticks
    <3>4. SumCalls(calls, {t \in Ticks : t >= now}) = 0
      BY <1>1, <3>3, SentNone DEF Counted
    <3>5. SumCalls(calls, {t \in Ticks : t < now /\ t >= now - Minute}) <= maxPerMin
      <4> DEFINE T == {t \in Ticks : t < now /\ t >= now - Minute}  U == {t \in Ticks : t >= W}
      <4>1. \A t \in T : t \in U
        BY <1>1, <1>2, <2>1, <3>2 DEF Ticks
      <4>2. T \in SUBSET Ticks /\ U \in SUBSET Ticks
        OBVIOUS
      <4>3. SumCalls(calls, U) <= limiter.windowCount
        BY <1>1 DEF Counted
      <4>4. calls \in [Ticks -> Nat] /\ IsFiniteSet(SentAt(calls, Ticks))
        BY <1>1 DEF Counted
      <4> HIDE DEF T, U, W
      <4>5. SumCalls(calls, {}) = 0
        BY <4>4, SentNone
      <4>6. SumCalls(calls, T) <= SumCalls(calls, U) + SumCalls(calls, {})
        BY <4>1, <4>2, <4>4, SentCovered
      <4>7. SumCalls(calls, T) \in Nat /\ SumCalls(calls, U) \in Nat
        BY <4>2, <4>4, SentFinite
      <4>8. SumCalls(calls, T) <= maxPerMin
        BY <1>2, <3>2, <4>3, <4>5, <4>6, <4>7
      <4> QED
        BY <4>8 DEF T
    <3>6. \A t \in Ticks : t > now \/ t - now >= Minute \/ dayOf(t) > dayOf(limiter.dayStart) => calls[t] = 0
      BY <1>1, <1>2, <3>3 DEF Counted, Ticks
    <3> HIDE DEF m
    <3>7. Counted(calls, now, m)
      BY <1>1, <1>2, <1>3, <3>1, <3>4, <3>5, <3>6 DEF Counted, Ticks
    <3> QED
      BY <1>1, <1>2, <3>1, <3>7
  <2>2. CASE ~(now - limiter.windowStart >= Minute)
    <3>1. m = limiter
      BY <2>2
    <3>2. limiter.windowStart \in 1..now
      BY <1>1 DEF Counted
    <3> QED
      BY <1>1, <1>2, <2>2, <3>1, <3>2
  <2> QED
    BY <2>1, <2>2
<1> HIDE DEF m
<1>5. r \in LimiterFields /\ r.windowStart = m.windowStart /\ r.windowCount = m.windowCount
  <2> DEFINE n == [m EXCEPT !.dayStart = now, !.dayCount = 0]
  <2>1. n \in LimiterFields /\ n.windowStart = m.windowStart /\ n.windowCount = m.windowCount
    <3>1. now \in Int /\ 0 \in Int
      BY <1>1
    <3>2. n \in LimiterFields
      BY <1>3, <3>1, LimiterSet, Zenon
    <3> QED
      BY <1>3, <3>2 DEF LimiterFields
  <2> QED
    BY <1>3, <2>1
<1>6. Counted(calls, now, r) /\ dayOf(now) = dayOf(r.dayStart)
  <2>1. CASE dayOf(now) # dayOf(m.dayStart)
    <3>1. r.dayStart = now /\ r.dayCount = 0
      BY <1>3, <2>1 DEF LimiterFields
    <3>2. dayOf(now) > dayOf(m.dayStart)
      <4>1. m.dayStart \in Nat /\ m.dayStart <= now
        BY <1>1, <1>4 DEF Counted
      <4> QED
        BY <1>1, <2>1, <4>1, DaysGoOn
    <3>3. \A t \in Ticks : dayOf(t) = dayOf(now) => calls[t] = 0
      BY <1>4, <3>2 DEF Counted
    <3>4. SumCalls(calls, {t \in Ticks : dayOf(t) = dayOf(now)}) = 0
      BY <1>4, <3>3, SentNone DEF Counted
    <3>5. \A t \in Ticks : dayOf(t) > dayOf(now) => calls[t] = 0
      <4> SUFFICES ASSUME NEW t \in Ticks, dayOf(t) > dayOf(now)
                   PROVE  calls[t] = 0
        OBVIOUS
      <4>1. t \in Nat /\ (t <= now => dayOf(t) <= dayOf(now)) /\ dayOf(t) \in Nat /\ dayOf(now) \in Nat
        BY <1>1, DaysGoOn DEF Ticks
      <4>2. t > now
        BY <1>1, <4>1
      <4> QED
        BY <1>4, <4>2 DEF Counted
    <3>6. \A t \in Ticks : t > now \/ t - m.windowStart >= Minute \/ dayOf(t) > dayOf(now) => calls[t] = 0
      BY <1>4, <3>5 DEF Counted
    <3> HIDE DEF r
    <3>7. Counted(calls, now, r)
      BY <1>1, <1>2, <1>4, <1>5, <3>1, <3>4, <3>6 DEF Counted
    <3> QED
      BY <3>1, <3>7
  <2>2. CASE dayOf(now) = dayOf(m.dayStart)
    BY <1>4, <2>2
  <2> QED
    BY <2>1, <2>2
<1>7. rolled = r
  BY <1>3 DEF rolled, m
<1> QED
  BY <1>4, <1>5, <1>6, <1>7

\* A request the limiter lets through keeps the budget and is counted.
LEMMA SendCounts ==
  ASSUME LimiterInv, NEW r \in LimiterFields, Counted(calls, now, r),
         now - r.windowStart < Minute, dayOf(now) = dayOf(r.dayStart),
         r.dayCount < dailyBudget, r.windowCount < maxPerMin,
         calls' = [calls EXCEPT ![now] = @ + 1]
  PROVE  /\ Counted(calls', now, [r EXCEPT !.windowCount = @ + 1, !.dayCount = @ + 1])
         /\ ProviderBudget'
<1> DEFINE p == [r EXCEPT !.windowCount = @ + 1, !.dayCount = @ + 1]  d == calls'
<1>1. /\ p.windowStart = r.windowStart /\ p.dayStart = r.dayStart
      /\ p.windowCount = r.windowCount + 1 /\ p.dayCount = r.dayCount + 1
  BY DEF LimiterFields
<1>2. Minute \in Nat \ {0} /\ maxPerMin \in Nat \ {0} /\ dailyBudget \in Nat \ {0}
  BY MarketDataAssumption
<1>3. /\ calls \in [Ticks -> Nat] /\ IsFiniteSet(SentAt(calls, Ticks)) /\ now \in Ticks
      /\ r.windowStart \in 1..now /\ r.dayStart \in 1..now /\ r.windowCount \in 0..maxPerMin /\ r.dayCount \in 0..dailyBudget
  BY DEF Counted
<1>4. /\ d \in [Ticks -> Nat] /\ IsFiniteSet(SentAt(d, Ticks))
      /\ \A T \in SUBSET Ticks : now \in T => SumCalls(d, T) = SumCalls(calls, T) + 1
      /\ \A T \in SUBSET Ticks : now \notin T => SumCalls(d, T) = SumCalls(calls, T)
  <2>0. d = OneMore(calls, now)
    BY DEF OneMore
  <2> HIDE DEF d
  <2>1. ASSUME NEW T \in SUBSET Ticks
        PROVE  /\ d \in [Ticks -> Nat] /\ IsFiniteSet(SentAt(d, Ticks))
               /\ now \in T => SumCalls(d, T) = SumCalls(calls, T) + 1
               /\ now \notin T => SumCalls(d, T) = SumCalls(calls, T)
    BY <1>3, <2>0, SentOnce
  <2>2. Ticks \in SUBSET Ticks
    OBVIOUS
  <2> QED
    BY <2>1, <2>2
<1>5. \A T \in SUBSET Ticks : SumCalls(calls, T) \in Nat /\ SumCalls(d, T) \in Nat
  BY <1>3, <1>4, SentFinite
<1>6. now \in Nat /\ r.windowStart <= now
  BY <1>3 DEF Ticks
<1>7. \A t \in Ticks : t # now => d[t] = calls[t]
  BY <1>3
<1>8. \A t \in Ticks : t > now \/ t - r.windowStart >= Minute \/ dayOf(t) > dayOf(r.dayStart) => d[t] = 0
  <2> SUFFICES ASSUME NEW t \in Ticks, t > now \/ t - r.windowStart >= Minute \/ dayOf(t) > dayOf(r.dayStart)
               PROVE  d[t] = 0
    OBVIOUS
  <2>1. dayOf(now) \in Nat
    BY <1>6, DaysGoOn
  <2>2. t # now
    BY <1>2, <1>3, <1>6, <2>1 DEF Ticks
  <2> QED
    BY <1>7, <2>2 DEF Counted
<1> HIDE DEF d, p
<1> DEFINE U == {t \in Ticks : t >= r.windowStart}
           V == {t \in Ticks : t < r.windowStart /\ t >= r.windowStart - Minute}
           Y == {t \in Ticks : dayOf(t) = dayOf(r.dayStart)}
<1>9. U \in SUBSET Ticks /\ V \in SUBSET Ticks /\ Y \in SUBSET Ticks /\ now \in U /\ now \notin V /\ now \in Y
  BY <1>3, <1>6 DEF Ticks
<1>10. SumCalls(calls, U) <= r.windowCount /\ SumCalls(calls, V) <= maxPerMin /\ SumCalls(calls, Y) <= r.dayCount
  BY DEF Counted
<1>11. \A t \in Ticks : t > r.windowStart - Minute => t \in U \/ t \in V
  BY <1>2, <1>3 DEF Ticks
<1> HIDE DEF U, V, Y
<1>12. SumCalls(d, U) <= r.windowCount + 1 /\ SumCalls(d, V) <= maxPerMin /\ SumCalls(d, Y) <= r.dayCount + 1
  BY <1>3, <1>4, <1>5, <1>9, <1>10
<1>13. Counted(d, now, p)
  <2>1. p.windowStart \in 1..now /\ p.dayStart \in 1..now /\ p.windowCount \in 0..maxPerMin /\ p.dayCount \in 0..dailyBudget
    BY <1>1, <1>2, <1>3
  <2> QED
    BY <1>1, <1>3, <1>4, <1>8, <1>12, <2>1 DEF Counted, U, V, Y
<1>14. \A e \in 0..dayOf(LastTick) : SumCalls(d, {t \in Ticks : dayOf(t) = e}) <= dailyBudget
  <2> SUFFICES ASSUME NEW e \in 0..dayOf(LastTick)
               PROVE  SumCalls(d, {t \in Ticks : dayOf(t) = e}) <= dailyBudget
    OBVIOUS
  <2> DEFINE T == {t \in Ticks : dayOf(t) = e}
  <2>1. CASE e = dayOf(now)
    <3>1. T = Y
      BY <2>1 DEF Y
    <3> QED
      BY <1>2, <1>3, <1>5, <1>9, <1>12, <3>1
  <2>2. CASE e # dayOf(now)
    <3>1. now \notin T /\ T \in SUBSET Ticks
      BY <2>2
    <3>2. SumCalls(calls, T) <= dailyBudget
      BY DEF LimiterInv, ProviderBudget, Ticks
    <3> HIDE DEF T
    <3>3. SumCalls(d, T) <= dailyBudget
      BY <1>4, <3>1, <3>2
    <3> QED
      BY <3>3 DEF T
  <2> QED
    BY <2>1, <2>2
<1>15. \A t \in Ticks : SumCalls(d, {u \in Ticks : u >= t /\ u < t + Minute}) <= 2 * maxPerMin
  <2> SUFFICES ASSUME NEW t \in Ticks
               PROVE  SumCalls(d, {u \in Ticks : u >= t /\ u < t + Minute}) <= 2 * maxPerMin
    OBVIOUS
  <2> DEFINE T == {u \in Ticks : u >= t /\ u < t + Minute}
  <2>0. T \in SUBSET Ticks
    OBVIOUS
  <2>1. CASE now \in T
    <3>1. \A u \in T : u \in U \/ u \in V
      <4>1. \A u \in T : u \in Ticks /\ u > r.windowStart - Minute
        BY <1>2, <1>3, <1>6, <2>1 DEF Ticks
      <4> QED
        BY <1>11, <4>1
    <3> HIDE DEF T
    <3>2. SumCalls(d, T) <= SumCalls(d, U) + SumCalls(d, V)
      BY <1>4, <1>9, <2>0, <3>1, SentCovered
    <3>3. SumCalls(d, T) <= 2 * maxPerMin
      BY <1>2, <1>3, <1>5, <1>9, <1>12, <2>0, <3>2
    <3> QED
      BY <3>3 DEF T
  <2>2. CASE now \notin T
    <3>1. SumCalls(calls, T) <= 2 * maxPerMin
      BY DEF LimiterInv, ProviderBudget, Ticks
    <3> HIDE DEF T
    <3>2. SumCalls(d, T) <= 2 * maxPerMin
      BY <1>4, <2>0, <2>2, <3>1
    <3> QED
      BY <3>2 DEF T
  <2> QED
    BY <2>1, <2>2
<1>16. ProviderBudget'
  BY <1>14, <1>15 DEF ProviderBudget, Ticks, d, dayOf
<1> QED
  BY <1>13, <1>16 DEF d, p

\* A request of any kind asks the limiter, and is sent only when it is let through.
LEMMA AllowCounts ==
  ASSUME LimiterInv, Allow, Allowed => Sent, ~Allowed => UNCHANGED calls, UNCHANGED <<now, configuration>>
  PROVE  LimiterInv'
<1>1. /\ rolled \in LimiterFields /\ Counted(calls, now, rolled)
      /\ now - rolled.windowStart < Minute /\ dayOf(now) = dayOf(rolled.dayStart)
  BY RollCounts
<1>2. CASE now < limiter.backoffUntil
  <2>1. limiter' = limiter /\ now' = now
    BY <1>2 DEF Allow
  <2>2. ~Allowed
    <3>1. limiter.backoffUntil \in Int /\ now \in Int
      BY DEF LimiterInv, LimiterFields, Counted, Ticks
    <3> QED
      BY <1>2, <3>1 DEF Allowed
  <2>3. calls' = calls
    BY <2>2
  <2> QED
    BY <2>1, <2>3 DEF LimiterInv, ProviderBudget, SumCalls, SentAt, dayOf
<1>3. CASE ~(now < limiter.backoffUntil) /\ ~Allowed
  <2>1. limiter' = rolled /\ now' = now /\ calls' = calls
    BY <1>3 DEF Allow
  <2> QED
    BY <1>1, <2>1 DEF LimiterInv, ProviderBudget, SumCalls, SentAt, dayOf
<1>4. CASE ~(now < limiter.backoffUntil) /\ Allowed
  <2> DEFINE p == [rolled EXCEPT !.windowCount = @ + 1, !.dayCount = @ + 1]
  <2>1. limiter' = p /\ now' = now
    BY <1>4 DEF Allow
  <2>2. calls' = [calls EXCEPT ![now] = @ + 1]
    BY <1>4 DEF Sent
  <2>3. rolled.dayCount < dailyBudget /\ rolled.windowCount < maxPerMin
    BY <1>4 DEF Allowed
  <2>4. Counted(calls', now, p) /\ ProviderBudget'
    BY <1>1, <2>2, <2>3, SendCounts
  <2>5. p \in LimiterFields
    <3>1. rolled.windowCount + 1 \in Int /\ rolled.dayCount + 1 \in Int
      BY <1>1 DEF LimiterFields
    <3> QED
      BY <1>1, <3>1, LimiterSet
  <2> QED
    BY <2>1, <2>4, <2>5 DEF LimiterInv
<1> QED
  BY <1>2, <1>3, <1>4

LEMMA LimiterInit ==
  ASSUME MarketInit
  PROVE  LimiterInv
<1>1. /\ now = 1 /\ calls = [t \in 1..LastTick |-> 0]
      /\ limiter = [windowStart |-> 1, windowCount |-> 0, dayStart |-> 1, dayCount |-> 0, backoffUntil |-> 0]
  BY DEF MarketInit
<1>2. LastTick \in Nat \ {0} /\ maxPerMin \in Nat \ {0} /\ dailyBudget \in Nat \ {0}
  BY MarketDataAssumption
<1>3. calls \in [Ticks -> Nat] /\ \A t \in Ticks : calls[t] = 0
  BY <1>1 DEF Ticks
<1>4. \A T \in SUBSET Ticks : SumCalls(calls, T) = 0
  BY <1>3, SentNone
<1>5. IsFiniteSet(SentAt(calls, Ticks))
  <2>1. SentAt(calls, Ticks) = {}
    BY <1>3 DEF SentAt
  <2> QED
    BY <2>1, FS_EmptySet
<1>6. limiter \in LimiterFields
  BY <1>1 DEF LimiterFields
<1>7. Counted(calls, now, limiter)
  BY <1>1, <1>2, <1>3, <1>4, <1>5 DEF Counted, Ticks
<1>8. ProviderBudget
  BY <1>2, <1>4 DEF ProviderBudget, Ticks
<1> QED
  BY <1>6, <1>7, <1>8 DEF LimiterInv

\* Only these three ask; time and what else is recorded leave the counts alone.
LEMMA LimiterNext ==
  ASSUME LimiterInv, [MarketNext]_marketVars
  PROVE  LimiterInv'
<1>1. ASSUME limiter' \in LimiterFields, UNCHANGED <<now, calls>>,
             \A f \in {"windowStart", "windowCount", "dayStart", "dayCount"} : limiter'[f] = limiter[f]
      PROVE  LimiterInv'
  <2>1. /\ limiter'.windowStart = limiter.windowStart /\ limiter'.windowCount = limiter.windowCount
        /\ limiter'.dayStart = limiter.dayStart /\ limiter'.dayCount = limiter.dayCount
    BY <1>1
  <2>2. now' = now /\ calls' = calls
    BY <1>1
  <2>3. Counted(calls', now', limiter')
    BY <2>1, <2>2 DEF LimiterInv, Counted
  <2>4. ProviderBudget'
    BY <2>2 DEF LimiterInv, ProviderBudget, SumCalls, SentAt, dayOf
  <2> QED
    BY <1>1, <2>3, <2>4 DEF LimiterInv
<1>2. ASSUME UNCHANGED <<limiter, now, calls>>
      PROVE  LimiterInv'
  BY <1>1, <1>2 DEF LimiterInv
<1>3. CASE timePasses
  <2>1. now' = now + 1 /\ now < LastTick /\ limiter' = limiter /\ calls' = calls
    BY <1>3 DEF timePasses
  <2>2. now' \in Ticks /\ now \in Nat /\ 1..now \subseteq 1..now' /\ LastTick \in Nat
    <3>1. LastTick \in Nat
      BY MarketDataAssumption
    <3>2. now \in 1..LastTick
      BY DEF LimiterInv, Counted, Ticks
    <3> QED
      BY <2>1, <3>1, <3>2 DEF Ticks
  <2>3. Counted(calls, now', limiter)
    BY <2>1, <2>2 DEF LimiterInv, Counted, Ticks
  <2>4. ProviderBudget'
    BY <2>1 DEF LimiterInv, ProviderBudget, SumCalls, SentAt, dayOf
  <2> QED
    BY <2>1, <2>3, <2>4 DEF LimiterInv
<1>4. ASSUME NEW found \in SUBSET Symbols, SearchInstruments(found)
      PROVE  LimiterInv'
  BY <1>4, AllowCounts DEF SearchInstruments
<1>5. CASE fullSeries
  BY <1>5, AllowCounts DEF fullSeries
<1>6. ASSUME NEW c \in Callers,
             \/ readQuotes(c) \/ askTwelveData(c) \/ failing(c) \/ tooManyRequests(c) \/ storeQuotes(c)
             \/ \E batch \in SUBSET Symbols : Quotes(c, batch)
             \/ \E s \in Symbols : GetLatestPrice(c, s)
             \/ \E found \in SUBSET request[c].missing : answered(c, found)
             \/ \E up \in SUBSET request[c].missing : askYahoo(c, up)
      PROVE  LimiterInv'
  <2>1. CASE askTwelveData(c)
    BY <2>1, AllowCounts DEF askTwelveData
  <2>2. CASE tooManyRequests(c)
    <3>1. Backoff /\ now' = now /\ calls' = calls
      BY <2>2 DEF tooManyRequests
    <3>2. now \in Int /\ limiter \in LimiterFields /\ BackoffTime \in Int
      BY MarketDataAssumption DEF LimiterInv, Counted, Ticks
    <3>3. limiter' \in LimiterFields
      BY <3>1, <3>2 DEF Backoff, LimiterFields
    <3>4. \A f \in {"windowStart", "windowCount", "dayStart", "dayCount"} : limiter'[f] = limiter[f]
      BY <3>1, <3>2 DEF Backoff, LimiterFields
    <3> QED
      BY <1>1, <3>1, <3>3, <3>4
  <2>3. CASE readQuotes(c) \/ failing(c) \/ storeQuotes(c)
    BY <1>2, <2>3 DEF readQuotes, failing, storeQuotes
  <2>4. CASE \/ \E batch \in SUBSET Symbols : Quotes(c, batch)
             \/ \E s \in Symbols : GetLatestPrice(c, s)
             \/ \E found \in SUBSET request[c].missing : answered(c, found)
             \/ \E up \in SUBSET request[c].missing : askYahoo(c, up)
    BY <1>2, <2>4 DEF Quotes, GetLatestPrice, answered, askYahoo
  <2> QED
    BY <1>6, <2>1, <2>2, <2>3, <2>4
<1>7. CASE UNCHANGED marketVars
  BY <1>2, <1>7 DEF marketVars
<1> QED
  BY <1>3, <1>4, <1>5, <1>6, <1>7 DEF MarketNext

\* Quotes, searches and history of any number of callers share one limiter; whatever
\* fails, is refused or told to back off, it never lets more through than the daily budget
\* in a day, or than two windows' worth in any minute, as its minutes do not start together.
THEOREM BudgetIsKept == MarketSpec => []ProviderBudget
<1>1. LimiterInv => ProviderBudget
  BY DEF LimiterInv
<1> QED
  BY <1>1, LimiterInit, LimiterNext, PTL DEF MarketSpec

=============================================================================
