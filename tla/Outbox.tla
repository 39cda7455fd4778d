------------------------------- MODULE Outbox -------------------------------
(***************************************************************************)
(* The transactional outbox of one portfolio and the lifecycle history it  *)
(* feeds: portfolio_outbox (postgres_store.go), the workers of             *)
(* jobs.OutboxProcessor, and performancehistory's                          *)
(* RecordTransitionIfChanged.                                              *)
(*                                                                         *)
(* Events are numbered in the order of their created_at.  Clocks are left  *)
(* out: a lease runs out and a backoff ends at any later moment.  A worker *)
(* may be arbitrarily slow, so it may settle an event long after its lease *)
(* on it is gone.  The daily archive written by the same handler is only   *)
(* a place where the handler can fail.                                     *)
(***************************************************************************)
EXTENDS Integers, FiniteSets

CONSTANTS
  Workers,          \* processors, one per application instance
  MaxEvents,        \* bound: mutations committed
  MaxAttempts,      \* outboxMaxAttempts
  BatchSize,        \* OutboxProcessor.batchSize
  MaxInterruptions, \* bound: crashes, settlements lost, requeues by hand
  Flaky             \* whether the handler may fail

ASSUME OutboxAssumption ==
  /\ MaxEvents \in Nat /\ MaxAttempts \in Nat \ {0} /\ BatchSize \in Nat \ {0}
  /\ MaxInterruptions \in Nat /\ Flaky \in BOOLEAN

VARIABLES
  status,        \* ranking status an event announces, "none" before it is written
  row,           \* the event's row
  worker,        \* what each worker has claimed and how far it is
  history,       \* transition points: [at, status]
  interruptions

vars == <<status, row, worker, history, interruptions>>

Events   == 1..MaxEvents
Statuses == {"active", "paused"}
Written  == {e \in Events : status[e] # "none"}

NewRow == [attempts |-> 0, lease |-> "none", waiting |-> FALSE, processed |-> FALSE, dead |-> FALSE]
Idle   == [batch |-> {}, event |-> 0, at |-> "poll"]

-----------------------------------------------------------------------------
(* The rows *)

\* A mutation commits its event with the rest of its transaction.
AppendOutbox(s) ==
  /\ Cardinality(Written) < MaxEvents
  /\ status' = [status EXCEPT ![Cardinality(Written) + 1] = s]
  /\ UNCHANGED <<row, worker, history, interruptions>>

ClaimableUnleased(e) ==
  /\ e \in Written /\ ~row[e].processed /\ ~row[e].dead
  /\ row[e].lease = "none"
  /\ ~row[e].waiting

\* Unprocessed, not dead, not leased or leased too long ago, backoff over.
Claimable(e) ==
  /\ e \in Written /\ ~row[e].processed /\ ~row[e].dead
  /\ row[e].lease # "live"
  /\ ~row[e].waiting

\* The oldest BatchSize of them.
Oldest(S) == {e \in S : Cardinality({d \in S : d < e}) < BatchSize}

ClaimOutboxEvents(w) ==
  LET batch == Oldest({e \in Events : Claimable(e)})
  IN  /\ worker[w].at = "poll" /\ batch # {}
      /\ row' = [e \in Events |->
                   IF e \in batch
                   THEN [row[e] EXCEPT !.attempts = @ + 1, !.lease = "live"]
                   ELSE row[e]]
      /\ worker' = [worker EXCEPT ![w] = [batch |-> batch, event |-> 0, at |-> "next"]]
      /\ UNCHANGED <<status, history, interruptions>>

\* MarkOutboxProcessed: an unprocessed row becomes processed.
Processed(r) == [r EXCEPT !.processed = TRUE]

\* MarkOutboxFailed: no condition on the row, whoever has claimed it since.
Failed(r) ==
  IF r.attempts >= MaxAttempts
  THEN [r EXCEPT !.lease = "none", !.dead = TRUE]
  ELSE [r EXCEPT !.lease = "none", !.waiting = TRUE, !.dead = FALSE]

Interrupted == interruptions < MaxInterruptions /\ interruptions' = interruptions + 1

\* RequeueOutboxEvent, by an operator.
RequeueOutboxEvent(e) ==
  /\ Interrupted
  /\ row[e].dead
  /\ row' = [row EXCEPT ![e] = [NewRow EXCEPT !.processed = row[e].processed]]
  /\ UNCHANGED <<status, worker, history>>

\* outboxLeaseTTL has passed since the claim.
LeaseRunsOut(e) ==
  /\ row[e].lease = "live"
  /\ row' = [row EXCEPT ![e].lease = "expired"]
  /\ UNCHANGED <<status, worker, history, interruptions>>

\* next_attempt_at has come.
BackoffEnds(e) ==
  /\ row[e].waiting
  /\ row' = [row EXCEPT ![e].waiting = FALSE]
  /\ UNCHANGED <<status, worker, history, interruptions>>

-----------------------------------------------------------------------------
(* ProcessOnce and handle *)

At(w, label) == worker' = [worker EXCEPT ![w].at = label]

\* The loop goes on to the next event of the batch, or back to polling.
GoOn(w) == worker' = [worker EXCEPT ![w] = IF @.batch = {} THEN Idle ELSE [@ EXCEPT !.event = 0, !.at = "next"]]

\* UPDATE ... RETURNING hands the batch over in any order.
NextEvent(w) ==
  /\ worker[w].at = "next"
  /\ \E e \in worker[w].batch :
       worker' = [worker EXCEPT ![w] = [batch |-> @.batch \ {e}, event |-> e, at |-> "look"]]
  /\ UNCHANGED <<status, row, history, interruptions>>

LatestUpTo(e) == {h \in history : h.at <= e /\ \A g \in history : g.at <= e => g.at <= h.at}

SuppressedIfUnknown(e) == \A h \in LatestUpTo(e - 1) : h.status = status[e]

\* StatusAtOrBefore an instant before the event finds the event's own status.
Suppressed(e) == \E h \in LatestUpTo(e - 1) : h.status = status[e]

\* RecordTransitionIfChanged reads ...
Look(w) ==
  /\ worker[w].at = "look"
  /\ At(w, IF Suppressed(worker[w].event) THEN "archive" ELSE "insert")
  /\ UNCHANGED <<status, row, history, interruptions>>

\* ... and then writes, once per event (ON CONFLICT DO NOTHING).
RecordTransition(w) ==
  /\ worker[w].at = "insert"
  /\ history' = history \cup {[at |-> worker[w].event, status |-> status[worker[w].event]]}
  /\ At(w, "archive")
  /\ UNCHANGED <<status, row, interruptions>>

\* RecordDailySnapshot succeeds; the handler returns nil.
Archive(w) ==
  /\ worker[w].at = "archive"
  /\ At(w, "processed")
  /\ UNCHANGED <<status, row, history, interruptions>>

HandlerFails(w) ==
  /\ Flaky /\ worker[w].at \in {"look", "insert", "archive"}
  /\ At(w, "failed")
  /\ UNCHANGED <<status, row, history, interruptions>>

Settle(w) ==
  /\ worker[w].at \in {"processed", "failed"}
  /\ row' = [row EXCEPT ![worker[w].event] = IF worker[w].at = "processed" THEN Processed(@) ELSE Failed(@)]
  /\ GoOn(w)
  /\ UNCHANGED <<status, history, interruptions>>

\* The database refuses the settlement; the worker logs it and goes on.
SettlementLost(w) ==
  /\ Interrupted
  /\ worker[w].at \in {"processed", "failed"}
  /\ GoOn(w)
  /\ UNCHANGED <<status, row, history>>

\* The instance dies and a new one polls in its place.
Crash(w) ==
  /\ Interrupted
  /\ worker[w].at # "poll"
  /\ worker' = [worker EXCEPT ![w] = Idle]
  /\ UNCHANGED <<status, row, history>>

-----------------------------------------------------------------------------

Init ==
  /\ status = [e \in Events |-> "none"]
  /\ row = [e \in Events |-> NewRow]
  /\ worker = [w \in Workers |-> Idle]
  /\ history = {} /\ interruptions = 0

Work(w) == ClaimOutboxEvents(w) \/ NextEvent(w) \/ Look(w) \/ RecordTransition(w) \/ Archive(w) \/ Settle(w)

Next ==
  \/ \E s \in Statuses : AppendOutbox(s)
  \/ \E e \in Events : RequeueOutboxEvent(e) \/ LeaseRunsOut(e) \/ BackoffEnds(e)
  \/ \E w \in Workers : Work(w) \/ HandlerFails(w) \/ SettlementLost(w) \/ Crash(w)

Spec == Init /\ [][Next]_vars

\* Every worker polls and works through its batch; time passes.
FairSpec ==
  /\ Spec
  /\ \A w \in Workers : WF_vars(Work(w))
  /\ \A e \in Events : WF_vars(LeaseRunsOut(e)) /\ WF_vars(BackoffEnds(e))

-----------------------------------------------------------------------------
(* Properties *)

Stages == {"poll", "next", "look", "insert", "archive", "processed", "failed"}

\* Rows, workers and history are well formed; the events written so far are the
\* oldest ones and a worker in the handler has an event in hand.
TypeOK ==
  /\ status \in [Events -> Statuses \cup {"none"}]
  /\ row \in [Events -> [attempts : Nat, lease : {"none", "live", "expired"},
                         waiting : BOOLEAN, processed : BOOLEAN, dead : BOOLEAN]]
  /\ worker \in [Workers -> [batch : SUBSET Events, event : Events \cup {0}, at : Stages]]
  /\ history \in SUBSET [at : Events, status : Statuses]
  /\ interruptions \in 0..MaxInterruptions
  /\ \A w \in Workers : worker[w].at \notin {"poll", "next"} => worker[w].event \in Written

\* An event is settled only once the lifecycle history covers its instant: some
\* transition is on record at or before it, whichever worker wrote it.
SettledIsCovered == \A e \in Events : row[e].processed => LatestUpTo(e) # {}

\* Where every event up to e has been processed, the history shows at e the
\* status the portfolio had: no boundary is missing, none is misplaced.
HistoryExact ==
  \A e \in Written :
    (\A d \in 1..e : row[d].processed) => \E h \in LatestUpTo(e) : h.status = status[e]

\* Every committed mutation's event is processed or dead-lettered in the end,
\* across slow workers, failing handlers, crashes and lost settlements.
EveryEventSettles ==
  \A e \in Events : e \in Written ~> row[e].processed \/ row[e].dead
=============================================================================
