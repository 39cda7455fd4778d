---------------------------- MODULE RankedIndex -----------------------------
(***************************************************************************)
(* The pure ranked-performance transitions of internal/performance         *)
(* (calculator.go).  A ranked state is a chain of segments: checkpoint is  *)
(* the index carried into the running segment, segment the portfolio value *)
(* that segment started from, and the live index is                        *)
(* checkpoint * value / segment.  A paused state has no segment and        *)
(* reports its checkpoint.                                                 *)
(***************************************************************************)
EXTENDS Rational

CONSTANT IndexFloor  \* stands for the 0.000000001 floor of a drained portfolio

ASSUME IndexFloorAssumption == IsRat(IndexFloor) /\ Positive(IndexFloor)

Hundred == Rat(100)
Paused  == "paused"
Active  == "active"
NoState == [status |-> "none", checkpoint |-> Zero, segment |-> Zero, version |-> 0]

HasSegment(st) == st.status = Active /\ Positive(st.segment)

CalculateCurrentIndex(st, value) ==
  IF HasSegment(st) THEN (st.checkpoint ** value) // st.segment ELSE st.checkpoint

CalculateIndexBeforeMutation(st, valueBefore, activeBefore) ==
  IF activeBefore THEN CalculateCurrentIndex(st, valueBefore) ELSE st.checkpoint

ActivateState(value, active) ==
  [status     |-> IF active THEN Active ELSE Paused,
   checkpoint |-> Hundred,
   segment    |-> IF active THEN value ELSE Zero,
   version    |-> 1]

\* A neutral mutation: the index reached so far becomes the checkpoint and the
\* segment restarts from the value after the mutation.
ApplyCheckpoint(st, valueBefore, activeBefore, valueAfter, activeAfter) ==
  [status     |-> IF activeAfter THEN Active ELSE Paused,
   checkpoint |-> CalculateIndexBeforeMutation(st, valueBefore, activeBefore),
   segment    |-> IF activeAfter THEN valueAfter ELSE Zero,
   version    |-> st.version + 1]

ReturnCheckpointRebased(st, valueBefore, activeBefore, valueAfter, activeAfter) ==
  ApplyCheckpoint(st, valueBefore, activeBefore, valueAfter, activeAfter)

\* A return-bearing mutation keeps the segment, so the value change reaches the
\* index; a drained portfolio books its loss into the checkpoint and pauses.
ApplyReturnCheckpoint(st, valueBefore, activeBefore, valueAfter, activeAfter) ==
  IF ~(HasSegment(st) /\ activeBefore)
  THEN ApplyCheckpoint(st, valueBefore, activeBefore, valueAfter, activeAfter)
  ELSE IF activeAfter /\ Positive(valueAfter)
       THEN [st EXCEPT !.version = @ + 1]
       ELSE [status     |-> Paused,
             checkpoint |-> MaxRat(CalculateCurrentIndex(st, valueAfter), IndexFloor),
             segment    |-> Zero,
             version    |-> st.version + 1]

ValidateState(st) ==
  /\ Positive(st.checkpoint)
  /\ st.version > 0
  /\ \/ st.status = Active /\ Positive(st.segment)
     \/ st.status = Paused /\ st.segment = Zero
=============================================================================
