--------------------------- MODULE MCPipelineLock ---------------------------
(***************************************************************************)
(* PipelineLock for TLC: the clock stops at MaxTime.                       *)
(***************************************************************************)
EXTENDS PipelineLock

CONSTANT MaxTime

MCTick == now < MaxTime /\ Tick

MCNext == MCTick \/ \E p \in Proc : Step(p)

MCSpec == Init /\ [][MCNext]_vars

(* The clock runs, some loop always tries again, and the database answers  *)
(* each process that keeps asking.                                         *)
MCFairSpec ==
  /\ MCSpec
  /\ WF_vars(MCTick)
  /\ WF_vars(\E p \in Proc : AcquireBegin(p))
  /\ \A p \in Proc : SF_vars(Select(p)) /\ SF_vars(Insert(p))

(* The row of a process that died does not stop the pipeline for ever: as  *)
(* long as the loops run, a pipeline runs again and again.  A row that the *)
(* bounded clock cannot see expire is left out.                            *)
OutlastsClock == row # NoRow /\ row.expires > MaxTime

PipelineRuns == []<>(OutlastsClock \/ \E p \in Proc : Running(p))
=============================================================================
