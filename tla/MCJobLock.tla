----------------------------- MODULE MCJobLock -----------------------------
(***************************************************************************)
(* JobLock for TLC: the clock stops at MaxTime.                            *)
(***************************************************************************)
EXTENDS JobLock

CONSTANT MaxTime

MCTick == now < MaxTime /\ Tick

MCNext == MCTick \/ \E p \in Proc : Step(p)

MCSpec == Init /\ [][MCNext]_vars

(* The clock runs, the pipeline keeps starting some process of the job,    *)
(* and the database answers: timeouts and crashes may hit any number of    *)
(* acquires, but not all of them for ever.                                 *)
MCFairSpec ==
  /\ MCSpec
  /\ WF_vars(MCTick)
  /\ WF_vars(\E p \in Proc : AcquireBegin(p))
  /\ \A p \in Proc : SF_vars(AcquireCommit(p) \/ AcquireRefused(p))

(* A process that crashed for good does not keep the lock: its row is      *)
(* taken over, or was freed.  Rows whose TTL ends after the bound on the   *)
(* clock are left out.                                                     *)
Outlived(p) == Holds(p) /\ row.hb + TTL < MaxTime

DeadHolderIsReplaced ==
  \A p \in Proc : <>[](pc[p] = "idle") => []<>~Outlived(p)
=============================================================================
