------------------------- MODULE MCExecutionLedger --------------------------
(* Instances of ExecutionLedger for TLC: an order that is sent and filled  *)
(* beside orders that the ledger already holds, or only one of the latter. *)
EXTENDS ExecutionLedger, TLC

CONSTANTS o1, o2, o3, a1, r1, r2, New, MaxTime

(* Two orders of one alert, and one of none.                               *)
MCAlertOf == [o \in Oid |-> IF o = o3 THEN NoAlert ELSE a1]

(* The ledger holds one unit of each order that is not new.                *)
MCKept == [o \in Oid |-> IF o \in New THEN 0 ELSE 1]

RunSymmetry == Permutations(Run)

(* Bound: the clock stops at MaxTime.                                      *)
Bounded == now <= MaxTime
=============================================================================
