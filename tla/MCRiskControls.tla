--------------------------- MODULE MCRiskControls ---------------------------
EXTENDS RiskControls, TLC

CONSTANTS p1, p2, MaxTime

ProcSymmetry == Permutations(Proc)

(* Bounds: the clock stops after MaxTime; a streak that no update ends,    *)
(* because each dies before it leaves the mode, stops to grow.             *)
Bounded == now <= MaxTime /\ streak <= ExitStreak + 1
=============================================================================
