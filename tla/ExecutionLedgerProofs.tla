----------------------- MODULE ExecutionLedgerProofs ------------------------
(***************************************************************************)
(* Proofs about the execution ledger, for any orders, alerts, runs and     *)
(* times and whatever it holds at first: what it says of a fill was true   *)
(* and the first report of an order stands; the types; and what the sums   *)
(* are worth after a run that met no other and did not die.                *)
(*                                                                         *)
(* That a metric is of the logged fill needs only that reports are true    *)
(* when a run asks for them (Inv).  The types need that finitely many      *)
(* orders are logged and that nothing is from the future: without the one  *)
(* the sums, without the other the newest time of a snapshot might not     *)
(* exist (Rows).                                                           *)
(*                                                                         *)
(* RunsApartAgree speaks of the moments between two runs and so says       *)
(* nothing of the steps in between.  Apart says, for each phase of the one *)
(* run that is under way, what it has already brought about and which of   *)
(* its rows will bring about the rest; and that no sum of an alert without *)
(* a metric outlives the run, or is newer, follows from Rooted, which all  *)
(* runs keep, those that meet and die too.                                 *)
(***************************************************************************)
EXTENDS ExecutionLedger, FiniteSetTheorems, TLAPS

(* The types that the two properties depend on.                            *)
Typed ==
  /\ now \in Nat
  /\ filled \in [Oid -> 0..MaxQty]
  /\ fills \in [Oid -> 0..MaxQty]
  /\ metrics \in [Oid -> Metric \cup {NoRow}]
  /\ orders \subseteq Oid /\ unlogged \subseteq Oid
  /\ pc \in [Run -> Phase]
  /\ DOMAIN todo = Run /\ DOMAIN ts = Run
  /\ \A r \in Run : pc[r] = "metrics" => todo[r] \subseteq Oid /\ ts[r] \in Nat

(* A report that a run has still to log was true when it was asked for,    *)
(* and the broker's quantity only grows.                                   *)
ReportsAreTrue ==
  \A r \in Run : pc[r] = "log" =>
    \A report \in todo[r] :
      report \in Report /\ report.qty <= filled[report.oid]

(* The invariant of the two properties of fills and metrics.               *)
Inv == Typed /\ ReportsAreTrue /\ LedgerNeverOverstates

-----------------------------------------------------------------------------
(* What is logged is what was filled before, and nothing is measured.      *)
LEMMA InitInv == Init => Inv
BY QtyAssumption, KeptAssumption, SMT
DEF Init, Inv, Typed, ReportsAreTrue, LedgerNeverOverstates, Metric, Qty,
  Phase

(* The actions that touch neither the broker's quantities nor the fills    *)
(* nor the metrics, and add no report, leave the invariant as it is.       *)
LEMMA OutsideInv ==
  ASSUME Inv, NEW r \in Run,
         NEW phase \in Phase \ {"log"}, NEW items,
         phase = "metrics" => items \subseteq Oid /\ ts'[r] \in Nat,
         Enter(r, phase, items), UNCHANGED <<now, brokers, ledger>>,
         DOMAIN ts' = Run, \A q \in Run \ {r} : ts'[q] = ts[q]
  PROVE  Inv'
<1>1. UNCHANGED <<now, filled, fills, metrics, orders, unlogged>>
  BY DEF brokers, ledger
<1>2. /\ pc' = [pc EXCEPT ![r] = phase]
      /\ todo' = [todo EXCEPT ![r] = items]
  BY DEF Enter
<1>3. Typed'
  BY <1>1, <1>2, SMT DEF Inv, Typed, Phase
<1>4. ReportsAreTrue'
  BY <1>1, <1>2, SMT DEF Inv, Typed, ReportsAreTrue
<1>5. LedgerNeverOverstates'
  BY <1>1 DEF Inv, LedgerNeverOverstates
<1> QED BY <1>3, <1>4, <1>5 DEF Inv

(* Dealing with one row leaves fewer to deal with.                         *)
LEMMA DoneInv ==
  ASSUME Typed, ReportsAreTrue, NEW r \in Run, NEW item, Done(r, item),
         UNCHANGED filled
  PROVE  /\ ReportsAreTrue'
         /\ DOMAIN todo' = Run
         /\ \A q \in Run :
             pc'[q] = "metrics" => todo'[q] \subseteq Oid /\ ts'[q] \in Nat
BY SMT DEF Typed, ReportsAreTrue, Done

(* Every step keeps the first invariant.                                   *)
LEMMA NextInv ==
  ASSUME Inv, [Next]_vars
  PROVE  Inv'
<1> USE DEF Inv
<1>1. CASE Tick
  BY <1>1, SMT DEF Tick, brokers, ledger, runs, Typed, ReportsAreTrue,
    LedgerNeverOverstates
<1>2. ASSUME NEW o \in Oid, Accept(o) PROVE Inv'
  BY <1>2, SMT DEF Accept, runs, Typed, ReportsAreTrue, LedgerNeverOverstates
<1>3. ASSUME NEW o \in Oid, Fill(o) PROVE Inv'
  <2>1. Typed'
    BY <1>3, QtyAssumption, SMT DEF Fill, runs, ledger, Typed
  <2>2. \A q \in Oid : filled[q] <= filled'[q]
    BY <1>3, SMT DEF Fill, Typed
  <2>3. ReportsAreTrue'
    BY <1>3, <2>2, QtyAssumption, SMT
    DEF Fill, runs, Typed, ReportsAreTrue, Report, Qty
  <2>4. LedgerNeverOverstates'
    BY <1>3, <2>2, QtyAssumption, SMT DEF Fill, ledger, Typed,
      LedgerNeverOverstates
  <2> QED BY <2>1, <2>3, <2>4
<1>4. ASSUME NEW o \in Oid, LogSubmit(o) PROVE Inv'
  BY <1>4, SMT DEF LogSubmit, brokers, runs, Typed, ReportsAreTrue,
    LedgerNeverOverstates
<1>5. ASSUME NEW r \in Run, Poll(r) PROVE Inv'
  <2>1. Typed'
    BY <1>5, SMT DEF Poll, Enter, Idle, brokers, ledger, Typed, Phase
  <2>2. \A o \in Listed : filled[o] \in Qty
    BY QtyAssumption, SMT DEF Listed, Typed, Qty
  <2>3. ReportsAreTrue'
    <3>1. pc' = [pc EXCEPT ![r] = "log"] /\ filled' = filled
      BY <1>5 DEF Poll, Enter, brokers
    <3>2. todo' = [todo EXCEPT ![r] = Reports]
      BY <1>5 DEF Poll, Enter
    <3>3. \A report \in todo'[r] :
            report \in Report /\ report.qty <= filled[report.oid]
      BY <3>2, <2>2, QtyAssumption, SMT DEF Typed, Reports, Listed, Report, Qty
    <3> QED BY <3>1, <3>2, <3>3 DEF ReportsAreTrue, Typed
  <2>4. LedgerNeverOverstates'
    BY <1>5 DEF Poll, brokers, ledger, LedgerNeverOverstates
  <2> QED BY <2>1, <2>3, <2>4
<1>6. ASSUME NEW r \in Run, LogFill(r) PROVE Inv'
  <2>1. PICK report \in todo[r] :
          /\ Done(r, report)
          /\ fills' \in {fills, [fills EXCEPT ![report.oid] =
                                   Logged(report.oid, report.qty)]}
    BY <1>6 DEF LogFill
  <2>2. /\ UNCHANGED <<now, filled, orders, unlogged, metrics, pc, ts>>
        /\ report \in Report /\ report.qty <= filled[report.oid]
    BY <1>6, <2>1 DEF LogFill, brokers, Done, ReportsAreTrue
  <2>3. /\ fills' \in [Oid -> 0..MaxQty]
        /\ \A o \in Oid : fills'[o] <= filled[o]
        /\ \A o \in Oid : fills[o] # 0 => fills'[o] = fills[o]
    BY <2>1, <2>2, QtyAssumption, SMT
    DEF Typed, LedgerNeverOverstates, Logged, Report, Qty
  <2>4. \A o \in Oid : metrics[o] # NoRow => fills[o] # 0
    BY QtyAssumption, SMT DEF Typed, LedgerNeverOverstates, Metric, Qty
  <2>5. LedgerNeverOverstates'
    BY <2>2, <2>3, <2>4 DEF LedgerNeverOverstates
  <2>6. /\ ReportsAreTrue'
        /\ DOMAIN todo' = Run
        /\ \A q \in Run :
             pc'[q] = "metrics" => todo'[q] \subseteq Oid /\ ts'[q] \in Nat
    BY <2>1, <2>2, DoneInv
  <2> QED BY <2>2, <2>3, <2>5, <2>6 DEF Typed
<1>7. ASSUME NEW r \in Run, StartMetrics(r) PROVE Inv'
  BY <1>7, OutsideInv, SMT DEF StartMetrics, Typed, Phase
<1>8. ASSUME NEW r \in Run, WriteMetric(r) PROVE Inv'
  <2>1. PICK o \in todo[r] :
          Done(r, o) /\ metrics' = [metrics EXCEPT ![o] = Measured(o, ts[r])]
    BY <1>8 DEF WriteMetric
  <2>2. /\ UNCHANGED <<now, filled, fills, orders, unlogged, pc, ts>>
        /\ o \in Oid /\ ts[r] \in Nat
    BY <1>8, <2>1 DEF WriteMetric, brokers, Done, Typed
  <2>3. /\ metrics' \in [Oid -> Metric \cup {NoRow}]
        /\ \A q \in Oid : metrics'[q] # NoRow => metrics'[q].qty = fills[q]
    <3>1. Measured(o, ts[r]) \in Metric \cup {NoRow}
      BY <2>2, QtyAssumption, SMT DEF Measured, Metric, Qty, Typed
    <3>2. Measured(o, ts[r]) # NoRow => Measured(o, ts[r]).qty = fills[o]
      BY <2>2, SMT DEF Measured, LedgerNeverOverstates, Typed
    <3> QED BY <2>1, <2>2, <3>1, <3>2, SMT DEF Typed, LedgerNeverOverstates
  <2>4. LedgerNeverOverstates'
    BY <2>2, <2>3 DEF LedgerNeverOverstates
  <2>5. /\ ReportsAreTrue'
        /\ DOMAIN todo' = Run
        /\ \A q \in Run :
             pc'[q] = "metrics" => todo'[q] \subseteq Oid /\ ts'[q] \in Nat
    BY <2>1, <2>2, DoneInv
  <2> QED BY <2>2, <2>3, <2>4, <2>5 DEF Typed
<1>9. ASSUME NEW r \in Run, FindMetrics(r) \/ FindPnl(r) PROVE Inv'
  <2>1. PICK phase \in Phase \ {"log", "metrics"} : Enter(r, phase, {})
    BY <1>9, SMT DEF FindMetrics, FindPnl, Phase
  <2>2. DOMAIN ts' = Run /\ \A q \in Run \ {r} : ts'[q] = ts[q]
    BY <1>9, SMT DEF FindMetrics, FindPnl, Typed
  <2> QED
    BY <1>9, <2>1, <2>2, OutsideInv DEF FindMetrics, FindPnl
<1>10. ASSUME NEW r \in Run,
              StartAttribution(r) \/ StartCopy(r) \/ Check(r) \/ Die(r)
       PROVE  Inv'
  BY <1>10, OutsideInv, SMT
  DEF StartAttribution, StartCopy, Check, Die, Stop, Typed, Phase
<1>11. ASSUME NEW r \in Run, Attribute(r) \/ Copy(r) PROVE Inv'
  <2>1. PICK item : Done(r, item)
    BY <1>11 DEF Attribute, Copy
  <2>2. UNCHANGED <<now, filled, fills, metrics, orders, unlogged, pc, ts>>
    BY <1>11, <2>1 DEF Attribute, Copy, brokers, Done
  <2>3. /\ ReportsAreTrue'
        /\ DOMAIN todo' = Run
        /\ \A q \in Run :
             pc'[q] = "metrics" => todo'[q] \subseteq Oid /\ ts'[q] \in Nat
    BY <2>1, <2>2, DoneInv
  <2> QED BY <2>2, <2>3 DEF Typed, LedgerNeverOverstates
<1>12. CASE UNCHANGED vars
  BY <1>12, SMT DEF vars, ledger, runs, Typed, ReportsAreTrue,
    LedgerNeverOverstates
<1> QED
  BY <1>1, <1>2, <1>3, <1>4, <1>5, <1>6, <1>7, <1>8, <1>9, <1>10, <1>11,
    <1>12
  DEF Next, RunStep

(* No logged fill exceeds what the broker has filled, and every metric is  *)
(* of the logged fill, for any orders and any runs that overlap or die.    *)
THEOREM NeverOverstates == Spec => []LedgerNeverOverstates
<1>1. Inv => LedgerNeverOverstates
  BY DEF Inv
<1> QED BY <1>1, InitInv, NextInv, PTL DEF Spec

(* Whatever is reported of an order after its first logged fill is dropped.*)
THEOREM FirstStands == Spec => FirstReportStands
<1>1. ASSUME Inv, [Next]_vars
      PROVE  \A o \in Oid : fills[o] # 0 => fills'[o] = fills[o]
  <2>1. ASSUME NEW r \in Run, LogFill(r)
        PROVE  \A o \in Oid : fills[o] # 0 => fills'[o] = fills[o]
    BY <1>1, <2>1, SMT DEF LogFill, Logged, Inv, Typed
  <2>2. CASE ~\E r \in Run : LogFill(r)
    <3>1. UNCHANGED fills
      BY <1>1, <2>2, Zenon DEF Next, RunStep, Tick, Accept, Fill, LogSubmit,
        Poll, StartMetrics, WriteMetric, FindMetrics, StartAttribution,
        Attribute, FindPnl, StartCopy, Copy, Check, Die, vars, ledger
    <3> QED BY <3>1
  <2> QED BY <2>1, <2>2
<1>2. Inv /\ [Next]_vars =>
        [\A o \in Oid : fills[o] # 0 => fills'[o] = fills[o]]_vars
  BY <1>1
<1> QED BY <1>2, InitInv, NextInv, PTL DEF Spec, FirstReportStands

-----------------------------------------------------------------------------
(* What a run has still to go through, and from when its snapshot is.      *)
Fits(phase, items) ==
  /\ phase \in {"idle", "newest_metric", "newest_pnl"} => items = {}
  /\ phase = "metrics" => items \subseteq orders
  /\ phase = "attribute" =>
       items \subseteq PnlRow /\ \A row \in items : row.ts <= now
  /\ phase = "copy" => items \subseteq Key

RunOK(r) == ts[r] <= now /\ Fits(pc[r], todo[r])

Marks == apart \in BOOLEAN /\ alone \in BOOLEAN

(* The other types, and the times: only logged orders have metrics, they   *)
(* are finitely many, and nothing is from the future.                      *)
Rows ==
  /\ sent \in [Oid -> Nat \cup {NotSent}]
  /\ pnl \subseteq PnlRow /\ trades \subseteq Key /\ Marks
  /\ ts \in [Run -> Nat]
  /\ IsFiniteSet(orders) /\ Measurements \subseteq orders
  /\ \A o \in Measurements : metrics[o].ts <= now
  /\ \A p \in pnl : p.ts <= now
  /\ \A r \in Run : RunOK(r)

(* The marks are a run's own business.                                     *)
LEMMA SameMarks ==
  ASSUME Rows, UNCHANGED ghosts
  PROVE  Marks'
BY DEF Rows, Marks, ghosts

(* The two halves make up the type invariant of the module.                *)
LEMMA RowsType == Inv /\ Rows => TypeOK
<1> SUFFICES ASSUME Inv, Rows PROVE TypeOK
  OBVIOUS
<1>1. ASSUME NEW r \in Run
      PROVE  todo[r] \subseteq
               CASE pc[r] \in {"idle", "newest_metric", "newest_pnl"} -> {}
                 [] pc[r] = "log" -> Report
                 [] pc[r] = "metrics" -> Oid
                 [] pc[r] = "attribute" -> PnlRow
                 [] pc[r] = "copy" -> Key
  <2>1. pc[r] \in Phase /\ RunOK(r)
    BY DEF Inv, Typed, Rows
  <2>2. CASE pc[r] = "log"
    BY <2>2 DEF Inv, ReportsAreTrue
  <2>3. CASE pc[r] = "metrics"
    BY <2>3 DEF Inv, Typed
  <2> QED BY <2>1, <2>2, <2>3, SMT DEF Phase, RunOK, Fits
<1> QED BY <1>1 DEF Inv, Typed, Rows, Marks, TypeOK

(* A bounded set of numbers has its maximum: the one that is least below   *)
(* the bound.                                                              *)
LEMMA MaxOfBounded ==
  ASSUME NEW S \in SUBSET Nat, S # {}, NEW n \in Nat, \A x \in S : x <= n
  PROVE  Max(S) \in S
<1> DEFINE Below == {n - x : x \in S}
<1>1. Below \subseteq Nat /\ Below # {}
  <2>1. \A x \in S : n - x \in Nat
    OBVIOUS
  <2>2. \E x : x \in S
    OBVIOUS
  <2> QED BY <2>1, <2>2, Zenon
<1> DEFINE R == OpToRel(<, Nat)
<1>2. PICK d \in Below : \A e \in Below : <<e, d>> \notin R
  <2> HIDE DEF Below, R
  <2>1. IsWellFoundedOn(R, Nat)
    BY NatLessThanWellFounded DEF R
  <2> QED BY <1>1, <2>1, WFMin
<1>3. \A e \in Below : ~(e < d)
  BY <1>1, <1>2 DEF OpToRel
<1>4. PICK x \in S : d = n - x
  OBVIOUS
<1>5. \A y \in S : x >= y
  BY <1>3, <1>4
<1> QED BY <1>5 DEF Max

(* A sum of metrics is a natural number.                                   *)
LEMMA TotalIsNat ==
  ASSUME Inv, Rows, NEW os, os \subseteq Measurements
  PROVE  Total(os) \in Nat
<1> DEFINE units == os \X (1..MaxQty)
           sold == {u \in units : u[2] <= metrics[u[1]].qty}
<1>1. IsFiniteSet(os)
  BY FS_Subset DEF Rows
<1>2. IsFiniteSet(1..MaxQty)
  BY QtyAssumption, FS_Interval
<1>3. IsFiniteSet(units)
  BY <1>1, <1>2, FS_Product
<1>4. IsFiniteSet(sold)
  BY <1>3, FS_Subset
<1>5. Cardinality(sold) \in Nat
  <2> HIDE DEF sold
  <2> QED BY <1>4, FS_CardinalityType
<1> QED BY <1>5 DEF Total

(* What a run sums up are rows of pnl_attribution, all of one time.        *)
LEMMA SumsAreRows ==
  ASSUME Inv, Rows, NEW t \in Nat
  PROVE  Sums(t) \subseteq PnlRow /\ \A row \in Sums(t) : row.ts = t
<1> DEFINE os == {o \in Measurements \cap orders :
                   metrics[o].ts = t /\ AlertOf[o] # NoAlert}
<1>1. \A a : Total(OfAlert(a, os)) \in Nat
  <2>1. \A a : OfAlert(a, os) \subseteq Measurements
    BY DEF OfAlert
  <2> HIDE DEF os
  <2> QED BY <2>1, TotalIsNat
<1>2. \A o \in os : AlertOf[o] \in Alert
  BY AlertAssumption DEF Measurements
<1>3. Sums(t) = {[ts |-> t, alert |-> AlertOf[o],
                  qty |-> Total(OfAlert(AlertOf[o], os))] : o \in os}
  BY DEF Sums, SumsOf
<1> HIDE DEF os
<1> QED BY <1>1, <1>2, <1>3 DEF PnlRow

(* The newest time of the metrics exists and is the time of one of them.   *)
LEMMA NewestIsOne ==
  ASSUME Inv, Rows, Measurements # {}
  PROVE  /\ NewestMetric \in Nat /\ NewestMetric <= now
         /\ \E o \in Measurements : NewestMetric = metrics[o].ts
<1> DEFINE times == {metrics[o].ts : o \in Measurements}
<1>1. \A o \in Measurements : metrics[o].ts \in Nat /\ metrics[o].ts <= now
  BY SMT DEF Inv, Typed, Rows, Measurements, Metric
<1>2. times \in SUBSET Nat /\ times # {} /\ (\A x \in times : x <= now)
  BY <1>1
<1>3. now \in Nat
  BY DEF Inv, Typed
<1>4. Max(times) \in times
  <2> HIDE DEF times
  <2> QED BY <1>2, <1>3, MaxOfBounded
<1> QED BY <1>1, <1>4 DEF NewestMetric

-----------------------------------------------------------------------------
(* A run goes on to its next phase: the others stay where they are.        *)
LEMMA EnterDoes ==
  ASSUME Inv, NEW r \in Run, NEW phase, NEW items, Enter(r, phase, items)
  PROVE  /\ pc'[r] = phase /\ todo'[r] = items
         /\ \A q \in Run : q # r => pc'[q] = pc[q] /\ todo'[q] = todo[q]
BY DEF Inv, Typed, Enter

(* A run has dealt with one of its rows: the rest of the runs is as        *)
(* before.                                                                 *)
LEMMA DoneDoes ==
  ASSUME Inv, NEW r \in Run, NEW item, Done(r, item)
  PROVE  /\ pc' = pc /\ ts' = ts /\ item \in todo[r]
         /\ todo'[r] = todo[r] \ {item}
         /\ \A q \in Run : q # r => todo'[q] = todo[q]
BY DEF Inv, Typed, Done

(* A step of r: the rows keep their types and times, and so does r.        *)
LEMMA RowsOfStep ==
  ASSUME Inv, Rows, NEW r \in Run, UNCHANGED <<now, sent, orders>>,
         \A q \in Run :
           q # r => pc'[q] = pc[q] /\ todo'[q] = todo[q] /\ ts'[q] = ts[q],
         ts' \in [Run -> Nat], RunOK(r)',
         pnl' \subseteq PnlRow, \A p \in pnl' : p.ts <= now,
         trades' \subseteq Key, Marks',
         Measurements' \subseteq orders,
         \A o \in Measurements' : metrics'[o].ts <= now
  PROVE  Rows'
<1>1. ASSUME NEW q \in Run, q # r
      PROVE  RunOK(q)'
  BY <1>1 DEF Rows, RunOK, Fits
<1>2. \A q \in Run : RunOK(q)'
  BY <1>1
<1> QED BY <1>2 DEF Rows

(* Only r changes its time, to one that is not in the future.              *)
Timed(r) ==
  /\ ts' \in [Run -> Nat] /\ ts'[r] <= now
  /\ \A q \in Run : q # r => ts'[q] = ts[q]

(* A run takes a time that is not in the future.                           *)
LEMMA SetTime ==
  ASSUME Rows, NEW r \in Run, NEW t \in Nat, t <= now, ts' = [ts EXCEPT ![r] = t]
  PROVE  Timed(r)
BY DEF Rows, Timed

(* A run keeps its time.                                                   *)
LEMMA KeepTime ==
  ASSUME Rows, NEW r \in Run, UNCHANGED ts
  PROVE  Timed(r)
BY DEF Rows, RunOK, Timed

(* The same for a step that does not write to the database.                *)
LEMMA RowsOfReader ==
  ASSUME Inv, Rows, NEW r \in Run, UNCHANGED <<now, brokers, ledger>>,
         Marks', NEW phase, NEW items, Enter(r, phase, items),
         Fits(phase, items), Timed(r)
  PROVE  Rows'
<1>1. UNCHANGED <<now, sent, orders, metrics, pnl, trades>>
  BY DEF brokers, ledger
<1>2. RunOK(r)'
  <2>1. pc'[r] = phase /\ todo'[r] = items /\ ts'[r] <= now
    BY EnterDoes DEF Timed
  <2> QED BY <1>1, <2>1 DEF RunOK, Fits
<1>3. Measurements' = Measurements
  BY <1>1 DEF Measurements
<1>4. \A q \in Run : q # r => pc'[q] = pc[q] /\ todo'[q] = todo[q] /\ ts'[q] = ts[q]
  BY EnterDoes DEF Timed
<1> QED BY <1>1, <1>2, <1>3, <1>4, RowsOfStep DEF Rows, Timed

(* Finitely many orders are logged, nothing is measured and nobody runs.   *)
LEMMA InitRows == Init => Rows
BY KeptAssumption, SMT
DEF Init, Rows, RunOK, Fits, Measurements, Marks

(* Every step keeps the types and the times.                               *)
LEMMA NextRows ==
  ASSUME Inv, Rows, [Next]_vars
  PROVE  Rows'
<1>1. CASE Tick
  <2>1. /\ now' = now + 1
        /\ UNCHANGED <<sent, orders, metrics, pnl, trades, pc, todo, ts, ghosts>>
    BY <1>1 DEF Tick, brokers, ledger, runs
  <2>2. Measurements' = Measurements
    BY <2>1 DEF Measurements
  <2>3. \A o \in Measurements : metrics[o].ts \in Nat /\ metrics[o].ts <= now'
    BY <2>1, SMT DEF Inv, Typed, Rows, Measurements, Metric
  <2>4. \A p \in pnl : p.ts <= now'
    BY <2>1, SMT DEF Inv, Typed, Rows, PnlRow
  <2>5. ASSUME NEW r \in Run
        PROVE  RunOK(r)'
    <3>1. ts[r] <= now'
      BY <2>1, SMT DEF Inv, Typed, Rows, RunOK, Fits
    <3>2. pc[r] = "attribute" => \A row \in todo[r] : row.ts <= now'
      BY <2>1, SMT DEF Inv, Typed, Rows, RunOK, Fits, PnlRow
    <3> QED BY <2>1, <3>1, <3>2, Zenon DEF Rows, RunOK, Fits
  <2> QED BY <2>1, <2>2, <2>3, <2>4, <2>5, SameMarks, Zenon DEF Rows
<1>2. ASSUME NEW o \in Oid, Accept(o) \/ Fill(o) \/ LogSubmit(o)
      PROVE  Rows'
  <2>1. UNCHANGED <<now, metrics, pnl, trades, pc, todo, ts, ghosts>>
    BY <1>2 DEF Accept, Fill, LogSubmit, brokers, ledger, runs
  <2>2. orders' \in {orders, orders \cup {o}}
    BY <1>2 DEF Accept, Fill, LogSubmit, ledger
  <2>3. sent' \in [Oid -> Nat \cup {NotSent}]
    BY <1>2, SMT DEF Accept, Fill, LogSubmit, brokers, Inv, Typed, Rows
  <2>4. IsFiniteSet(orders') /\ orders \subseteq orders'
    BY <2>2, FS_AddElement DEF Rows
  <2>5. Measurements' = Measurements
    BY <2>1 DEF Measurements
  <2>6. \A r \in Run : RunOK(r)'
    BY <2>1, <2>4 DEF Rows, RunOK, Fits
  <2> QED BY <2>1, <2>3, <2>4, <2>5, <2>6, SameMarks DEF Rows
<1>3. ASSUME NEW r \in Run, Poll(r)
      PROVE  Rows'
  <2>1. /\ Enter(r, "log", Reports)
        /\ UNCHANGED <<now, brokers, ledger, ts>> /\ Marks'
    BY <1>3 DEF Poll, Rows, Marks
  <2>2. Timed(r) /\ Fits("log", Reports)
    BY <2>1, KeepTime DEF Fits
  <2> QED BY <2>1, <2>2, RowsOfReader
<1>4. ASSUME NEW r \in Run, LogFill(r)
      PROVE  Rows'
  <2>1. PICK report : Done(r, report)
    BY <1>4 DEF LogFill
  <2>2. pc[r] = "log" /\ UNCHANGED <<now, sent, orders, metrics, pnl, trades, ghosts>>
    BY <1>4 DEF LogFill, brokers
  <2>3. RunOK(r)'
    BY <2>1, <2>2, DoneDoes DEF RunOK, Fits, Rows
  <2>4. Measurements' = Measurements
    BY <2>2 DEF Measurements
  <2> QED BY <2>1, <2>2, <2>3, <2>4, DoneDoes, SameMarks, RowsOfStep DEF Rows
<1>5. ASSUME NEW r \in Run, StartMetrics(r)
      PROVE  Rows'
  <2>1. now \in Nat /\ now <= now /\ Marks'
    BY <1>5, SameMarks DEF Inv, Typed, StartMetrics
  <2>2. Timed(r)
    BY <1>5, <2>1, SetTime DEF StartMetrics
  <2>3. Fits("metrics", orders)
    BY DEF Fits
  <2> QED BY <1>5, <2>1, <2>2, <2>3, RowsOfReader DEF StartMetrics
<1>6. ASSUME NEW r \in Run, WriteMetric(r)
      PROVE  Rows'
  <2>1. PICK o \in todo[r] :
          Done(r, o) /\ metrics' = [metrics EXCEPT ![o] = Measured(o, ts[r])]
    BY <1>6 DEF WriteMetric
  <2>2. pc[r] = "metrics" /\ UNCHANGED <<now, sent, orders, pnl, trades, ghosts>>
    BY <1>6 DEF WriteMetric, brokers
  <2>3. o \in orders /\ o \in Oid /\ ts[r] <= now
    BY <2>1, <2>2 DEF Inv, Typed, Rows, RunOK, Fits
  <2>4. RunOK(r)'
    BY <2>1, <2>2, DoneDoes DEF RunOK, Fits, Rows
  <2>5. \A q \in Measurements' : (q \in Measurements /\ metrics'[q] = metrics[q]) \/
                                 (q = o /\ metrics'[q].ts = ts[r])
    BY <2>1, <2>3 DEF Inv, Typed, Measurements, Measured
  <2>6. Measurements' \subseteq orders /\ \A q \in Measurements' : metrics'[q].ts <= now
    BY <2>3, <2>5 DEF Rows
  <2> QED BY <2>1, <2>2, <2>4, <2>6, DoneDoes, SameMarks, RowsOfStep DEF Rows
<1>7. ASSUME NEW r \in Run, FindMetrics(r)
      PROVE  Rows'
  <2>1. UNCHANGED <<now, brokers, ledger, ghosts>> /\ Marks'
    BY <1>7, SameMarks DEF FindMetrics
  <2>2. CASE Measurements = {}
    <3>1. Enter(r, "attribute", {}) /\ UNCHANGED ts
      BY <1>7, <2>2 DEF FindMetrics
    <3>2. Timed(r) /\ Fits("attribute", {})
      BY <3>1, KeepTime DEF Fits
    <3> QED BY <2>1, <3>1, <3>2, RowsOfReader
  <2>3. CASE Measurements # {}
    <3>1. Enter(r, "newest_metric", {}) /\ ts' = [ts EXCEPT ![r] = NewestMetric]
      BY <1>7, <2>3 DEF FindMetrics
    <3>2. Timed(r) /\ Fits("newest_metric", {})
      BY <2>3, <3>1, NewestIsOne, SetTime DEF Fits
    <3> QED BY <2>1, <3>1, <3>2, RowsOfReader
  <2> QED BY <2>2, <2>3
<1>8. ASSUME NEW r \in Run, StartAttribution(r)
      PROVE  Rows'
  <2>1. /\ UNCHANGED <<now, brokers, ledger, ghosts>> /\ Marks'
        /\ Enter(r, "attribute", Sums(ts[r]))
    BY <1>8, SameMarks DEF StartAttribution
  <2>2. Timed(r)
    BY <1>8, KeepTime DEF StartAttribution
  <2>3. Fits("attribute", Sums(ts[r]))
    <3>1. ts[r] \in Nat /\ ts[r] <= now
      BY DEF Rows, RunOK
    <3> QED BY <3>1, SumsAreRows DEF Fits
  <2> QED BY <2>1, <2>2, <2>3, RowsOfReader
<1>9. ASSUME NEW r \in Run, Attribute(r)
      PROVE  Rows'
  <2>1. PICK row \in todo[r] :
          /\ Done(r, row)
          /\ pnl' = {p \in pnl : p.ts # row.ts \/ p.alert # row.alert} \cup {row}
    BY <1>9 DEF Attribute
  <2>2. /\ pc[r] = "attribute"
        /\ UNCHANGED <<now, sent, orders, metrics, trades, ghosts>>
    BY <1>9 DEF Attribute, brokers
  <2>3. row \in PnlRow /\ row.ts <= now
    BY <2>1, <2>2 DEF Rows, RunOK, Fits
  <2>4. pnl' \subseteq PnlRow /\ \A p \in pnl' : p.ts <= now
    BY <2>1, <2>3 DEF Rows
  <2>5. RunOK(r)'
    BY <2>1, <2>2, DoneDoes DEF RunOK, Fits, Rows
  <2>6. Measurements' = Measurements
    BY <2>2 DEF Measurements
  <2> QED BY <2>1, <2>2, <2>4, <2>5, <2>6, DoneDoes, SameMarks, RowsOfStep DEF Rows
<1>10. ASSUME NEW r \in Run, FindPnl(r)
       PROVE  Rows'
  <2>1. UNCHANGED <<now, brokers, ledger, ghosts>> /\ Marks'
    BY <1>10, SameMarks DEF FindPnl
  <2>2. CASE pnl = {}
    <3>1. Enter(r, "copy", {}) /\ UNCHANGED ts
      BY <1>10, <2>2 DEF FindPnl
    <3>2. Timed(r) /\ Fits("copy", {})
      BY <3>1, KeepTime DEF Fits
    <3> QED BY <2>1, <3>1, <3>2, RowsOfReader
  <2>3. CASE pnl # {}
    <3>1. PICK p \in NewestPnl : ts' = [ts EXCEPT ![r] = p.ts]
      BY <1>10, <2>3 DEF FindPnl
    <3>2. p.ts \in Nat /\ p.ts <= now
      BY <3>1 DEF NewestPnl, Rows, PnlRow
    <3>3. Enter(r, "newest_pnl", {})
      BY <1>10, <2>3 DEF FindPnl
    <3>4. Timed(r) /\ Fits("newest_pnl", {})
      BY <3>1, <3>2, SetTime DEF Fits
    <3> QED BY <2>1, <3>3, <3>4, RowsOfReader
  <2> QED BY <2>2, <2>3
<1>11. ASSUME NEW r \in Run, StartCopy(r)
       PROVE  Rows'
  <2> DEFINE keys == {KeyOf(p) : p \in {q \in pnl : q.ts = ts[r]}}
  <2>1. /\ UNCHANGED <<now, brokers, ledger, ghosts>> /\ Marks'
        /\ Enter(r, "copy", keys)
    BY <1>11, SameMarks DEF StartCopy
  <2>2. Timed(r)
    BY <1>11, KeepTime DEF StartCopy
  <2>3. Fits("copy", keys)
    BY DEF Rows, PnlRow, KeyOf, Key, Fits
  <2> HIDE DEF keys
  <2> QED BY <2>1, <2>2, <2>3, RowsOfReader
<1>12. ASSUME NEW r \in Run, Copy(r)
       PROVE  Rows'
  <2>1. PICK key \in todo[r] : Done(r, key) /\ trades' = trades \cup {key}
    BY <1>12 DEF Copy
  <2>2. pc[r] = "copy" /\ UNCHANGED <<now, sent, orders, metrics, pnl, ghosts>>
    BY <1>12 DEF Copy, brokers
  <2>3. trades' \subseteq Key
    BY <2>1, <2>2 DEF Rows, RunOK, Fits
  <2>4. RunOK(r)'
    BY <2>1, <2>2, DoneDoes DEF RunOK, Fits, Rows
  <2>5. Measurements' = Measurements
    BY <2>2 DEF Measurements
  <2> QED BY <2>1, <2>2, <2>3, <2>4, <2>5, DoneDoes, SameMarks, RowsOfStep DEF Rows
<1>13. ASSUME NEW r \in Run, Check(r) \/ Die(r)
       PROVE  Rows'
  <2>1. /\ UNCHANGED <<now, brokers, ledger>> /\ Marks'
        /\ Enter(r, "idle", {}) /\ ts' = [ts EXCEPT ![r] = 0]
    BY <1>13, SameMarks DEF Check, Die, Stop, Marks
  <2>2. 0 \in Nat /\ 0 <= now
    BY DEF Inv, Typed
  <2>3. Timed(r) /\ Fits("idle", {})
    BY <2>1, <2>2, SetTime DEF Fits
  <2> QED BY <2>1, <2>3, RowsOfReader
<1>14. CASE UNCHANGED vars
  BY <1>14, SameMarks DEF vars, brokers, ledger, runs, Rows, RunOK, Fits, Measurements
<1> QED
  BY <1>1, <1>2, <1>3, <1>4, <1>5, <1>6, <1>7, <1>8, <1>9, <1>10, <1>11,
    <1>12, <1>13, <1>14
  DEF Next, RunStep

(* The types, for any orders and runs: a sum of metrics is a number, since *)
(* only finitely many orders are logged, and so the newest time exists.    *)
THEOREM TypeCorrect == Spec => []TypeOK
<1>1. Init => Inv /\ Rows
  BY InitInv, InitRows
<1>2. Inv /\ Rows /\ [Next]_vars => (Inv /\ Rows)'
  BY NextInv, NextRows
<1> QED BY <1>1, <1>2, RowsType, PTL DEF Spec

-----------------------------------------------------------------------------
(* What the orders of an alert sum up to, by their metrics.                *)
Whole == [a \in Alert |-> Total(OfAlert(a, Measurements))]
Right(row) == row.qty = Whole[row.alert]

(* The metrics that are summed up.                                         *)
Summable == {o \in Measurements : AlertOf[o] # NoAlert}

(* The newest sums are right, and every metric of an alert is in one.      *)
Summed ==
  /\ \A p \in NewestPnl : Right(p)
  /\ \A o \in Summable : \E p \in NewestPnl : p.alert = AlertOf[o]

(* The newest sums have their copies; with all runs apart, all sums do.    *)
Copied == \A p \in Orphans : p \notin NewestPnl
AllCopied == apart => Orphans = {}

(* No sum, written or still to be written, is of an alert without a metric.*)
Founded(row) == \E o \in Measurements : AlertOf[o] = row.alert
Rooted ==
  /\ \A p \in pnl : Founded(p)
  /\ \A r \in Run : pc[r] = "attribute" => \A row \in todo[r] : Founded(row)

(* No two runs are under way together.                                     *)
AtMostOneRuns == \A q, r \in Run : Idle(q) \/ Idle(r) \/ q = r

(* While the run measures, the metrics that it has written are of its      *)
(* time, and no sum is of a later one.                                     *)
Measuring(r) ==
  /\ AllCopied
  /\ \A p \in pnl : p.ts <= ts[r]
  /\ \A o \in Measurements :
       metrics[o].ts = ts[r] \/ (pc[r] = "metrics" /\ o \in todo[r])

(* While it attributes, each sum of its time is right or will be replaced, *)
(* and each metric is in a sum that is written or will be.                 *)
Attributing(r) ==
  /\ \A p \in pnl : p.ts <= ts[r]
  /\ \A p \in Orphans : apart => p.ts = ts[r]
  /\ \A row \in todo[r] : row.ts = ts[r] /\ Right(row)
  /\ \A p \in pnl :
       p.ts = ts[r] => Right(p) \/ \E row \in todo[r] : row.alert = p.alert
  /\ \A o \in Summable :
       \/ \E row \in todo[r] : row.alert = AlertOf[o]
       \/ \E p \in pnl : p.ts = ts[r] /\ p.alert = AlertOf[o]

(* While it copies, the sums are right, and it has still to copy each of   *)
(* the newest, with all runs apart each at all, that has no copy.          *)
Copying(r) ==
  Summed /\ \A p \in Orphans : apart \/ p \in NewestPnl => KeyOf(p) \in todo[r]

(* What is known of a run in each of its phases.                           *)
Good(r) ==
  /\ pc[r] \in {"metrics", "newest_metric"} => Measuring(r)
  /\ pc[r] \in {"attribute", "newest_pnl"} => Attributing(r)
  /\ pc[r] = "copy" => Copying(r)

(* No run has begun to measure.                                            *)
Resting == \A r \in Run : pc[r] \in {"idle", "log"}

(* Until the run that came last meets another or dies: what is known of it *)
(* and, between the runs, of the sums.                                     *)
Apart ==
  /\ apart => alone
  /\ alone =>
       /\ AtMostOneRuns
       /\ Resting => AllCopied
       /\ (\A r \in Run : Idle(r)) => Summed /\ Copied
       /\ \A r \in Run : Good(r)

(* Between runs, what is known of the sums is what the property says.      *)
LEMMA ApartAgree == Inv /\ Rows /\ Apart => RunsApartAgree
<1> SUFFICES ASSUME Inv, Rows, Apart, alone, \A r \in Run : Idle(r)
             PROVE  /\ \A p \in NewestPnl :
                         p \notin Orphans /\ p.qty = Total(OfAlert(p.alert, Measurements))
                    /\ \A o \in Measurements :
                         AlertOf[o] # NoAlert => \E p \in NewestPnl : p.alert = AlertOf[o]
                    /\ apart => Orphans = {}
  BY DEF RunsApartAgree
<1>1. Resting
  BY DEF Resting, Idle
<1>2. AllCopied /\ Summed /\ Copied
  BY <1>1 DEF Apart
<1>3. \A p \in NewestPnl : p.alert \in Alert
  BY DEF NewestPnl, Rows, PnlRow
<1> QED BY <1>2, <1>3 DEF Summed, Summable, Copied, AllCopied, Right, Whole

(* The sums follow from the metrics, and the newest from the sums.         *)
LEMMA SameMetrics ==
  ASSUME UNCHANGED metrics
  PROVE  /\ Whole' = Whole /\ Measurements' = Measurements
         /\ Summable' = Summable
BY DEF Whole, Total, OfAlert, Measurements, Summable

(* Without a change of metrics or sums, all that is said of them stays.    *)
LEMMA SamePnl ==
  ASSUME UNCHANGED <<metrics, pnl>>
  PROVE  Summed' = Summed /\ NewestPnl' = NewestPnl
BY SameMetrics DEF Summed, NewestPnl, Right

(* The sums without a copy follow from sums and copies.                    *)
LEMMA SameOrphans ==
  ASSUME UNCHANGED <<pnl, trades>>
  PROVE  Orphans' = Orphans
BY DEF Orphans, KeyOf

(* A step of r beside runs that are idle.                                  *)
LEMMA ApartOfStep ==
  ASSUME NEW r \in Run,
         \A q \in Run : q # r => pc'[q] = "idle",
         apart' => alone', Good(r)',
         pc'[r] \in {"idle", "log"} => AllCopied',
         pc'[r] = "idle" => Summed' /\ Copied'
  PROVE  Apart'
<1>1. AtMostOneRuns'
  BY DEF AtMostOneRuns, Idle
<1>2. \A q \in Run : Good(q)'
  BY DEF Good
<1>3. /\ Resting' => pc'[r] \in {"idle", "log"}
      /\ (\A q \in Run : Idle(q))' => pc'[r] = "idle"
  BY DEF Resting, Idle
<1> QED BY <1>1, <1>2, <1>3 DEF Apart

(* What a run that is not idle knows.                                      *)
LEMMA AloneIn ==
  ASSUME Apart, alone, NEW r \in Run, pc[r] # "idle"
  PROVE  /\ \A q \in Run : q # r => pc[q] = "idle"
         /\ Good(r)
         /\ pc[r] = "log" => AllCopied
<1>1. \A q \in Run : q # r => pc[q] = "idle"
  BY DEF Apart, AtMostOneRuns, Idle
<1>2. pc[r] = "log" => Resting
  BY <1>1 DEF Resting
<1> QED BY <1>1, <1>2 DEF Apart

(* Whatever a run sums up has a metric.                                    *)
LEMMA SumsAreFounded ==
  ASSUME NEW t, NEW row \in Sums(t)
  PROVE  Founded(row)
<1>1. PICK o \in {q \in Measurements \cap orders :
                    metrics[q].ts = t /\ AlertOf[q] # NoAlert} :
        \E qty : row = [ts |-> t, alert |-> AlertOf[o], qty |-> qty]
  BY Zenon DEF Sums, SumsOf
<1>2. o \in Measurements /\ row.alert = AlertOf[o]
  BY <1>1
<1> QED BY <1>2 DEF Founded

(* A metric is only ever replaced by another.                              *)
LEMMA MetricsStay ==
  ASSUME Inv, NEW r \in Run, WriteMetric(r)
  PROVE  Measurements \subseteq Measurements'
<1>1. PICK o \in todo[r] : metrics' = [metrics EXCEPT ![o] = Measured(o, ts[r])]
  BY DEF WriteMetric
<1>2. o \in Oid /\ ts[r] \in Nat
  BY DEF WriteMetric, Inv, Typed
<1>3. metrics[o] # NoRow => fills[o] # 0
  BY <1>2, QtyAssumption, SMT DEF Inv, Typed, LedgerNeverOverstates, Metric, Qty
<1>4. fills[o] # 0 => [ts |-> ts[r], qty |-> fills[o]] \in Metric
  BY <1>2, QtyAssumption, SMT DEF Inv, Typed, Metric, Qty
<1>5. metrics[o] # NoRow => Measured(o, ts[r]) # NoRow
  BY <1>3, <1>4, NoRowAssumption DEF Measured, Metric, Qty
<1> QED BY <1>1, <1>2, <1>5 DEF Inv, Typed, Measurements

(* At first nothing is summed up.                                          *)
LEMMA InitRooted == Init => Rooted
BY DEF Init, Rooted

(* Every sum stays founded, though runs meet and die.                      *)
LEMMA NextRooted ==
  ASSUME Inv, Rooted, [Next]_vars
  PROVE  Rooted'
<1>1. ASSUME Measurements \subseteq Measurements', UNCHANGED pnl,
             \A r \in Run : pc'[r] = "attribute" =>
               \A row \in todo'[r] : Founded(row)
      PROVE  Rooted'
  BY <1>1 DEF Rooted, Founded
<1>2. CASE UNCHANGED <<metrics, pnl, pc, todo>>
  BY <1>2 DEF Rooted, Founded, Measurements
<1>3. ASSUME NEW r \in Run, UNCHANGED <<metrics, pnl>>,
             NEW phase, NEW items, Enter(r, phase, items),
             phase = "attribute" => \A row \in items : Founded(row)
      PROVE  Rooted'
  <2>1. Measurements' = Measurements
    BY <1>3 DEF Measurements
  <2>2. ASSUME NEW q \in Run, pc'[q] = "attribute", NEW row \in todo'[q]
        PROVE  Founded(row)
    BY <1>3, <2>2, EnterDoes DEF Rooted
  <2> QED BY <1>1, <1>3, <2>1, <2>2
<1>4. ASSUME NEW r \in Run, NEW item, Done(r, item), UNCHANGED pnl,
             Measurements \subseteq Measurements'
      PROVE  Rooted'
  <2>1. \A q \in Run : pc'[q] = pc[q] /\ todo'[q] \subseteq todo[q]
    BY <1>4, DoneDoes
  <2> QED BY <1>1, <1>4, <2>1 DEF Rooted
<1>5. ASSUME NEW r \in Run, LogFill(r) \/ WriteMetric(r) \/ Copy(r)
      PROVE  Rooted'
  <2>1. PICK item : Done(r, item)
    BY <1>5 DEF LogFill, WriteMetric, Copy
  <2>2. UNCHANGED pnl
    BY <1>5 DEF LogFill, WriteMetric, Copy
  <2>3. CASE WriteMetric(r)
    BY <2>1, <2>2, <2>3, <1>4, MetricsStay
  <2>4. CASE LogFill(r) \/ Copy(r)
    <3>1. Measurements' = Measurements
      BY <2>4 DEF LogFill, Copy, Measurements
    <3> QED BY <2>1, <2>2, <3>1, <1>4
  <2> QED BY <1>5, <2>3, <2>4
<1>6. ASSUME NEW r \in Run, Attribute(r)
      PROVE  Rooted'
  <2>1. PICK row \in todo[r] :
          /\ Done(r, row)
          /\ pnl' = {p \in pnl : p.ts # row.ts \/ p.alert # row.alert} \cup {row}
    BY <1>6 DEF Attribute
  <2>2. Measurements' = Measurements /\ Founded(row)
    BY <1>6, <2>1 DEF Attribute, Measurements, Rooted
  <2>3. \A q \in Run : pc'[q] = pc[q] /\ todo'[q] \subseteq todo[q]
    BY <2>1, DoneDoes
  <2> QED BY <2>1, <2>2, <2>3 DEF Rooted, Founded
<1>7. ASSUME NEW r \in Run, Poll(r) \/ StartMetrics(r) \/ StartCopy(r) \/ Check(r) \/ Die(r)
      PROVE  Rooted'
  <2>1. UNCHANGED <<metrics, pnl>>
    BY <1>7 DEF Poll, StartMetrics, StartCopy, Check, Die, ledger
  <2>2. \E items :
          \/ Enter(r, "log", items) \/ Enter(r, "metrics", items)
          \/ Enter(r, "copy", items) \/ Enter(r, "idle", items)
    BY <1>7, Zenon DEF Poll, StartMetrics, StartCopy, Check, Die, Stop
  <2> QED BY <2>1, <2>2, <1>3
<1>8. ASSUME NEW r \in Run, FindMetrics(r) \/ FindPnl(r)
      PROVE  Rooted'
  <2>1. UNCHANGED <<metrics, pnl>>
    BY <1>8 DEF FindMetrics, FindPnl, ledger
  <2>2. \E phase : Enter(r, phase, {})
    BY <1>8 DEF FindMetrics, FindPnl
  <2> QED BY <2>1, <2>2, <1>3
<1>9. ASSUME NEW r \in Run, StartAttribution(r)
      PROVE  Rooted'
  <2>1. UNCHANGED <<metrics, pnl>> /\ Enter(r, "attribute", Sums(ts[r]))
    BY <1>9 DEF StartAttribution, ledger
  <2> QED BY <2>1, <1>3, SumsAreFounded
<1>10. (Tick \/ \E o \in Oid : Accept(o) \/ Fill(o) \/ LogSubmit(o)) \/ UNCHANGED vars
         => UNCHANGED <<metrics, pnl, pc, todo>>
  BY DEF Tick, Accept, Fill, LogSubmit, brokers, ledger, runs, vars
<1> QED
  BY <1>2, <1>5, <1>6, <1>7, <1>8, <1>9, <1>10 DEF Next, RunStep

(* The sums of one time, when every metric is of this time.                *)
LEMMA SumsAreRight ==
  ASSUME Inv, Rows, NEW t \in Nat, \A o \in Measurements : metrics[o].ts = t
  PROVE  /\ \A row \in Sums(t) : row.ts = t /\ Right(row)
         /\ \A o \in Summable : \E row \in Sums(t) : row.alert = AlertOf[o]
<1>1. {o \in Measurements \cap orders : metrics[o].ts = t /\ AlertOf[o] # NoAlert} = Summable
  BY DEF Rows, Summable
<1>2. Sums(t) = {[ts |-> t, alert |-> AlertOf[o],
                  qty |-> Total(OfAlert(AlertOf[o], Summable))] : o \in Summable}
  BY <1>1 DEF Sums, SumsOf
<1>3. ASSUME NEW o \in Summable
      PROVE  Whole[AlertOf[o]] = Total(OfAlert(AlertOf[o], Summable))
  <2>1. AlertOf[o] \in Alert
    BY AlertAssumption DEF Summable, Measurements
  <2>2. OfAlert(AlertOf[o], Summable) = OfAlert(AlertOf[o], Measurements)
    BY <2>1, NoAlertAssumption DEF OfAlert, Summable
  <2> QED BY <2>1, <2>2 DEF Whole
<1>4. Sums(t) = {[ts |-> t, alert |-> AlertOf[o], qty |-> Whole[AlertOf[o]]] :
                   o \in Summable}
  BY <1>2, <1>3
<1>5. ASSUME NEW row \in Sums(t)
      PROVE  row.ts = t /\ Right(row)
  <2>1. PICK o \in Summable :
          row = [ts |-> t, alert |-> AlertOf[o], qty |-> Whole[AlertOf[o]]]
    BY <1>4, <1>5
  <2> QED BY <2>1 DEF Right
<1>6. ASSUME NEW o \in Summable
      PROVE  \E row \in Sums(t) : row.alert = AlertOf[o]
  <2> DEFINE row == [ts |-> t, alert |-> AlertOf[o], qty |-> Whole[AlertOf[o]]]
  <2>1. row \in Sums(t)
    BY <1>4
  <2>2. row.alert = AlertOf[o]
    OBVIOUS
  <2> QED BY <2>1, <2>2
<1> QED BY <1>5, <1>6

(* Who has a sum has an alert: a founded sum is of a metric that is summed *)
(* up.                                                                     *)
LEMMA SumsOfSummable ==
  ASSUME Inv, Rows, Rooted, NEW p \in pnl
  PROVE  \E o \in Summable : AlertOf[o] = p.alert
BY NoAlertAssumption DEF Rows, PnlRow, Rooted, Founded, Summable

(* Once all sums are written, the newest are those of the run's time.      *)
LEMMA NewestOfRun ==
  ASSUME Inv, Rows, Rooted, NEW r \in Run, Attributing(r), todo[r] = {}
  PROVE  NewestPnl = {p \in pnl : p.ts = ts[r]} /\ Summed
<1>1. \A o \in Summable : \E p \in pnl : p.ts = ts[r] /\ p.alert = AlertOf[o]
  BY DEF Attributing
<1>2. pnl # {} => \E p \in pnl : p.ts = ts[r]
  BY <1>1, SumsOfSummable
<1>3. \A p \in pnl : p.ts \in Nat /\ ts[r] \in Nat /\ p.ts <= ts[r]
  BY DEF Attributing, Rows, PnlRow
<1>4. NewestPnl = {p \in pnl : p.ts = ts[r]}
  BY <1>2, <1>3 DEF NewestPnl
<1>5. \A p \in NewestPnl : Right(p)
  BY <1>4 DEF Attributing
<1> QED BY <1>1, <1>4, <1>5 DEF Summed

(* Nothing is measured and nobody runs.                                    *)
LEMMA InitApart == Init => Apart
<1> SUFFICES ASSUME Init PROVE Apart
  OBVIOUS
<1>1. Measurements = {} /\ pnl = {} /\ Orphans = {} /\ NewestPnl = {}
  BY DEF Init, Measurements, Orphans, NewestPnl
<1>2. alone /\ \A r \in Run : pc[r] = "idle"
  BY DEF Init
<1>3. Summed /\ Copied /\ AllCopied
  BY <1>1 DEF Summed, Summable, Copied, AllCopied
<1> QED BY <1>2, <1>3 DEF Apart, AtMostOneRuns, Idle, Good

(* With the sums, the copies and the marks goes what needs a copy.         *)
LEMMA SameCopies ==
  ASSUME UNCHANGED <<pnl, trades, ghosts>>
  PROVE  Orphans' = Orphans /\ AllCopied' = AllCopied /\ apart' = apart
BY SameOrphans DEF AllCopied, ghosts

(* Every step keeps what is known of the one run.                          *)
LEMMA NextApart ==
  ASSUME Inv, Rows, Rooted, Apart, [Next]_vars
  PROVE  Apart'
<1>1. CASE UNCHANGED <<metrics, pnl, trades, pc, todo, ts, ghosts>>
  <2>1. /\ Summed' = Summed /\ NewestPnl' = NewestPnl
        /\ Orphans' = Orphans /\ AllCopied' = AllCopied
        /\ Whole' = Whole /\ Measurements' = Measurements
        /\ Summable' = Summable /\ apart' = apart /\ alone' = alone
    BY <1>1, SameMetrics, SamePnl, SameCopies DEF ghosts
  <2>2. \A r \in Run : Good(r) => Good(r)'
    BY <1>1, <2>1 DEF Good, Measuring, Attributing, Copying, Right
  <2>3. AtMostOneRuns' = AtMostOneRuns /\ Resting' = Resting /\ Copied' = Copied
    BY <1>1, <2>1 DEF AtMostOneRuns, Idle, Resting, Copied
  <2>4. (\A r \in Run : Idle(r))' <=> \A r \in Run : Idle(r)
    BY <1>1 DEF Idle
  <2> QED BY <2>1, <2>2, <2>3, <2>4 DEF Apart
<1>2. ASSUME NEW r \in Run, Poll(r)
      PROVE  Apart'
  <2>1. (apart' => apart /\ alone') /\ (alone' => \A q \in Run : Idle(q))
    BY <1>2, Zenon DEF Poll
  <2>2. CASE ~alone'
    BY <2>1, <2>2 DEF Apart
  <2>3. CASE alone'
    <3>1. /\ Resting /\ UNCHANGED <<metrics, pnl, trades>>
          /\ pc'[r] = "log" /\ \A q \in Run : q # r => pc'[q] = "idle"
      BY <1>2, <2>1, <2>3, EnterDoes DEF Poll, ledger, Idle, Resting
    <3>2. AllCopied'
      BY <2>1, <3>1, SameOrphans DEF Apart, AllCopied
    <3>3. Good(r)'
      BY <3>1 DEF Good
    <3> QED BY <2>1, <3>1, <3>2, <3>3, ApartOfStep
  <2> QED BY <2>2, <2>3
<1>3. ASSUME NEW r \in Run, Die(r)
      PROVE  Apart'
  BY <1>3 DEF Die, Apart
<1>4. CASE UNCHANGED ghosts /\ ~alone
  BY <1>4 DEF Apart, ghosts
<1>5. ASSUME UNCHANGED ghosts
      PROVE  apart' => alone'
  BY <1>5 DEF Apart, ghosts
<1>6. ASSUME NEW r \in Run, LogFill(r), alone
      PROVE  Apart'
  <2>1. PICK report : Done(r, report)
    BY <1>6 DEF LogFill
  <2>2. pc[r] = "log" /\ UNCHANGED <<metrics, pnl, trades, pc, ghosts>>
    BY <1>6, <2>1, DoneDoes DEF LogFill
  <2>3. AllCopied /\ \A q \in Run : q # r => pc'[q] = "idle"
    BY <1>6, <2>2, AloneIn
  <2>4. AllCopied'
    BY <2>2, <2>3, SameCopies
  <2>5. Good(r)'
    BY <2>2 DEF Good
  <2> QED BY <1>5, <2>2, <2>3, <2>4, <2>5, ApartOfStep
<1>7. ASSUME NEW r \in Run, StartMetrics(r), alone
      PROVE  Apart'
  <2>1. /\ pc[r] = "log" /\ ts'[r] = now
        /\ UNCHANGED <<metrics, pnl, trades, ghosts>>
        /\ pc'[r] = "metrics" /\ todo'[r] = orders
        /\ \A q \in Run : q # r => pc'[q] = pc[q]
    BY <1>7, EnterDoes DEF StartMetrics, Free, ledger, Rows
  <2>2. AllCopied /\ \A q \in Run : q # r => pc'[q] = "idle"
    BY <1>7, <2>1, AloneIn
  <2>3. AllCopied' /\ Measurements' = Measurements
    BY <2>1, <2>2, SameCopies, SameMetrics
  <2>4. Measuring(r)'
    BY <2>1, <2>3 DEF Measuring, Rows
  <2>5. Good(r)'
    BY <2>1, <2>4 DEF Good
  <2> QED BY <1>5, <2>1, <2>2, <2>5, ApartOfStep
<1>8. ASSUME NEW r \in Run, WriteMetric(r), alone
      PROVE  Apart'
  <2>1. PICK o \in todo[r] :
          Done(r, o) /\ metrics' = [metrics EXCEPT ![o] = Measured(o, ts[r])]
    BY <1>8 DEF WriteMetric
  <2>2. /\ pc[r] = "metrics" /\ UNCHANGED <<pnl, trades, pc, ts, ghosts>>
        /\ todo'[r] = todo[r] \ {o}
    BY <1>8, <2>1, DoneDoes DEF WriteMetric
  <2>3. Measuring(r) /\ \A q \in Run : q # r => pc'[q] = "idle"
    BY <1>8, <2>2, AloneIn DEF Good
  <2>4. o \in Oid /\ ts[r] \in Nat
    BY <2>1, <2>2 DEF Inv, Typed
  <2>5. metrics'[o] # NoRow => metrics'[o].ts = ts[r]
    <3>1. metrics'[o] = Measured(o, ts[r])
      BY <2>1, <2>4 DEF Inv, Typed
    <3>2. metrics[o] # NoRow => fills[o] # 0
      BY <2>4, QtyAssumption, SMT
      DEF Inv, Typed, LedgerNeverOverstates, Metric, Qty
    <3> QED BY <3>1, <3>2 DEF Measured
  <2>6. \A q \in Oid : q # o => metrics'[q] = metrics[q]
    BY <2>1 DEF Inv, Typed
  <2>7. Measuring(r)'
    <3>1. AllCopied' /\ \A p \in pnl' : p.ts <= ts'[r]
      BY <2>2, <2>3, SameCopies DEF Measuring
    <3>2. ASSUME NEW q \in Measurements'
          PROVE  metrics'[q].ts = ts'[r] \/ (pc'[r] = "metrics" /\ q \in todo'[r])
      <4>1. CASE q = o
        BY <3>2, <4>1, <2>2, <2>5 DEF Measurements
      <4>2. CASE q # o
        BY <3>2, <4>2, <2>2, <2>3, <2>6 DEF Measuring, Measurements
      <4> QED BY <4>1, <4>2
    <3> QED BY <3>1, <3>2 DEF Measuring
  <2>8. Good(r)'
    BY <2>2, <2>7 DEF Good
  <2> QED BY <1>5, <2>2, <2>3, <2>8, ApartOfStep
<1>9. ASSUME NEW r \in Run, FindMetrics(r), alone
      PROVE  Apart'
  <2>1. /\ pc[r] = "metrics" /\ todo[r] = {}
        /\ UNCHANGED <<metrics, pnl, trades, ghosts>>
    BY <1>9 DEF FindMetrics, Free, ledger
  <2>2. Measuring(r) /\ \A q \in Run : q # r => pc[q] = "idle"
    BY <1>9, <2>1, AloneIn DEF Good
  <2>3. AllCopied' /\ Measurements' = Measurements /\ Summable' = Summable
    BY <2>1, <2>2, SameCopies, SameMetrics DEF Measuring
  <2>4. \A o \in Measurements : metrics[o].ts = ts[r]
    BY <2>1, <2>2 DEF Measuring
  <2>5. CASE Measurements = {}
    <3>1. /\ pc'[r] = "attribute" /\ todo'[r] = {} /\ UNCHANGED ts
          /\ \A q \in Run : q # r => pc'[q] = pc[q]
      BY <1>9, <2>5, EnterDoes DEF FindMetrics
    <3>2. pnl' = {} /\ Orphans' = {} /\ Summable' = {}
      BY <2>1, <2>3, <2>5 DEF Rooted, Founded, Orphans, Summable
    <3>3. Attributing(r)'
      BY <3>1, <3>2 DEF Attributing
    <3>4. Good(r)'
      BY <3>1, <3>3 DEF Good
    <3> QED BY <1>5, <2>1, <2>2, <3>1, <3>4, ApartOfStep
  <2>6. CASE Measurements # {}
    <3>1. /\ pc'[r] = "newest_metric" /\ ts'[r] = NewestMetric
          /\ \A q \in Run : q # r => pc'[q] = pc[q]
      BY <1>9, <2>6, EnterDoes DEF FindMetrics, Rows
    <3>2. ts'[r] = ts[r]
      BY <2>4, <2>6, <3>1, NewestIsOne
    <3>3. Measuring(r)'
      BY <2>1, <2>2, <2>3, <2>4, <3>1, <3>2 DEF Measuring
    <3>4. Good(r)'
      BY <3>1, <3>3 DEF Good
    <3> QED BY <1>5, <2>1, <2>2, <3>1, <3>4, ApartOfStep
  <2> QED BY <2>5, <2>6
<1>10. ASSUME NEW r \in Run, StartAttribution(r), alone
       PROVE  Apart'
  <2>1. /\ pc[r] = "newest_metric" /\ todo[r] = {}
        /\ UNCHANGED <<metrics, pnl, trades, ts, ghosts>>
        /\ pc'[r] = "attribute" /\ todo'[r] = Sums(ts[r])
        /\ \A q \in Run : q # r => pc'[q] = pc[q]
    BY <1>10, EnterDoes DEF StartAttribution, Free, ledger
  <2>2. Measuring(r) /\ \A q \in Run : q # r => pc'[q] = "idle"
    BY <1>10, <2>1, AloneIn DEF Good
  <2>3. /\ AllCopied' /\ Summable' = Summable
        /\ Measurements' = Measurements /\ Whole' = Whole
    BY <2>1, <2>2, SameCopies, SameMetrics DEF Measuring
  <2>4. /\ \A row \in todo'[r] : row.ts = ts[r] /\ Right(row)
        /\ \A o \in Summable : \E row \in todo'[r] : row.alert = AlertOf[o]
    <3>1. ts[r] \in Nat /\ \A o \in Measurements : metrics[o].ts = ts[r]
      BY <2>1, <2>2 DEF Measuring, Rows
    <3> QED BY <2>1, <3>1, SumsAreRight
  <2>5. \A p \in pnl : \E row \in todo'[r] : row.alert = p.alert
    BY <2>4, SumsOfSummable
  <2>6. Attributing(r)'
    <3>1. \A p \in Orphans' : apart' => p.ts = ts'[r]
      BY <2>3 DEF AllCopied
    <3> QED BY <2>1, <2>2, <2>3, <2>4, <2>5, <3>1 DEF Attributing, Measuring, Right
  <2>7. Good(r)'
    BY <2>1, <2>6 DEF Good
  <2> QED BY <1>5, <2>1, <2>2, <2>7, ApartOfStep
<1>11. ASSUME NEW r \in Run, Attribute(r), alone
       PROVE  Apart'
  <2>1. PICK row \in todo[r] :
          /\ Done(r, row)
          /\ pnl' = {p \in pnl : p.ts # row.ts \/ p.alert # row.alert} \cup {row}
    BY <1>11 DEF Attribute
  <2>2. /\ pc[r] = "attribute" /\ UNCHANGED <<metrics, trades, pc, ts, ghosts>>
        /\ todo'[r] = todo[r] \ {row}
    BY <1>11, <2>1, DoneDoes DEF Attribute
  <2>3. Attributing(r) /\ \A q \in Run : q # r => pc'[q] = "idle"
    BY <1>11, <2>2, AloneIn DEF Good
  <2>4. row.ts = ts[r] /\ Right(row)
    BY <2>1, <2>3 DEF Attributing
  <2>5. Summable' = Summable /\ Whole' = Whole /\ apart' = apart
    BY <2>2, SameMetrics DEF ghosts
  <2>6. Attributing(r)'
    <3>1. ts[r] \in Nat /\ row \in PnlRow
      BY <2>1, <2>2 DEF Rows, RunOK, Fits
    <3>2. \A p \in pnl' : p.ts <= ts[r]
      BY <2>1, <2>3, <2>4, <3>1 DEF Attributing
    <3>3. \A p \in Orphans' : apart => p.ts = ts[r]
      BY <2>1, <2>2, <2>3, <2>4 DEF Attributing, Orphans
    <3>4. \A x \in todo'[r] : x.ts = ts[r] /\ Right(x)
      BY <2>2, <2>3 DEF Attributing
    <3>5. ASSUME NEW p \in pnl', p.ts = ts[r]
          PROVE  Right(p) \/ \E x \in todo'[r] : x.alert = p.alert
      <4>1. CASE p = row
        BY <2>4, <4>1
      <4>2. CASE p # row
        <5>1. p \in pnl /\ p.alert # row.alert
          BY <2>1, <2>4, <3>5, <4>2
        <5> QED BY <2>2, <2>3, <3>5, <5>1 DEF Attributing
      <4> QED BY <4>1, <4>2
    <3>6. ASSUME NEW o \in Summable
          PROVE  \/ \E x \in todo'[r] : x.alert = AlertOf[o]
                 \/ \E p \in pnl' : p.ts = ts[r] /\ p.alert = AlertOf[o]
      <4>1. CASE row.alert = AlertOf[o]
        BY <2>1, <2>4, <4>1
      <4>2. CASE row.alert # AlertOf[o]
        <5>1. CASE \E x \in todo[r] : x.alert = AlertOf[o]
          BY <2>2, <4>2, <5>1
        <5>2. CASE \E p \in pnl : p.ts = ts[r] /\ p.alert = AlertOf[o]
          BY <2>1, <4>2, <5>2
        <5> QED BY <2>3, <5>1, <5>2 DEF Attributing
      <4> QED BY <4>1, <4>2
    <3> QED
      BY <2>2, <2>5, <3>2, <3>3, <3>4, <3>5, <3>6 DEF Attributing, Right
  <2>7. Good(r)'
    BY <2>2, <2>6 DEF Good
  <2> QED BY <1>5, <2>2, <2>3, <2>7, ApartOfStep
<1>12. ASSUME NEW r \in Run, FindPnl(r), alone
       PROVE  Apart'
  <2>1. /\ pc[r] = "attribute" /\ todo[r] = {}
        /\ UNCHANGED <<metrics, pnl, trades, ghosts>>
    BY <1>12 DEF FindPnl, Free, ledger
  <2>2. Attributing(r) /\ \A q \in Run : q # r => pc[q] = "idle"
    BY <1>12, <2>1, AloneIn DEF Good
  <2>3. /\ Orphans' = Orphans /\ apart' = apart
        /\ Summable' = Summable /\ Whole' = Whole
    BY <2>1, SameCopies, SameMetrics
  <2>4. NewestPnl = {p \in pnl : p.ts = ts[r]} /\ Summed'
    BY <2>1, <2>2, NewestOfRun, SamePnl
  <2>5. CASE pnl = {}
    <3>1. /\ pc'[r] = "copy"
          /\ \A q \in Run : q # r => pc'[q] = pc[q]
      BY <1>12, <2>5, EnterDoes DEF FindPnl
    <3>2. Orphans' = {}
      BY <2>3, <2>5 DEF Orphans
    <3>3. Good(r)'
      BY <2>4, <3>1, <3>2 DEF Good, Copying
    <3> QED BY <1>5, <2>1, <2>2, <3>1, <3>3, ApartOfStep
  <2>6. CASE pnl # {}
    <3>1. PICK p \in NewestPnl : ts' = [ts EXCEPT ![r] = p.ts]
      BY <1>12, <2>6 DEF FindPnl
    <3>2. /\ pc'[r] = "newest_pnl" /\ todo'[r] = {}
          /\ \A q \in Run : q # r => pc'[q] = pc[q]
      BY <1>12, <2>6, EnterDoes DEF FindPnl
    <3>3. ts'[r] = ts[r]
      BY <2>4, <3>1 DEF Rows
    <3>4. Attributing(r)'
      BY <2>1, <2>2, <2>3, <3>2, <3>3 DEF Attributing, Right
    <3>5. Good(r)'
      BY <3>2, <3>4 DEF Good
    <3> QED BY <1>5, <2>1, <2>2, <3>2, <3>5, ApartOfStep
  <2> QED BY <2>5, <2>6
<1>13. ASSUME NEW r \in Run, StartCopy(r), alone
       PROVE  Apart'
  <2>1. /\ pc[r] = "newest_pnl"
        /\ UNCHANGED <<metrics, pnl, trades, ghosts>>
        /\ pc'[r] = "copy"
        /\ todo'[r] = {KeyOf(p) : p \in {q \in pnl : q.ts = ts[r]}}
        /\ \A q \in Run : q # r => pc'[q] = pc[q]
    BY <1>13, EnterDoes DEF StartCopy, Free, ledger
  <2>2. /\ \A q \in Run : q # r => pc'[q] = "idle"
        /\ Attributing(r) /\ todo[r] = {}
    BY <1>13, <2>1, AloneIn DEF Good, Rows, RunOK, Fits
  <2>3. Summed /\ NewestPnl = {p \in pnl : p.ts = ts[r]}
    BY <2>2, NewestOfRun
  <2>4. /\ Orphans' = Orphans /\ Summed' /\ apart' = apart
        /\ NewestPnl' = NewestPnl
    BY <2>1, <2>3, SamePnl, SameCopies
  <2>5. \A p \in Orphans :
          p \in pnl /\ (apart \/ p \in NewestPnl => p.ts = ts[r])
    BY <2>2, <2>3 DEF Attributing, Orphans
  <2>6. Copying(r)'
    BY <2>1, <2>4, <2>5 DEF Copying, KeyOf
  <2>7. Good(r)'
    BY <2>1, <2>6 DEF Good
  <2> QED BY <1>5, <2>1, <2>2, <2>7, ApartOfStep
<1>14. ASSUME NEW r \in Run, Copy(r), alone
       PROVE  Apart'
  <2>1. PICK key \in todo[r] : Done(r, key) /\ trades' = trades \cup {key}
    BY <1>14 DEF Copy
  <2>2. /\ pc[r] = "copy" /\ UNCHANGED <<metrics, pnl, pc, ghosts>>
        /\ todo'[r] = todo[r] \ {key}
    BY <1>14, <2>1, DoneDoes DEF Copy
  <2>3. Copying(r) /\ \A q \in Run : q # r => pc'[q] = "idle"
    BY <1>14, <2>2, AloneIn DEF Good
  <2>4. NewestPnl' = NewestPnl /\ Summed' /\ apart' = apart
    BY <2>2, <2>3, SamePnl DEF Copying, ghosts
  <2>5. \A p \in Orphans' : p \in Orphans /\ KeyOf(p) # key
    BY <2>1, <2>2 DEF Orphans, KeyOf
  <2>6. Copying(r)'
    BY <2>2, <2>3, <2>4, <2>5 DEF Copying, KeyOf
  <2>7. Good(r)'
    BY <2>2, <2>6 DEF Good
  <2> QED BY <1>5, <2>2, <2>3, <2>7, ApartOfStep
<1>15. ASSUME NEW r \in Run, Check(r), alone
       PROVE  Apart'
  <2>1. /\ pc[r] = "copy" /\ todo[r] = {}
        /\ UNCHANGED <<metrics, pnl, trades, ghosts>>
        /\ pc'[r] = "idle" /\ \A q \in Run : q # r => pc'[q] = pc[q]
    BY <1>15, EnterDoes DEF Check, Stop, Free, ledger
  <2>2. Copying(r) /\ \A q \in Run : q # r => pc'[q] = "idle"
    BY <1>15, <2>1, AloneIn DEF Good
  <2>3. Summed /\ Copied /\ AllCopied
    BY <2>1, <2>2 DEF Copying, Copied, AllCopied
  <2>4. Summed' /\ Copied' /\ AllCopied'
    BY <2>1, <2>3, SamePnl, SameCopies DEF Copied
  <2>5. Good(r)'
    BY <2>1 DEF Good
  <2> QED BY <1>5, <2>1, <2>2, <2>4, <2>5, ApartOfStep
<1>16. (Tick \/ \E o \in Oid : Accept(o) \/ Fill(o) \/ LogSubmit(o)) \/ UNCHANGED vars
         => UNCHANGED <<metrics, pnl, trades, pc, todo, ts, ghosts>>
  BY DEF Tick, Accept, Fill, LogSubmit, brokers, ledger, runs, ghosts, vars
<1>17. ASSUME NEW r \in Run, RunStep(r), ~Poll(r), ~Die(r)
       PROVE  UNCHANGED ghosts
  BY <1>17, Zenon
  DEF RunStep, LogFill, StartMetrics, WriteMetric, FindMetrics, StartAttribution,
    Attribute, FindPnl, StartCopy, Copy, Check
<1>18. ASSUME NEW r \in Run, RunStep(r)
       PROVE  Apart'
  <2>1. CASE Poll(r) \/ Die(r)
    BY <2>1, <1>2, <1>3
  <2>2. CASE ~Poll(r) /\ ~Die(r)
    <3>1. CASE ~alone
      BY <1>4, <1>17, <1>18, <2>2, <3>1
    <3>2. CASE alone
      BY <1>18, <2>2, <3>2, <1>6, <1>7, <1>8, <1>9, <1>10, <1>11, <1>12, <1>13,
        <1>14, <1>15, Zenon
      DEF RunStep
    <3> QED BY <3>1, <3>2
  <2> QED BY <2>1, <2>2
<1> QED BY <1>1, <1>16, <1>18 DEF Next

(* A run that met no other and did not die leaves the newest sums right,   *)
(* each with its copy, and they account for every metric of an order that  *)
(* comes from an alert, whatever the runs before it left undone, for any   *)
(* orders, alerts and times.                                               *)
THEOREM ApartRunsAgree == Spec => []RunsApartAgree
<1>1. Init => Inv /\ Rows /\ Rooted /\ Apart
  BY InitInv, InitRows, InitRooted, InitApart
<1>2. Inv /\ Rows /\ Rooted /\ Apart /\ [Next]_vars
        => (Inv /\ Rows /\ Rooted /\ Apart)'
  BY NextInv, NextRows, NextRooted, NextApart
<1> QED BY <1>1, <1>2, ApartAgree, PTL DEF Spec
=============================================================================
