-------------------------- MODULE ExecutionLedger ---------------------------
(***************************************************************************)
(* What became of the orders: dev_core/execution_ledger.py, filled by the  *)
(* Alpaca adapter and by the runs of execution_poll_and_attrib.main.       *)
(*                                                                         *)
(* A run asks the broker for its recent orders, logs for each of them the  *)
(* quantity that is filled so far, snapshots the metrics of every order    *)
(* under the time of the snapshot, sums the newest snapshot up by alert,   *)
(* copies the newest sums to the trade attribution ledger and then demands *)
(* that every sum ever written has its copy.  Nothing keeps two runs apart *)
(* and the database is in autocommit mode: each row is a transaction of    *)
(* its own, and a run may die or fail between any two.                     *)
(*                                                                         *)
(* Adapter says whether the Alpaca adapter can be imported.  It cannot as  *)
(* it stands: broker_alpaca_rest.py:34 wants a module of dev_core that     *)
(* lies outside, main swallows the error, and since no other adapter logs  *)
(* a fill, a run finds only what an earlier build left in the ledger.      *)
(* TRUE is the code with this module in its place.                         *)
(*                                                                         *)
(* Quantities stand for the amounts computed from them; prices, fees and   *)
(* the efficiency tables, which no later step reads, are left out.  The    *)
(* broker's side of an order, sent and filled, is external.                *)
(***************************************************************************)
EXTENDS Integers, FiniteSets, FiniteSetsExt

CONSTANTS
  Oid,        \* client order ids, "pf_<batch>_<symbol>"
  Alert,      \* source alerts, each with its symbol
  NoAlert,    \* source_alert_id is NULL
  AlertOf,    \* the alert that an order comes from, or NoAlert
  Adapter,    \* the Alpaca adapter can be imported
  Kept,       \* what the ledger holds from before: the quantity filled
  Run,        \* the processes that run execution_poll_and_attrib
  Lookback,   \* POLL_LOOKBACK_S
  MaxQty,     \* bound: the quantity of an order
  NotSent,    \* no order that the broker lists
  NoRow       \* execution_metrics holds no row for the order

ASSUME AlertAssumption == AlertOf \in [Oid -> Alert \cup {NoAlert}]
ASSUME NoAlertAssumption == NoAlert \notin Alert
ASSUME AdapterAssumption == Adapter \in BOOLEAN
ASSUME LookbackAssumption == Lookback \in Nat
ASSUME QtyAssumption == MaxQty \in Nat
ASSUME KeptAssumption == Kept \in [Oid -> 0..MaxQty] /\ IsFiniteSet({o \in Oid : Kept[o] > 0})
ASSUME NotSentAssumption == NotSent \notin Nat
ASSUME NoRowAssumption == NoRow \notin [ts : Nat, qty : 1..MaxQty]

VARIABLES
  now,        \* the wall clock, in seconds
  sent,       \* the broker's orders: when it accepted them
  filled,     \* and what it filled of them so far
  unlogged,   \* accepted, and log_submit not called yet
  orders,     \* the rows of execution_orders
  fills,      \* execution_fills: the quantity of the order's only row, or 0
  metrics,    \* execution_metrics: the order's only row
  pnl,        \* the rows of pnl_attribution
  trades,     \* the rows of trade_attribution_ledger, by their key
  pc,         \* what each run is doing
  todo,       \* the rows that it still goes through
  ts,         \* the time of its snapshot, or of the rows that it reads
  apart,      \* ghost: no run died or met another, so far
  alone       \* ghost: nor has the run that came last

brokers == <<sent, filled>>
ledger == <<unlogged, orders, fills, metrics, pnl, trades>>
runs == <<pc, todo, ts>>
ghosts == <<apart, alone>>
vars == <<now, sent, filled, ledger, runs, ghosts>>

-----------------------------------------------------------------------------
Qty == 1..MaxQty
Metric == [ts : Nat, qty : Qty]
Report == [oid : Oid, qty : Qty]
PnlRow == [ts : Nat, alert : Alert, qty : Nat]
Key == [ts : Nat, alert : Alert]
Phase ==
  {"idle", "log", "metrics", "newest_metric", "attribute", "newest_pnl", "copy"}

TypeOK ==
  /\ now \in Nat
  /\ sent \in [Oid -> Nat \cup {NotSent}]
  /\ filled \in [Oid -> 0..MaxQty]
  /\ unlogged \subseteq Oid
  /\ orders \subseteq Oid
  /\ fills \in [Oid -> 0..MaxQty]
  /\ metrics \in [Oid -> Metric \cup {NoRow}]
  /\ pnl \subseteq PnlRow
  /\ trades \subseteq Key
  /\ pc \in [Run -> Phase]
  /\ \A r \in Run :
       todo[r] \subseteq CASE pc[r] \in {"idle", "newest_metric", "newest_pnl"} -> {}
                           [] pc[r] = "log" -> Report
                           [] pc[r] = "metrics" -> Oid
                           [] pc[r] = "attribute" -> PnlRow
                           [] pc[r] = "copy" -> Key
  /\ ts \in [Run -> Nat]
  /\ apart \in BOOLEAN /\ alone \in BOOLEAN

Init ==
  /\ now = 0
  /\ sent = [o \in Oid |-> NotSent]
  /\ filled = Kept /\ fills = Kept
  /\ unlogged = {} /\ orders = {o \in Oid : Kept[o] > 0}
  /\ metrics = [o \in Oid |-> NoRow]
  /\ pnl = {} /\ trades = {}
  /\ pc = [r \in Run |-> "idle"]
  /\ todo = [r \in Run |-> {}]
  /\ ts = [r \in Run |-> 0]
  /\ apart = TRUE /\ alone = TRUE

Tick == now' = now + 1 /\ UNCHANGED <<brokers, ledger, runs, ghosts>>

-----------------------------------------------------------------------------
(* The broker accepts an order and fills it bit by bit; it refuses a       *)
(* client order id that it has seen.                                       *)
Accept(o) ==
  /\ Adapter /\ sent[o] = NotSent /\ Kept[o] = 0
  /\ sent' = [sent EXCEPT ![o] = now]
  /\ unlogged' = unlogged \cup {o}
  /\ UNCHANGED <<now, filled, orders, fills, metrics, pnl, trades, runs, ghosts>>

Fill(o) ==
  /\ sent[o] # NotSent /\ filled[o] < MaxQty
  /\ filled' = [filled EXCEPT ![o] = @ + 1]
  /\ UNCHANGED <<now, sent, ledger, runs, ghosts>>

(* log_submit after the broker's answer; when it fails, or the adapter     *)
(* dies first, the order never gets a row.                                 *)
LogSubmit(o) ==
  /\ o \in unlogged
  /\ unlogged' = unlogged \ {o}
  /\ orders' \in {orders, orders \cup {o}}
  /\ UNCHANGED <<now, brokers, fills, metrics, pnl, trades, runs, ghosts>>

-----------------------------------------------------------------------------
Idle(r) == pc[r] = "idle"
Free(r, phase) == pc[r] = phase /\ todo[r] = {}

Enter(r, phase, items) ==
  /\ pc' = [pc EXCEPT ![r] = phase]
  /\ todo' = [todo EXCEPT ![r] = items]

(* The run has dealt with one of its rows.                                 *)
Done(r, item) ==
  /\ item \in todo[r]
  /\ todo' = [todo EXCEPT ![r] = @ \ {item}]
  /\ UNCHANGED <<pc, ts>>

(* list_orders_after(now - lookback), and the orders with a fill.          *)
Listed ==
  {o \in Oid : sent[o] # NotSent /\ now - sent[o] < Lookback /\ filled[o] > 0}

(* poll_and_log_fills, if it is there, and what becomes of the exception   *)
(* if it is not.                                                           *)
Reports ==
  IF Adapter THEN {[oid |-> o, qty |-> filled[o]] : o \in Listed} ELSE {}

Poll(r) ==
  /\ Idle(r)
  /\ Enter(r, "log", Reports)
  /\ alone' = (\A q \in Run : Idle(q))
  /\ apart' = (apart /\ alone')
  /\ UNCHANGED <<now, brokers, ledger, ts>>

(* _log_fill_v1: client_order_id is UNIQUE, so a second INSERT for an      *)
(* order raises and poll_and_log_fills goes on with the next.  Mutants:    *)
(* every report is a row; the latest report replaces the row.              *)
LoggedEach(o, qty) == fills[o] + qty

LoggedLatest(o, qty) == qty

Logged(o, qty) == IF fills[o] = 0 THEN qty ELSE fills[o]

LogFill(r) ==
  /\ pc[r] = "log"
  /\ \E report \in todo[r] :
       /\ Done(r, report)
       /\ fills' \in {fills, [fills EXCEPT ![report.oid] =
                                Logged(report.oid, report.qty)]}
  /\ UNCHANGED <<now, brokers, unlogged, orders, metrics, pnl, trades, ghosts>>

(* compute_metrics_snapshot: one time for all rows, and a row for each     *)
(* logged order with a fill in place of the order's former row.            *)
StartMetrics(r) ==
  /\ Free(r, "log")
  /\ Enter(r, "metrics", orders)
  /\ ts' = [ts EXCEPT ![r] = now]
  /\ UNCHANGED <<now, brokers, ledger, ghosts>>

(* Mutant: INSERT OR IGNORE.                                               *)
MeasuredOnce(o, t) ==
  IF fills[o] = 0 \/ metrics[o] # NoRow THEN metrics[o]
  ELSE [ts |-> t, qty |-> fills[o]]

Measured(o, t) ==
  IF fills[o] = 0 THEN metrics[o] ELSE [ts |-> t, qty |-> fills[o]]

WriteMetric(r) ==
  /\ pc[r] = "metrics"
  /\ \E o \in todo[r] :
       /\ Done(r, o)
       /\ metrics' = [metrics EXCEPT ![o] = Measured(o, ts[r])]
  /\ UNCHANGED <<now, brokers, unlogged, orders, fills, pnl, trades, ghosts>>

(* compute_pnl_attribution_snapshot: the newest time, and then the orders  *)
(* with a metric of that time, summed up by alert; those without an alert  *)
(* are skipped.                                                            *)
Measurements == {o \in Oid : metrics[o] # NoRow}
NewestMetric == Max({metrics[o].ts : o \in Measurements})

(* Their sum is the number of their units.                                 *)
Total(os) == Cardinality({u \in os \X (1..MaxQty) : u[2] <= metrics[u[1]].qty})

OfAlert(a, os) == {o \in os : AlertOf[o] = a}

SumsOf(t, os) ==
  {[ts |-> t, alert |-> AlertOf[o], qty |-> Total(OfAlert(AlertOf[o], os))] :
     o \in os}

(* Mutant: none is skipped.                                                *)
SumsOfAll(t) == SumsOf(t, {o \in Measurements \cap orders : metrics[o].ts = t})

Sums(t) ==
  SumsOf(t, {o \in Measurements \cap orders :
               metrics[o].ts = t /\ AlertOf[o] # NoAlert})

FindMetrics(r) ==
  /\ Free(r, "metrics")
  /\ IF Measurements = {}
       THEN Enter(r, "attribute", {}) /\ UNCHANGED ts
       ELSE Enter(r, "newest_metric", {}) /\ ts' = [ts EXCEPT ![r] = NewestMetric]
  /\ UNCHANGED <<now, brokers, ledger, ghosts>>

StartAttribution(r) ==
  /\ Free(r, "newest_metric")
  /\ Enter(r, "attribute", Sums(ts[r]))
  /\ UNCHANGED <<now, brokers, ledger, ts, ghosts>>

(* INSERT OR REPLACE under the key (ts_ms, source_alert_id, symbol).       *)
Attribute(r) ==
  /\ pc[r] = "attribute"
  /\ \E row \in todo[r] :
       /\ Done(r, row)
       /\ pnl' = {p \in pnl : p.ts # row.ts \/ p.alert # row.alert} \cup {row}
  /\ UNCHANGED <<now, brokers, unlogged, orders, fills, metrics, trades, ghosts>>

(* upsert_from_latest_pnl_attribution_snapshot: the newest time, and then  *)
(* the rows of that time.                                                  *)
KeyOf(row) == [ts |-> row.ts, alert |-> row.alert]
NewestPnl == {p \in pnl : \A q \in pnl : q.ts <= p.ts}

FindPnl(r) ==
  /\ Free(r, "attribute")
  /\ IF pnl = {}
       THEN Enter(r, "copy", {}) /\ UNCHANGED ts
       ELSE /\ Enter(r, "newest_pnl", {})
            /\ \E p \in NewestPnl : ts' = [ts EXCEPT ![r] = p.ts]
  /\ UNCHANGED <<now, brokers, ledger, ghosts>>

StartCopy(r) ==
  /\ Free(r, "newest_pnl")
  /\ Enter(r, "copy", {KeyOf(p) : p \in {q \in pnl : q.ts = ts[r]}})
  /\ UNCHANGED <<now, brokers, ledger, ts, ghosts>>

Copy(r) ==
  /\ pc[r] = "copy"
  /\ \E key \in todo[r] : Done(r, key) /\ trades' = trades \cup {key}
  /\ UNCHANGED <<now, brokers, unlogged, orders, fills, metrics, pnl, ghosts>>

(* _orphan_pnl_invariant, and the end of the run, which it may fail.       *)
Stop(r) == Enter(r, "idle", {}) /\ ts' = [ts EXCEPT ![r] = 0]

Check(r) ==
  /\ Free(r, "copy")
  /\ Stop(r)
  /\ UNCHANGED <<now, brokers, ledger, ghosts>>

(* The run dies, or a statement fails on a busy database.                  *)
Die(r) ==
  /\ ~Idle(r)
  /\ Stop(r)
  /\ apart' = FALSE /\ alone' = FALSE
  /\ UNCHANGED <<now, brokers, ledger>>

RunStep(r) ==
  \/ Poll(r) \/ LogFill(r) \/ StartMetrics(r) \/ WriteMetric(r)
  \/ FindMetrics(r) \/ StartAttribution(r) \/ Attribute(r)
  \/ FindPnl(r) \/ StartCopy(r) \/ Copy(r) \/ Check(r) \/ Die(r)

Next ==
  \/ Tick
  \/ \E o \in Oid : Accept(o) \/ Fill(o) \/ LogSubmit(o)
  \/ \E r \in Run : RunStep(r)

Spec == Init /\ [][Next]_vars

-----------------------------------------------------------------------------
(* What the ledger says of an order was true: the logged fill is at most   *)
(* what the broker has filled, though runs overlap, log late, and log the  *)
(* cumulative quantity of one order again and again; and every metric is   *)
(* of the fill that is logged (poll_and_log_fills, _log_fill_v1,           *)
(* compute_metrics_snapshot).                                              *)
LedgerNeverOverstates ==
  \A o \in Oid :
    /\ fills[o] <= filled[o]
    /\ metrics[o] # NoRow => metrics[o].qty = fills[o]

(* The first report of an order is the one that stays: its later fills are *)
(* never logged, whatever runs come after (the UNIQUE client_order_id of   *)
(* execution_ledger.py:61).                                                *)
FirstReportStands ==
  [][\A o \in Oid : fills[o] # 0 => fills'[o] = fills[o]]_vars

(* A run that met no other and did not die leaves the newest sums right,   *)
(* and each with its copy, whatever the runs before it left undone: they   *)
(* account for every metric of an order that comes from an alert           *)
(* (execution_ledger.py:503, trade_attribution_ledger.py:122).  While this *)
(* goes for all runs so far, the older sums have their copies too.         *)
Orphans == {p \in pnl : KeyOf(p) \notin trades}

RunsApartAgree ==
  alone /\ (\A r \in Run : Idle(r)) =>
    /\ \A p \in NewestPnl :
         p \notin Orphans /\ p.qty = Total(OfAlert(p.alert, Measurements))
    /\ \A o \in Measurements :
         AlertOf[o] # NoAlert => \E p \in NewestPnl : p.alert = AlertOf[o]
    /\ apart => Orphans = {}

(* execution_poll_and_attrib.py:186 "Hard invariant: every pnl row must    *)
(* have attribution row": when a run comes to its check, it passes.        *)
PnlRowsAreAttributed == \A r \in Run : Free(r, "copy") => Orphans = {}
=============================================================================
