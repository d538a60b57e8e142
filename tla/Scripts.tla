------------------------------ MODULE Scripts -------------------------------
(***************************************************************************)
(* The functions of the program on the database handle that they share.    *)
(*                                                                         *)
(* storage.connect keeps one handle per thread and mode and gives it to    *)
(* every caller of the thread; almost every caller closes what it was      *)
(* given in its finally.  A function may therefore go on with a handle     *)
(* that a function it called has closed: its next statement raises.  The   *)
(* module runs one thread of one process statement by statement on a call  *)
(* stack, with the exception handlers and the finally clauses.  What other *)
(* processes and threads do reaches it through the tables only (Elsewhere).*)
(*                                                                         *)
(* What a check reads is calm: no limit is breached and no data are stale. *)
(* calm does not change during a run.                                      *)
(*                                                                         *)
(* A script is started with no handle (Entry).  A function that no script  *)
(* reaches is started by itself, with a handle that its caller has just    *)
(* opened when it needs one (Given).                                       *)
(***************************************************************************)
EXTENDS Statements, SequencesExt, FiniteSets

CONSTANTS
  Code,         \* the functions by name, each a sequence of statements
  Parts,        \* the statements of each, with those inside of others
  Tidy,         \* functions that close what they open, as their callees do
  Entry,        \* the functions that are started with no handle
  Given,        \* and those that are started on a handle just opened
  Calm,         \* the values of calm to start with
  Others,       \* what other processes do: "kill", "halt"
  NoCon,        \* Python's None where a connection is expected
  MaxFailures   \* bound: statements and requests that fail

Function == DOMAIN Code

Kinds ==
  {"connect", "close", "read", "write", "commit", "fetch", "call", "callon",
   "raise", "answer", "return", "break", "continue", "either", "if", "each",
   "forever", "ungiven", "try", "finally"}

(* A statement of function f.                                              *)
PartOf(f, i) ==
  /\ i = [op |-> i.op, arg |-> i.arg, on |-> i.on, body |-> i.body,
          other |-> i.other]
  /\ i.op \in Kinds /\ i.on \in {"con", "con2"}
  /\ i.body \in Seq(Parts[f]) /\ i.other \in Seq(Parts[f])
  /\ i.op = "connect" => i.arg \in {"rw", "ro"}
  /\ i.op \in {"call", "callon"} => i.arg \in Function

(* A function that is made of sessions, opens one mode on each variable    *)
(* and calls only such functions.                                          *)
IsTidy(f) ==
  /\ Guarded(Code[f], {})
  /\ \A i \in Parts[f] :
       /\ Guarded(i.body, Opens(i)) /\ Guarded(i.other, {})
       /\ i.op \in {"call", "callon"} => i.arg \in Tidy
  /\ \A i, j \in {i \in Parts[f] : i.op = "connect"} :
       i.on = j.on => i.arg = j.arg

ASSUME CodeAssumption ==
  \A f \in Function :
    Code[f] \in Seq(Parts[f]) /\ \A i \in Parts[f] : PartOf(f, i)
ASSUME TidyAssumption == Tidy \subseteq Function /\ \A f \in Tidy : IsTidy(f)
ASSUME EntryAssumption == Entry \cup Given \subseteq Function
ASSUME CalmAssumption == Calm \subseteq BOOLEAN
ASSUME OthersAssumption == Others \subseteq {"kill", "halt"}
ASSUME NoConAssumption == NoCon \notin Nat
ASSUME FailuresAssumption == MaxFailures \in Nat

VARIABLES
  slot,      \* _TLS: the handle kept for each mode
  open,      \* the handles that are open
  stack,     \* the active functions, the innermost first
  raising,   \* an exception is leaving the innermost function
  owes,      \* a job lock was acquired and release_job_lock not yet called
  db,        \* what the functions store: the switch and the halt
  calm,      \* no limit is breached and no data are stale
  failed     \* the statements and requests that failed so far

vars == <<slot, open, stack, raising, owes, db, calm, failed>>

-----------------------------------------------------------------------------
Handle == Nat \ {0}

TypeOK ==
  /\ slot \in [{"rw", "ro"} -> Handle \cup {NoCon}]
  /\ open \subseteq Handle
  /\ \A i \in DOMAIN stack :
       /\ stack[i].fn \in Function
       /\ {stack[i].con, stack[i].con2} \subseteq Handle \cup {NoCon}
       /\ stack[i].owns \subseteq {"con", "con2"}
       /\ stack[i].ok \in BOOLEAN
  /\ raising \in BOOLEAN
  /\ owes \in BOOLEAN
  /\ db \in [killed : BOOLEAN, halted : BOOLEAN]
  /\ calm \in BOOLEAN
  /\ failed \in 0..MaxFailures

(* A function starts with its caller's handle, or none.  Mutant: what it   *)
(* answers when it answers nothing is None.                                *)
NewFrameOfNone(f, con) ==
  [fn |-> f, todo |-> Code[f], con |-> con, con2 |-> NoCon, owns |-> {},
   ok |-> NoCon]

NewFrame(f, con) ==
  [fn |-> f, todo |-> Code[f], con |-> con, con2 |-> NoCon, owns |-> {},
   ok |-> FALSE]

Untouched == [killed |-> FALSE, halted |-> FALSE]

NoSlot == [rw |-> NoCon, ro |-> NoCon]

Init ==
  /\ slot = NoSlot
  /\ open = {}
  /\ stack = <<>>
  /\ raising = FALSE
  /\ owes = FALSE
  /\ db = Untouched
  /\ calm \in Calm
  /\ failed = 0

-----------------------------------------------------------------------------
Active == stack # <<>>
Top == Head(stack)
Todo == Top.todo
Now == Head(Todo)

(* The innermost function is at a statement of this kind.                  *)
At(op) == Active /\ ~raising /\ Todo # <<>> /\ Now.op = op

(* The handle that the statement uses.                                     *)
Con == IF Now.on = "con" THEN Top.con ELSE Top.con2

SetTop(frame) == stack' = <<frame>> \o Tail(stack)

(* Go on with these statements, then with those after the current one.     *)
GoOn(frame, body) == SetTop([frame EXCEPT !.todo = body \o Tail(Todo)])

InUse ==
  {slot.rw, slot.ro} \cup open
    \cup UNION {{stack[i].con, stack[i].con2} : i \in DOMAIN stack}

Fresh == CHOOSE h \in 1..(2 * Len(stack) + 3) : h \notin InUse

(* connect: the thread's handle when it still answers SELECT 1, or a new   *)
(* one.  Mutants: a new handle for every caller; no SELECT 1.              *)
HandleUnpooled(mode) == Fresh

HandleUnprobed(mode) == IF slot[mode] = NoCon THEN Fresh ELSE slot[mode]

HandleFor(mode) == IF slot[mode] \in open THEN slot[mode] ELSE Fresh

(* What is read, and what a write leaves in the tables.                    *)
Answered(tables, ok) ==
  CASE tables = "calm" -> calm
    [] tables = "halt" -> ~db.halted
    [] tables = "kill" -> ~db.killed
    [] OTHER -> ok

Written(tables) ==
  CASE tables = "kill" -> [db EXCEPT !.killed = TRUE]
    [] tables = "halt" -> [db EXCEPT !.halted = TRUE]
    [] tables = "clear" -> [db EXCEPT !.killed = FALSE]
    [] tables = "enable" -> [db EXCEPT !.halted = FALSE]
    [] OTHER -> db

-----------------------------------------------------------------------------
(* The mark that a loop, a try and a finally leave behind their body.      *)
Again(i) == [i EXCEPT !.op = "again", !.arg = i.op]
EndTry(i) == [i EXCEPT !.op = "end_try"]
EndFinally(i) == [i EXCEPT !.op = "end_finally"]

(* The statements from the innermost mark of these kinds on.               *)
From(todo, ops) ==
  LET marks == {i \in DOMAIN todo : todo[i].op \in ops} IN
  IF marks = {} THEN <<>>
  ELSE SubSeq(todo, CHOOSE i \in marks : \A j \in marks : i <= j, Len(todo))

(* The handlers and finally clauses that guard the rest of a function.     *)
Guards(todo) == From(todo, {"end_try", "end_finally"})

Start(f) ==
  /\ ~Active
  /\ stack' = <<NewFrame(f, NoCon)>>
  /\ UNCHANGED <<slot, open, raising, owes, db, calm, failed>>

(* con = connect(); f(con)                                                 *)
StartOn(f) ==
  /\ ~Active
  /\ stack' = <<NewFrame(f, 1)>>
  /\ slot' = [slot EXCEPT !.rw = 1]
  /\ open' = {1}
  /\ UNCHANGED <<raising, owes, db, calm, failed>>

Connected(mode) ==
  LET h == HandleFor(mode) IN
  /\ slot' = [slot EXCEPT ![mode] = h]
  /\ open' = open \cup ({h} \ {slot[mode]})
  /\ GoOn(IF Now.on = "con"
            THEN [Top EXCEPT !.con = h, !.owns = @ \cup {"con"}]
            ELSE [Top EXCEPT !.con2 = h, !.owns = @ \cup {"con2"}], <<>>)
  /\ UNCHANGED <<raising, owes, db, calm, failed>>

DoConnect == At("connect") /\ Connected(Now.arg)

(* finally: con.close().  Mutant: nothing is closed.                       *)
CloseNothing == open

Closed == IF Now.on \in Top.owns THEN open \ {Con} ELSE open

DoClose ==
  /\ At("close")
  /\ open' = Closed
  /\ GoOn(Top, <<>>)
  /\ UNCHANGED <<slot, raising, owes, db, calm, failed>>

UsesHandle == At("read") \/ At("write") \/ At("commit")

DoRead ==
  /\ At("read")
  /\ Con \in open
  /\ GoOn([Top EXCEPT !.ok = Answered(Now.arg, @)], <<>>)
  /\ UNCHANGED <<slot, open, raising, owes, db, calm, failed>>

DoWrite ==
  /\ At("write") \/ At("commit")
  /\ Con \in open
  /\ db' = Written(Now.arg)
  /\ owes' = (owes \/ Now.arg = "lock")
  /\ GoOn(Top, <<>>)
  /\ UNCHANGED <<slot, open, raising, calm, failed>>

DoFetch ==
  /\ At("fetch")
  /\ GoOn(Top, <<>>)
  /\ UNCHANGED <<slot, open, raising, owes, db, calm, failed>>

Raised ==
  /\ raising' = TRUE
  /\ GoOn(Top, <<>>)
  /\ UNCHANGED <<slot, open, owes, db, calm>>

(* "Cannot operate on a closed database."                                  *)
DoClosed == UsesHandle /\ Con \notin open /\ Raised /\ UNCHANGED failed

(* "database is locked" after the busy timeout; a host that fails.         *)
DoFail ==
  /\ At("fetch") \/ (UsesHandle /\ ~At("commit") /\ Con \in open)
  /\ failed < MaxFailures
  /\ failed' = failed + 1
  /\ Raised

DoRaise == At("raise") /\ Raised /\ UNCHANGED failed

(* The statements that do nothing to the database.                         *)
Control ==
  /\ Active /\ ~raising /\ Todo # <<>>
  /\ \/ At("answer") /\ GoOn([Top EXCEPT !.ok = (Now.arg = "yes")], <<>>)
     \/ At("either") /\ \E b \in {Now.body, Now.other} : GoOn(Top, b)
     \/ At("if") /\ GoOn(Top, IF Top.ok THEN Now.body ELSE Now.other)
     \/ At("ungiven") /\ GoOn(Top, IF Top.con = NoCon THEN Now.body ELSE <<>>)
     \/ At("each") /\ \E b \in {<<>>, Now.body \o <<Again(Now)>>} : GoOn(Top, b)
     \/ At("forever") /\ GoOn(Top, Now.body \o <<Again(Now)>>)
     \/ At("again") /\ GoOn(Top, <<[Now EXCEPT !.op = Now.arg]>>)
     \/ At("try") /\ GoOn(Top, Now.body \o <<EndTry(Now)>>)
     \/ At("end_try") /\ GoOn(Top, <<>>)
     \/ At("finally") /\ GoOn(Top, Now.body \o <<EndFinally(Now)>>)
     \/ At("end_finally") /\ GoOn(Top, Now.other)
  /\ UNCHANGED <<slot, open, raising, owes, db, calm, failed>>

(* return, break and continue leave the statements up to their target,     *)
(* and do the finally clauses on the way first.                            *)
LeaveTo(ops) ==
  LET rest == From(Tail(Todo), ops \cup {"end_finally"}) IN
  IF rest # <<>> /\ Head(rest).op = "end_finally"
    THEN SetTop([Top EXCEPT !.todo = Head(rest).other \o <<Now>> \o Tail(rest)])
    ELSE SetTop([Top EXCEPT !.todo =
           IF rest # <<>> /\ Now.op = "break" THEN Tail(rest) ELSE rest])

Leave ==
  /\ \/ At("return") /\ LeaveTo({})
     \/ (At("break") \/ At("continue")) /\ LeaveTo({"again"})
  /\ UNCHANGED <<slot, open, raising, owes, db, calm, failed>>

DoCall ==
  /\ At("call") \/ At("callon")
  /\ stack' = <<NewFrame(Now.arg, IF Now.op = "callon" THEN Con ELSE NoCon),
                [Top EXCEPT !.todo = Tail(@)]>> \o Tail(stack)
  /\ owes' = (owes /\ Now.arg # "release_job_lock")
  /\ UNCHANGED <<slot, open, raising, db, calm, failed>>

(* The innermost function returns to its caller.                           *)
DoReturn ==
  /\ Len(stack) > 1 /\ ~raising /\ Todo = <<>>
  /\ stack' = <<[stack[2] EXCEPT !.ok = Top.ok]>> \o SubSeq(stack, 3, Len(stack))
  /\ UNCHANGED <<slot, open, raising, owes, db, calm, failed>>

(* The exception reaches a handler, a finally clause, or the caller.       *)
DoUnwind ==
  /\ Active /\ raising
  /\ LET rest == Guards(Todo) IN
     \/ /\ rest # <<>>
        /\ raising' = FALSE
        /\ SetTop([Top EXCEPT !.todo = Head(rest).other \o
             IF Head(rest).op = "end_try" THEN Tail(rest)
             ELSE <<Raise>> \o Tail(rest)])
     \/ /\ rest = <<>> /\ Len(stack) > 1
        /\ stack' = Tail(stack)
        /\ UNCHANGED raising
  /\ UNCHANGED <<slot, open, owes, db, calm, failed>>

(* The function that was started is about to end, either way.              *)
Ending(f) ==
  /\ Len(stack) = 1 /\ Top.fn = f
  /\ IF raising THEN Guards(Todo) = <<>> ELSE Todo = <<>>

(* It ends, and what it left open ends with its process.                   *)
End ==
  /\ \E f \in Entry \cup Given : Ending(f)
  /\ slot' = NoSlot /\ open' = {} /\ stack' = <<>>
  /\ raising' = FALSE /\ owes' = FALSE
  /\ db' = Untouched /\ calm' \in Calm /\ failed' = 0

(* A process elsewhere sets the switch or halts trading.                   *)
Elsewhere ==
  /\ \E what \in Others : db' = Written(what) /\ db' # db
  /\ UNCHANGED <<slot, open, stack, raising, owes, calm, failed>>

Next ==
  \/ \E f \in Entry : Start(f)
  \/ \E f \in Given : StartOn(f)
  \/ DoConnect \/ DoClose \/ DoRead \/ DoWrite \/ DoFetch
  \/ DoClosed \/ DoFail \/ DoRaise \/ Control \/ Leave
  \/ DoCall \/ DoReturn \/ DoUnwind \/ End \/ Elsewhere

Spec == Init /\ [][Next]_vars

-----------------------------------------------------------------------------
Root == Last(stack).fn

(* The run is about to end.                                                *)
AtEnd == \E f \in Entry \cup Given : Active /\ Ending(f)

(* The functions that execute SQL on a handle that a function they called  *)
(* has closed, and those that call them.                                   *)
Undercut ==
  {"_load_latest_payload", "_run_stage", "_targets_from_recent_alerts",
   "alpaca_apply_latest_portfolio_orders_live",
   "apply_latest_portfolio_orders_dual_ibkr", "apply_portfolio_risk_gate",
   "backfill_labels_price_from_prices_main", "blacklist_update_job_main",
   "broker_apply_orders_main", "broker_sim_main",
   "compute_exec_labels_from_fills_main", "compute_rebalance",
   "core_execution_policy_engine_apply_execution_policy",
   "discover_universe_once", "enriched_main", "evaluate_strategies_main",
   "execution_allowed", "execution_allowed_for_real_trading",
   "execution_policy_engine_apply_execution_policy",
   "execution_quality_job_main", "get_blacklisted_symbols",
   "health_get_health_snapshot", "is_blacklisted",
   "kill_health_monitor_main", "live_stability_guard_job_main",
   "manage_open_orders", "poll_prices_main",
   "poll_weather_alerts_run_once", "poll_weather_forecasts_run_once",
   "portfolio_backtest_main", "portfolio_rebalance_main",
   "position_from_signal", "post_promotion_monitor_main",
   "process_events_live_main", "process_events_main",
   "process_events_shadow_main", "regime_capital_scale",
   "set_execution_mode", "shadow_predict", "sleep_guard_main",
   "snapshot_decision", "strategy_governance_job_main",
   "trade_pipeline_job_main", "train_and_eval_main", "train_embed_models",
   "train_model_v2_main", "update_universe_main"}

(* When nothing fails, every other function and script keeps the handle it *)
(* works on until it has done with it: nothing that it calls with or       *)
(* without the handle closes it, and nothing it catches was a closed       *)
(* handle.                                                                 *)
ScriptsKeepTheirHandle ==
  failed = 0 /\ UsesHandle /\ Con \notin open => Root \in Undercut

(* Four pollers do work between acquire_job_lock and the try whose finally *)
(* releases the lock (sec_poll.py:59, options_poll.py, poll_prices.py,     *)
(* stream_prices_ibkr.py); every other script that acquired its lock has   *)
(* called release_job_lock when it ends, whatever it raised.               *)
LocksAreReleased ==
  AtEnd /\ owes =>
    Root \in {"options_poll_main", "poll_prices_main", "sec_poll_main",
              "stream_prices_ibkr_main"}

(* A thread never has two open handles, and none when a script ends,       *)
(* whatever was raised: but for three scripts that never close, one that   *)
(* closes only when nothing failed, and log_decision, which does not close *)
(* when the INSERT fails.                                                  *)
HandlesAreClosed ==
  /\ Cardinality(open) <= 1
  /\ AtEnd /\ Root \notin Given /\ open # {} =>
       \/ Root \in {"compute_earnings_proximity_main",
                    "compute_index_flow_imbalance_main",
                    "compute_options_skew_main"}
       \/ Root \in {"train_size_policy_main", "decision_log_log_decision"}
          /\ failed > 0

(* What lies behind execution_allowed: predictions of the event scripts,   *)
(* the order router, the writes of the paper broker.                       *)
BehindTheGate ==
  {"store_prediction", "decision_log_log_decision", "_emit_order",
   "apply_new_portfolio_orders_router", "_write_position", "_write_fill",
   "apply_latest_portfolio_orders_dual_ibkr"}

(* No script that asks execution_allowed gets past it, not even when       *)
(* nothing is stale, halted or switched off: execution_allowed and         *)
(* get_health_snapshot never answer yes, and the question whether live     *)
(* trading is allowed raises, because a function that they call (init_db,  *)
(* get_state) has closed the handle that they go on with.                  *)
NothingIsTraded ==
  /\ Ending("execution_allowed") => raising \/ ~Top.ok
  /\ Ending("health_get_health_snapshot") => raising \/ ~Top.ok
  /\ Ending("execution_allowed_for_real_trading") => raising
  /\ \A i \in DOMAIN stack : stack[i].fn \in BehindTheGate =>
       Root \notin {"process_events_main", "process_events_live_main",
                   "process_events_shadow_main", "enriched_main",
                   "portfolio_rebalance_main", "broker_apply_orders_main",
                   "broker_sim_main", "trade_pipeline_job_main",
                   "alpaca_apply_latest_portfolio_orders_live"}

(* When nothing fails, a drift or slippage breach ends with the switch on, *)
(* a drawdown beyond the limit ends with trading halted, and a switch that *)
(* is set stays set: no handle is closed under these functions             *)
(* (kill_drift_monitor.main, kill_slippage_monitor.main, trading_allowed   *)
(* and activate without a connection of their caller's).                   *)
BreachIsRecorded ==
  failed = 0 =>
    /\ ~calm /\ Ending("kill_drift_monitor_main") => db.killed
    /\ ~calm /\ Ending("kill_slippage_monitor_main") => db.killed
    /\ ~calm /\ Ending("trading_allowed") => db.halted
    /\ Ending("activate") => db.killed

(* kill_health_monitor.py:3 "Auto-kill global execution on data health     *)
(* failure (fail-closed)": bad data end with the switch on.                *)
HealthFailureKills ==
  failed = 0 /\ ~calm /\ Ending("kill_health_monitor_main") => db.killed
=============================================================================
