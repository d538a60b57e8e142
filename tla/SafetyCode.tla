----------------------------- MODULE SafetyCode -----------------------------
(***************************************************************************)
(* The functions that decide whether execution may go on: storage and its  *)
(* locks, the kill switch, the capital guard, the execution mode, the      *)
(* health snapshot, and the monitors and preflight scripts that use them.  *)
(*                                                                         *)
(* The tables that a property is about have names of their own: "calm" is  *)
(* every table that a check compares with a limit or a clock, "halt" the   *)
(* keys of the halt in risk_state and "kill" the rows of                   *)
(* kill_switch_state.  An answer is TRUE when the function says that all   *)
(* is well.                                                                *)
(***************************************************************************)
EXTENDS Statements

-----------------------------------------------------------------------------
(* circuit_breaker.py *)

check_circuit_breaker ==
  <<Maybe(<<Call("set_execution_armed"), Call("set_execution_mode")>>)>>

-----------------------------------------------------------------------------
(* dev_core/capital_guard.py *)

_drawdown_velocity ==
  <<Try(<<Call("get_state")>>), Try(<<CallOn("get_current_drawdown")>>),
    Try(<<Call("set_state")>>)>>

_exec_degradation_snapshot ==
  SessionUnlessGiven(
    <<Try(<<Read("sqlite_master"), Maybe(<<Return>>)>>),
      Try(<<Read("execution_analytics")>>)>>)

_stress_snapshot ==
  SessionUnlessGiven(<<Try(<<CallOn("get_market_stress_snapshot")>>)>>)

maybe_release_cooldown ==
  <<Call("get_trading_state"), IfOk(<<Return>>), Call("get_state"),
    Maybe(<<Return>>), CallOn("get_current_drawdown"),
    Maybe(<<Call("enable_trading"), Call("set_state")>>)>>

trading_allowed ==
  <<Call("get_trading_state"), IfBad(<<Return>>),
    CallOn("get_current_drawdown"), IfOk(<<Return>>),
    Call("set_trading_state"), Call("set_state"), Call("set_state")>>

update_capital_preservation_mode ==
  <<Call("get_state"), CallOn("_drawdown_velocity"),
    CallOn("_stress_snapshot"), CallOn("_exec_degradation_snapshot"),
    Maybe(<<Call("set_state"), Return>>),
    Maybe(
      <<Maybe(<<Return>>), Call("get_state"), Call("set_state"),
        Maybe(<<Call("set_state")>>)>>)>>

-----------------------------------------------------------------------------
(* dev_core/drawdown_state.py *)

get_current_drawdown ==
  <<Call("init_db")>> \o SessionUnlessGiven(<<Read("calm")>>)

get_drawdown_velocity == <<Try(<<Read("equity_snapshots")>>)>>

-----------------------------------------------------------------------------
(* dev_core/execution_mode.py *)

_ensure_row == <<Read("execution_mode"), Maybe(<<Write("execution_mode")>>)>>

execution_mode_ensure_schema ==
  <<Write("execution_mode"), CallOn("execution_mode_has_column"),
    Maybe(<<Try(<<Write("execution_mode")>>)>>)>>

execution_mode_has_column == <<Try(<<Read("pragma")>>)>>

execution_allowed_for_real_trading ==
  SessionUnlessGiven(<<CallOn("get_execution_mode")>>)

get_execution_mode ==
  SessionUnlessGiven(
    <<Call("init_db"), CallOn("execution_mode_ensure_schema"),
      CallOn("_ensure_row"), Read("execution_mode")>>)

set_execution_armed ==
  SessionUnlessGiven(
    <<Call("init_db"), CallOn("execution_mode_ensure_schema"),
      CallOn("_ensure_row"), Write("execution_mode"), CallOn("get_execution_mode")>>)

set_execution_mode ==
  SessionUnlessGiven(
    <<Call("init_db"), CallOn("execution_mode_ensure_schema"),
      CallOn("_ensure_row"), Write("execution_mode"), CallOn("get_execution_mode")>>)

-----------------------------------------------------------------------------
(* dev_core/health.py *)

health_get_health_snapshot ==
  <<Call("init_db")>>
  \o Session(
       <<Try(<<Call("get_state")>>), Try(<<Call("get_state")>>),
         Catch(<<Read("calm")>>, <<Answer("no")>>)>>)

-----------------------------------------------------------------------------
(* dev_core/kill_switch.py *)

_maybe_auto_expire ==
  <<Maybe(<<Try(<<CallOn("clear")>>), Try(<<Read("kill")>>)>>)>>

activate == <<CallOn("set_kill_switch")>>

clear == <<CallOn("clear_kill_switch")>>

execution_allowed ==
  <<Maybe(<<Return>>)>>
  \o SessionUnlessGiven(
       <<Try(<<Call("init_db")>>),
         Catch(<<CallOn("trading_allowed")>>, <<Answer("no")>>),
         IfBad(<<Return>>),
         Catch(<<Read("calm")>>, <<Answer("no")>>), IfBad(<<Return>>),
         Read("kill"), IfBad(<<CallOn("_maybe_auto_expire")>>)>>)

(* Mutant: init_db is called whether or not the caller gave a handle.      *)
set_kill_switch_init(what) ==
  <<Call("init_db"), UnlessGiven(<<Connect>>),
    Finally(<<Read("kill_switch_state"), Write(what)>>, <<Close>>)>>

set_kill_switch(what) ==
  <<UnlessGiven(<<Call("init_db"), Connect>>),
    Finally(<<Read("kill_switch_state"), Write(what)>>, <<Close>>)>>

snapshot == SessionUnlessGiven(<<Read("kill_switch_state")>>)

-----------------------------------------------------------------------------
(* dev_core/market_stress.py *)

market_stress_load_prices == <<Read("prices")>>

get_market_stress_snapshot ==
  SessionUnlessGiven(
    <<CallOn("get_market_stress_snapshot_load"),
      Try(<<Call("get_gdelt_macro_snapshot")>>)>>)

get_market_stress_snapshot_load == <<CallOn("market_stress_load_prices")>>

-----------------------------------------------------------------------------
(* dev_core/provider_monitor_job.py *)

provider_monitor_job_main ==
  <<Call("init_db"), Call("acquire_job_lock"), IfBad(<<Raise>>),
    Finally(
      <<Forever(
          <<Call("detect_cross_provider_anomalies"),
            Call("compute_provider_health"), Call("touch_job_lock")>>)>>,
      <<Call("release_job_lock")>>)>>

-----------------------------------------------------------------------------
(* dev_core/risk_state.py *)

get_state(key) == <<Call("init_db")>> \o Session(<<Read(key)>>)

set_state(key) == <<Call("init_db")>> \o Session(<<Write(key)>>)

-----------------------------------------------------------------------------
(* dev_core/storage.py *)

acquire_job_lock ==
  Session(<<Try(<<Read("job_locks"), Maybe(<<Write("lock"), Answer("yes")>>)>>)>>)

get_job_checkpoint == SessionRo(<<Read("job_checkpoints")>>)

init_db ==
  Session(
    <<Write("schema"),
      Catch(<<Read("symbols")>>, <<Try(<<Write("symbols")>>)>>)>>)

put_event == Session(<<Write("events"), Read("events")>>)

put_job_checkpoint == Session(<<Write("job_checkpoints")>>)

put_job_heartbeat == Session(<<Write("job_heartbeats")>>)

put_price == Session(<<Write("prices")>>)

release_job_lock == Session(<<Write("job_locks")>>)

touch_job_lock == Session(<<Write("job_locks")>>)

-----------------------------------------------------------------------------
(* dev_core/training_guard.py *)

training_allowed == <<Call("get_state"), Maybe(<<Answer("yes")>>)>>

-----------------------------------------------------------------------------
(* kill_drift_monitor.py *)

kill_drift_monitor_main ==
  <<Call("init_db")>>
  \o Session(
       <<Read("calm"),
         IfBad(<<Try(<<CallOn("activate")>>), Try(<<CallOn("activate")>>)>>)>>)

-----------------------------------------------------------------------------
(* kill_health_monitor.py *)

kill_health_monitor_main ==
  <<Call("init_db")>>
  \o Session(
       <<Call("health_get_health_snapshot"),
         IfBad(<<Try(<<CallOn("activate")>>)>>)>>)

-----------------------------------------------------------------------------
(* kill_slippage_monitor.py *)

kill_slippage_monitor_main ==
  <<Call("init_db")>>
  \o Session(
       <<Read("calm"),
         IfBad(<<Try(<<CallOn("activate")>>), Try(<<CallOn("activate")>>)>>)>>)

-----------------------------------------------------------------------------
(* live_stability_guard_job.py *)

live_stability_guard_job_main ==
  Session(
    <<Try(
        <<Call("init_db"), Read("calm"), IfOk(<<Return>>),
          Call("set_execution_armed"), Call("set_execution_mode")>>)>>)

-----------------------------------------------------------------------------
(* ops/sleep_guard.py *)

check_health ==
  <<Call("health_get_health_snapshot"), IfBad(<<CallOn("activate")>>)>>

check_kill_switches == <<Call("snapshot")>>

check_predictions_stalled ==
  <<Read("predictions"), Maybe(<<CallOn("activate")>>)>>

check_stuck_watches == <<Read("model_post_promo_watch")>>

sleep_guard_main ==
  <<Call("init_db")>>
  \o Session(
       <<CallOn("check_health"), Call("check_kill_switches"),
         CallOn("check_stuck_watches"), CallOn("check_predictions_stalled")>>)

-----------------------------------------------------------------------------
(* prod_preflight.py *)

_ensure_schemas ==
  <<Mismatch("portfolio_backtest"), Call("init_db"), Call("init_alerts_db"),
    Call("init_execution_ledger")>>
  \o Session(<<Read("?")>>)

_exec_cost_gate_sanity ==
  <<Maybe(<<Return>>),
    Try(
      Session(<<Read("prices")>>)
      \o <<Maybe(<<Return>>), Call("adjust_expected_z_for_costs")>>)>>

_verify_required_tables == Session(<<Each(<<Read("sqlite_master")>>)>>)

prod_preflight_main ==
  <<Maybe(<<Return>>), Catch(<<Call("_ensure_schemas")>>, <<Return>>),
    Call("_verify_required_tables"), Maybe(<<Return>>),
    Call("_exec_cost_gate_sanity")>>

-----------------------------------------------------------------------------
(* prod_selftest.py *)

prod_selftest_main ==
  <<Call("init_db"), Call("init_validation_db"),
    Mismatch("dev_core.predictor")>>
  \o Session(<<Catch(<<Write("events"), Read("events")>>, <<Raise>>)>>)
  \o <<Mismatch("process_events"), Call("process_events_main")>>
  \o Session(<<Read("event_embeddings, predictions")>>)

-----------------------------------------------------------------------------
(* prod_trade_attribution_selftest.py *)

prod_trade_attribution_selftest_main == SessionRo(<<Read("pnl_attribution")>>)

-----------------------------------------------------------------------------
(* The functions of this module by name.                                   *)
SafetyTable ==
  [check_circuit_breaker |-> check_circuit_breaker,
   _drawdown_velocity |-> _drawdown_velocity,
   _exec_degradation_snapshot |-> _exec_degradation_snapshot,
   _stress_snapshot |-> _stress_snapshot,
   maybe_release_cooldown |-> maybe_release_cooldown,
   trading_allowed |-> trading_allowed,
   update_capital_preservation_mode |-> update_capital_preservation_mode,
   get_current_drawdown |-> get_current_drawdown,
   get_drawdown_velocity |-> get_drawdown_velocity,
   _ensure_row |-> _ensure_row,
   execution_mode_ensure_schema |-> execution_mode_ensure_schema,
   execution_mode_has_column |-> execution_mode_has_column,
   execution_allowed_for_real_trading |-> execution_allowed_for_real_trading,
   get_execution_mode |-> get_execution_mode,
   set_execution_armed |-> set_execution_armed,
   set_execution_mode |-> set_execution_mode,
   health_get_health_snapshot |-> health_get_health_snapshot,
   _maybe_auto_expire |-> _maybe_auto_expire, activate |-> activate,
   clear |-> clear, execution_allowed |-> execution_allowed,
   set_kill_switch |-> set_kill_switch("kill"), snapshot |-> snapshot,
   market_stress_load_prices |-> market_stress_load_prices,
   get_market_stress_snapshot |-> get_market_stress_snapshot,
   get_market_stress_snapshot_load |-> get_market_stress_snapshot_load,
   provider_monitor_job_main |-> provider_monitor_job_main,
   get_state |-> get_state("risk_state"),
   set_state |-> set_state("risk_state"),
   acquire_job_lock |-> acquire_job_lock,
   get_job_checkpoint |-> get_job_checkpoint, init_db |-> init_db,
   put_event |-> put_event, put_job_checkpoint |-> put_job_checkpoint,
   put_job_heartbeat |-> put_job_heartbeat, put_price |-> put_price,
   release_job_lock |-> release_job_lock, touch_job_lock |-> touch_job_lock,
   training_allowed |-> training_allowed,
   kill_drift_monitor_main |-> kill_drift_monitor_main,
   kill_health_monitor_main |-> kill_health_monitor_main,
   kill_slippage_monitor_main |-> kill_slippage_monitor_main,
   live_stability_guard_job_main |-> live_stability_guard_job_main,
   check_health |-> check_health, check_kill_switches |-> check_kill_switches,
   check_predictions_stalled |-> check_predictions_stalled,
   check_stuck_watches |-> check_stuck_watches,
   sleep_guard_main |-> sleep_guard_main, _ensure_schemas |-> _ensure_schemas,
   _exec_cost_gate_sanity |-> _exec_cost_gate_sanity,
   _verify_required_tables |-> _verify_required_tables,
   prod_preflight_main |-> prod_preflight_main,
   prod_selftest_main |-> prod_selftest_main,
   prod_trade_attribution_selftest_main |->
     prod_trade_attribution_selftest_main,
   get_trading_state |-> get_state("halt"),
   set_trading_state |-> set_state("halt"),
   enable_trading |-> set_state("enable"),
   clear_kill_switch |-> set_kill_switch("clear")]
=============================================================================
