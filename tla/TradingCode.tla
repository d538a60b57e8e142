----------------------------- MODULE TradingCode -----------------------------
(***************************************************************************)
(* The functions from the alerts to the brokers: portfolio construction,   *)
(* execution policy and risk governor, the brokers and their adapters,     *)
(* reconciliation, attribution and the trade pipeline.                     *)
(***************************************************************************)
EXTENDS Statements

-----------------------------------------------------------------------------
(* broker_apply_orders.py *)

_acquire_lock_compat ==
  <<Catch(<<Call("acquire_job_lock")>>, <<Mismatch("acquire_job_lock")>>)>>

_apply_epe_compat ==
  <<Catch(
      <<Mismatch("apply_execution_policy")>>,
      <<Mismatch("apply_execution_policy")>>)>>

_ensure_shadow_table == <<Write("shadow_order_intents")>>

_load_latest_payload ==
  <<Maybe(
      <<Try(
          Session(<<CallOn("load_latest_execution_intents")>>)
          \o <<Maybe(<<Return>>)>>)>>),
    Call("apply_new_portfolio_orders_router")>>

_log_shadow_intents ==
  <<Try(
      Session(
        <<CallOn("_ensure_shadow_table"),
          Catch(
            <<Write("shadow_order_intents")>>,
            <<Catch(
                <<Write("shadow_order_intents")>>,
                <<Write("shadow_order_intents")>>)>>),
          Commit>>))>>

_write_execution_meta_last == <<Try(Session(<<Write("execution_meta")>>))>>

broker_apply_orders_main ==
  <<Call("init_db"), Call("_acquire_lock_compat"), IfBad(<<Return>>),
    Finally(
      <<Try(
          Session(<<CallOn("execution_allowed")>>)
          \o <<IfBad(<<Return>>), Try(<<Call("evaluate_rules")>>),
               Call("get_execution_mode"), Call("_load_latest_payload")>>
          \o Session(<<CallOn("_apply_epe_compat")>>)
          \o <<Maybe(<<Call("_log_shadow_intents"), Return>>),
               Maybe(
                 <<Call("apply_new_portfolio_orders_router"),
                   Call("_write_execution_meta_last"), Return>>),
               Maybe(<<Return>>),
               Catch(
                 Session(
                   <<Mismatch("pre_live_position_reconcile"), Maybe(<<Return>>)>>),
                 <<Return>>),
               Catch(
                 Session(<<CallOn("apply_execution_risk_governor")>>),
                 <<Return>>),
               Maybe(<<Return>>),
               Either(
                 <<Call("apply_latest_portfolio_orders_dual_ibkr")>>,
                 <<Call("apply_new_portfolio_orders_router")>>),
               Call("_write_execution_meta_last"),
               Try(<<Call("build_execution_analytics")>>)>>)>>,
      <<Try(<<Call("release_job_lock")>>)>>)>>

-----------------------------------------------------------------------------
(* dev_core/alpha_lifecycle_engine.py *)

alpha_ensure_tables == <<Write("alpha_lifecycle")>>

alpha_state ==
  <<CallOn("alpha_ensure_tables"), Read("alpha_lifecycle"),
    Maybe(<<Return>>), Maybe(<<Try(<<Write("alpha_lifecycle")>>)>>)>>

ensure_alpha_from_intent ==
  <<Try(<<Maybe(<<Return>>), CallOn("register_alpha")>>)>>

register_alpha == <<CallOn("alpha_ensure_tables"), Write("alpha_lifecycle")>>

-----------------------------------------------------------------------------
(* dev_core/broker_alpaca_rest.py *)

alpaca_latest_order_row == <<CallOn("load_latest_execution_intents")>>

alpaca_price_at_or_before == <<Try(<<Read("prices")>>)>>

alpaca_apply_latest_portfolio_orders_live ==
  <<Maybe(<<Return>>)>>
  \o Session(
       <<Maybe(<<CallOn("alpaca_latest_order_row"), Maybe(<<Return>>)>>),
         Maybe(<<Call("get_state"), Maybe(<<Return>>)>>),
         CallOn("execution_allowed"), IfBad(<<Return>>), Fetch,
         Maybe(<<Return>>), Fetch, Maybe(<<Return>>),
         Each(
           <<Maybe(<<Continue>>), CallOn("execution_allowed"),
             IfBad(<<Continue>>), CallOn("alpaca_price_at_or_before"),
             Maybe(<<Continue>>), Fetch, Try(<<Call("log_submit")>>)>>),
         Maybe(<<Call("set_state")>>)>>)

poll_and_log_fills ==
  <<Fetch, Each(<<Try(<<Maybe(<<Continue>>), Call("log_fill")>>)>>)>>

-----------------------------------------------------------------------------
(* dev_core/broker_fill_utils.py *)

get_realized_trade ==
  Session(<<Catch(<<Read("labels")>>, <<Return>>), Read("broker_fills")>>)

-----------------------------------------------------------------------------
(* dev_core/broker_ibkr_gateway.py *)

ibkr_latest_order_row == <<CallOn("load_latest_execution_intents")>>

ibkr_price_at_or_before == <<Try(<<Read("prices")>>)>>

ibkr_apply_latest_portfolio_orders_live ==
  Session(
    <<Maybe(<<CallOn("ibkr_latest_order_row"), Maybe(<<Return>>)>>),
      Call("get_state"), Maybe(<<Return>>), CallOn("execution_allowed"),
      IfBad(<<Return>>), Maybe(<<Return>>),
      Each(
        <<Maybe(<<Continue>>), CallOn("execution_allowed"),
          IfBad(<<Continue>>), CallOn("ibkr_price_at_or_before"),
          Maybe(<<Continue>>), Call("log_submit")>>),
      Maybe(<<Call("set_state")>>)>>)

run_execution_stream_daemon ==
  Session(<<Forever(<<Each(<<Try(<<Call("log_fill")>>)>>)>>)>>)

-----------------------------------------------------------------------------
(* dev_core/broker_router.py *)

_adaptive_execute_orders ==
  <<Maybe(<<Return>>),
    Each(<<Try(<<Maybe(<<Continue>>), Call("_load_recent_slippage_bps")>>)>>)>>

_apply_one ==
  <<Maybe(
      <<Maybe(<<Return>>), Maybe(<<Call("_adaptive_execute_orders")>>),
        Return>>),
    Maybe(<<Call("pre_live_position_reconcile"), Maybe(<<Return>>)>>),
    Maybe(<<Maybe(<<Call("_adaptive_execute_orders")>>), Return>>),
    Maybe(<<Maybe(<<Return>>), Maybe(<<Call("_adaptive_execute_orders")>>)>>)>>

_load_recent_slippage_bps ==
  <<Maybe(<<Return>>), Try(Session(<<Read("execution_analytics")>>))>>

apply_new_portfolio_orders_router ==
  <<Each(<<Try(<<Call("_apply_one"), Maybe(<<Return>>)>>)>>)>>

-----------------------------------------------------------------------------
(* dev_core/broker_sim.py *)

broker_sim_earnings_proximity_decay ==
  <<Maybe(<<Return>>),
    Try(<<Read("earnings_calendar"), Maybe(<<Return>>), Read("a table")>>)>>

broker_sim_ensure_tables ==
  <<Write("broker_account"), Read("broker_account"),
    Maybe(<<Write("broker_account")>>), Commit>>

_equity == <<Read("broker_account"), Maybe(<<CallOn("_mark_to_market")>>)>>

broker_sim_get_factor_feature_asof == <<Try(<<Read("factor_features")>>)>>

_get_price_at_or_before == <<Read("prices")>>

_mark_to_market ==
  <<Read("broker_account, broker_positions"),
    Each(<<CallOn("_get_price_at_or_before")>>), Write("broker_account")>>

_write_fill == <<Write("broker_fills"), Try(<<Call("log_fill")>>)>>

_write_position == <<Write("broker_positions")>>

apply_new_portfolio_orders ==
  Session(
    <<CallOn("broker_sim_ensure_tables"),
      Maybe(
        <<CallOn("load_latest_execution_intents"),
          Maybe(<<CallOn("_mark_to_market"), Return>>)>>),
      Maybe(<<Read("broker_account"), Return>>),
      Maybe(
        <<Read("broker_meta"),
          Maybe(<<Try(<<CallOn("_mark_to_market"), Return>>)>>)>>),
      Read("broker_account"), CallOn("_equity"),
      Maybe(
        <<CallOn("_mark_to_market"), Maybe(<<Write("broker_meta")>>), Return>>),
      CallOn("broker_sim_get_factor_feature_asof"),
      Each(
        <<Write("broker_order_state"), Maybe(<<Continue>>),
          Catch(
            <<CallOn("execution_allowed"), IfBad(<<Continue>>)>>,
            <<Continue>>),
          Maybe(<<Continue>>), CallOn("_get_price_at_or_before"),
          Maybe(<<Continue>>), Read("broker_positions"),
          Maybe(<<Continue>>), Try(<<Call("log_submit")>>),
          CallOn("broker_sim_earnings_proximity_decay"),
          Each(
            <<Maybe(<<Write("broker_order_state"), Break>>),
              Maybe(<<Break>>), CallOn("_get_price_at_or_before"),
              Maybe(<<Break>>), Maybe(<<Maybe(<<Continue>>), Continue>>),
              Maybe(<<Break>>), CallOn("_write_position"),
              CallOn("_write_fill"), Try(<<Write("labels_exec")>>),
              Write("broker_order_state")>>)>>),
      Write("broker_account"), CallOn("_mark_to_market"),
      Maybe(<<Write("broker_meta")>>)>>)

broker_equity_at ==
  <<Call("init_broker_db")>>
  \o Session(
       <<Read("broker_account, broker_positions"),
         Each(<<CallOn("_get_price_at_or_before")>>)>>)

broker_snapshot ==
  <<Call("init_broker_db")>>
  \o Session(<<Read("broker_account, broker_positions, ..")>>)

init_broker_db == Session(<<CallOn("broker_sim_ensure_tables")>>)

broker_sim_main == <<Call("apply_new_portfolio_orders")>>

-----------------------------------------------------------------------------
(* dev_core/corr_opt.py *)

_build_covariance ==
  <<Each(<<CallOn("realized_vol_from_prices")>>),
    Each(<<Each(<<CallOn("corr_from_prices")>>)>>)>>

corr_aware_optimize_desired ==
  <<Maybe(<<Return>>), CallOn("_build_covariance"),
    Each(<<Each(<<CallOn("corr_from_prices")>>)>>)>>

-----------------------------------------------------------------------------
(* dev_core/dual_execution.py *)

dual_execution_ensure_schema == <<Write("execution_divergence")>>

_read_sim_positions == <<Try(<<Read("broker_positions")>>)>>

apply_latest_portfolio_orders_dual_ibkr ==
  Session(
    <<CallOn("dual_execution_ensure_schema"),
      Call("apply_new_portfolio_orders"),
      Maybe(<<Call("ibkr_apply_latest_portfolio_orders_live")>>),
      CallOn("_read_sim_positions"), Write("execution_divergence"),
      Maybe(
        <<Try(<<CallOn("set_execution_armed")>>),
          Try(<<CallOn("set_execution_mode")>>)>>)>>)

-----------------------------------------------------------------------------
(* dev_core/edge_filter.py *)

adjust_expected_z_for_costs ==
  <<Maybe(<<Return>>)>> \o Session(<<CallOn("realized_vol_from_prices")>>)

-----------------------------------------------------------------------------
(* dev_core/equity_snapshot.py *)

snapshot_equity ==
  <<Call("init_db")>>
  \o Session(
       <<Try(
           <<Read("broker_account"), Maybe(<<Return>>), Write("equity_history")>>)>>)

-----------------------------------------------------------------------------
(* dev_core/execution_analytics_engine.py *)

_build_alpha_preservation_kpis ==
  <<Read("execution_analytics"),
    Each(<<Maybe(<<Continue>>), Write("alpha_preservation_kpis")>>), Commit>>

execution_analytics_engine_ensure_tables == <<Write("execution_analytics")>>

_update_slippage_feedback ==
  <<Read("execution_analytics"),
    Each(<<Maybe(<<Continue>>), Write("execution_slippage_feedback")>>),
    Commit>>

build_execution_analytics ==
  Session(
    <<CallOn("execution_analytics_engine_ensure_tables"),
      Read("execution_orders"),
      Each(<<Maybe(<<Continue>>), Write("execution_analytics")>>), Commit,
      Try(<<CallOn("_update_slippage_feedback")>>),
      Try(<<CallOn("_build_alpha_preservation_kpis")>>),
      Try(<<Read("execution_analytics")>>)>>)

compute_adaptive_half_life == <<Try(<<Read("execution_analytics")>>)>>

get_execution_degradation_snapshot == <<Try(<<Read("execution_analytics")>>)>>

get_expectancy_multiplier == <<CallOn("get_rolling_expectancy_stats")>>

get_latency_variance_zscore == <<Try(<<Read("execution_analytics")>>)>>

get_rolling_expectancy_stats == <<Try(<<Read("execution_ledger")>>)>>

get_slippage_feedback == <<Read("execution_slippage_feedback")>>

get_slippage_zscore == <<Try(<<Read("execution_analytics")>>)>>

rank_brokers_by_cost == <<Try(<<Read("execution_analytics")>>)>>

summarize_execution_performance ==
  Session(
    <<CallOn("execution_analytics_engine_ensure_tables"),
      Read("execution_analytics")>>)

-----------------------------------------------------------------------------
(* dev_core/execution_ledger.py *)

_last_price ==
  <<Try(<<Read("prices"), Maybe(<<Return>>)>>), Try(<<Read("prices")>>)>>

_log_fill_v1 ==
  <<Call("init_execution_ledger")>> \o Session(<<Write("execution_fills")>>)

_log_fill_v2 ==
  <<Call("init_execution_ledger")>> \o Session(<<Write("execution_fills")>>)

_vwap_for_client == <<Read("execution_fills")>>

compute_capital_efficiency_snapshot ==
  <<Call("init_execution_ledger"), Try(<<Call("init_db")>>)>>
  \o Session(
       <<Read("execution_metrics"), Maybe(<<Return>>),
         Read("execution_orders"),
         Each(
           <<CallOn("_vwap_for_client"), Maybe(<<Continue>>),
             Write("execution_capital_efficiency")>>),
         Each(<<Try(<<Write("strategy_metrics")>>)>>), Commit>>)

compute_metrics_snapshot ==
  <<Call("init_execution_ledger")>>
  \o Session(
       <<Read("execution_orders"),
         Each(
           <<CallOn("_vwap_for_client"), Maybe(<<Continue>>),
             CallOn("_last_price"), Write("execution_metrics")>>),
         Commit>>)

compute_pnl_attribution_snapshot ==
  <<Call("init_execution_ledger")>>
  \o Session(
       <<Read("execution_metrics"), Maybe(<<Return>>),
         Read("execution_orders"),
         Each(<<Write("pnl_attribution, capital_efficiency")>>), Commit>>)

init_execution_ledger == Session(<<Write("execution_orders")>>)

log_fill == <<Maybe(<<Call("_log_fill_v2"), Return>>), Call("_log_fill_v1")>>

log_submit ==
  <<Call("init_execution_ledger")>> \o Session(<<Write("execution_orders")>>)

-----------------------------------------------------------------------------
(* dev_core/execution_policy_engine.py *)

_apply_capital_preservation_mode ==
  <<Call("execution_policy_engine_capital_mode")>>

execution_policy_engine_capital_mode == <<Try(<<Call("get_state")>>)>>

core_execution_policy_engine_ensure_tables ==
  <<Write("execution_policy_audit")>>

_evaluate_trade_suppression ==
  <<Try(<<CallOn("get_rolling_expectancy_stats")>>),
    Try(<<CallOn("get_false_positive_streak")>>),
    Try(<<CallOn("get_slippage_zscore")>>),
    Try(<<CallOn("get_latency_variance_zscore")>>),
    Try(<<Read("trade_suppression_state")>>),
    Try(<<Call("get_social_regime_vector")>>),
    Try(<<CallOn("get_drawdown_velocity")>>),
    Try(<<Write("trade_suppression_state")>>)>>

_get_feedback_map == <<Try(<<CallOn("get_slippage_feedback")>>)>>

_market_stress_snapshot == <<Try(<<CallOn("get_market_stress_snapshot")>>)>>

_social_regime_vector == <<Try(<<Call("get_social_regime_vector")>>)>>

core_execution_policy_engine_apply_execution_policy ==
  <<CallOn("core_execution_policy_engine_ensure_tables"),
    CallOn("_evaluate_trade_suppression"),
    Maybe(<<Try(<<Write("execution_policy_audit")>>), Return>>),
    Try(
      <<Try(<<CallOn("update_capital_preservation_mode")>>),
        CallOn("trading_allowed"), IfBad(<<Return>>)>>),
    CallOn("execution_allowed"), IfBad(<<Return>>),
    Try(<<CallOn("get_current_drawdown")>>),
    CallOn("_market_stress_snapshot"), CallOn("_get_feedback_map"),
    Each(
      <<Maybe(<<Continue>>),
        Maybe(<<Try(<<Call("log_suppression")>>), Continue>>),
        Maybe(<<Try(<<Call("log_suppression")>>), Continue>>),
        Try(<<CallOn("ensure_alpha_from_intent")>>),
        Try(<<Maybe(<<CallOn("alpha_state")>>)>>),
        Call("_social_regime_vector"),
        Call("_apply_capital_preservation_mode"),
        CallOn("execution_allowed"),
        IfBad(<<Try(<<Call("log_suppression")>>), Continue>>),
        Try(<<Call("execution_policy_engine_capital_mode")>>),
        Try(
          <<Call("execution_policy_engine_capital_mode"),
            Write("execution_policy_audit")>>)>>)>>

-----------------------------------------------------------------------------
(* dev_core/pnl_decomposition_engine.py *)

_alert_signal_meta == <<Try(<<Read("alerts")>>)>>

pnl_decomposition_engine_ensure_tables == <<Write("pnl_decomposition")>>

pnl_decomposition_engine_latest_equity == <<Try(<<Read("equity_history")>>)>>

_order_exposure_meta == <<Try(<<Read("execution_orders")>>)>>

compute_pnl_decomposition_snapshot ==
  Session(
    <<CallOn("pnl_decomposition_engine_ensure_tables"),
      Read("pnl_attribution"), Maybe(<<Return>>), Read("pnl_attribution"),
      Each(
        <<CallOn("_alert_signal_meta"),
          CallOn("pnl_decomposition_engine_latest_equity"),
          CallOn("_order_exposure_meta"), Write("pnl_decomposition")>>),
      Commit>>)

-----------------------------------------------------------------------------
(* dev_core/portfolio.py *)

_apply_impact_aware_sizing ==
  <<Maybe(<<Return>>), CallOn("_load_avg_slippage_bps_by_symbol"),
    Maybe(<<Return>>), Call("_eff_gross_cap")>>

_apply_temporal_dampener ==
  <<Maybe(<<Return>>), Each(<<Try(<<Read("alerts")>>)>>)>>

portfolio_capital_mode == <<Try(<<Call("get_state")>>)>>

_eff_gross_cap == <<Call("portfolio_capital_mode")>>

_eff_max_positions == <<Call("portfolio_capital_mode")>>

_eff_min_abs_z == <<Call("portfolio_capital_mode")>>

_eff_min_conf == <<Call("portfolio_capital_mode")>>

_eff_rebalance_cooldown_s == <<Call("portfolio_capital_mode")>>

_emit_order == <<Write("portfolio_orders")>>

_exec_realism_factor ==
  <<CallOn("_last_price_age_s"), Maybe(<<Return>>),
    Try(<<CallOn("get_market_stress_snapshot")>>)>>

_execution_realism_factor ==
  <<CallOn("_last_price_age_s"), Maybe(<<Return>>),
    Try(<<Call("compute_tech_features")>>)>>

_is_price_fresh == <<CallOn("_latest_price_ts_ms")>>

_last_price_age_s == <<Try(<<Read("prices")>>)>>

_latest_price_ts_ms == <<Try(<<Read("prices")>>)>>

_load_avg_slippage_bps_by_symbol == <<Try(<<Read("execution_metrics")>>)>>

_load_live_strategies == <<Try(<<Read("strategy_registry")>>)>>

_load_recent_alert_candidates ==
  <<Try(<<CallOn("get_active_symbols")>>), Read("alerts"),
    Each(<<Try(<<Maybe(<<Continue>>), CallOn("_is_price_fresh")>>)>>)>>

_load_state == <<Read("portfolio_state")>>

_load_strategy_efficiency == <<Try(<<Read("strategy_metrics")>>)>>

_optimize_capital_allocation ==
  <<Maybe(<<Return>>),
    Each(
      <<Maybe(
          <<Try(<<CallOn("_get_feature_asof")>>),
            Try(<<Read("earnings_calendar, a table")>>)>>)>>),
    Maybe(<<Return>>), Call("_eff_gross_cap")>>

_pick_best_per_symbol ==
  <<Each(
      <<Call("_eff_min_conf"), Maybe(<<Continue>>), Call("_eff_min_abs_z")>>)>>

_vix_stress == <<Try(<<Read("prices")>>)>>

_write_state_row == <<Write("portfolio_state")>>

compute_rebalance ==
  <<Call("init_portfolio_db")>>
  \o Session(
       <<Try(
           <<Read("portfolio_meta"), Maybe(<<Return>>),
             Write("portfolio_meta"),
             Maybe(
               <<Try(<<Call("_eff_rebalance_cooldown_s"), Maybe(<<Return>>)>>)>>),
             Catch(<<CallOn("trading_allowed"), IfBad(<<Return>>)>>, <<Return>>),
             CallOn("_load_recent_alert_candidates"), CallOn("_load_state"),
             Call("_pick_best_per_symbol"), Try(<<Read("portfolio_meta")>>),
             CallOn("_load_live_strategies"),
             CallOn("_load_strategy_efficiency"),
             Each(<<Try(<<Call("load_strategy_module")>>)>>),
             Each(
               <<Try(
                   <<Maybe(
                       <<Try(<<CallOn("_get_feature_asof")>>),
                         Try(<<Read("earnings_calendar, a table")>>)>>),
                     Try(<<Mismatch("compute_regime_vector")>>)>>)>>),
             Try(<<Each(<<CallOn("is_blacklisted")>>)>>),
             Try(<<Each(<<Read("labels")>>)>>),
             Try(<<CallOn("_optimize_capital_allocation")>>),
             Try(<<CallOn("_apply_impact_aware_sizing")>>),
             Call("_eff_max_positions"),
             Either(
               <<Try(
                   <<Try(<<CallOn("regime_capital_scale")>>),
                     CallOn("corr_aware_optimize_desired")>>)>>,
               <<Maybe(
                   <<Try(<<Each(<<Each(<<CallOn("corr_from_prices")>>)>>)>>)>>)>>),
             Try(<<Each(<<CallOn("realized_vol_from_prices")>>)>>),
             Try(
               <<Maybe(
                   <<CallOn("_vix_stress"), Try(<<Read("factor_features")>>),
                     Try(<<Read("factor_features")>>), Call("_eff_gross_cap")>>)>>),
             Try(<<Each(<<CallOn("social_gate_for_symbol")>>)>>),
             Try(<<Each(<<Call("compute_tech_features")>>)>>),
             Try(
               <<CallOn("load_latest_size_policy"),
                 Maybe(<<CallOn("get_current_drawdown")>>)>>),
             Each(<<Try(<<CallOn("_execution_realism_factor")>>)>>),
             Try(
               <<Call("portfolio_capital_mode"),
                 Maybe(<<Call("_eff_gross_cap")>>)>>),
             Try(<<CallOn("regime_capital_scale")>>),
             Try(<<CallOn("apply_portfolio_risk_gate")>>),
             Try(<<CallOn("_apply_temporal_dampener")>>), Write(""),
             Each(
               <<Read("portfolio_meta"),
                 Maybe(
                   <<CallOn("_write_state_row"), CallOn("_emit_order"),
                     Continue>>),
                 Maybe(<<CallOn("_emit_order"), Continue>>),
                 Maybe(
                   <<CallOn("_write_state_row"), CallOn("_emit_order"),
                     Continue>>),
                 Maybe(
                   <<Either(
                       <<CallOn("_emit_order")>>,
                       <<CallOn("_write_state_row"), CallOn("_emit_order")>>),
                     Continue>>),
                 Maybe(
                   <<CallOn("_write_state_row"), CallOn("_emit_order"),
                     Continue>>),
                 CallOn("_emit_order")>>),
             Each(
               <<Maybe(<<Continue>>),
                 Maybe(
                   <<Maybe(<<CallOn("_emit_order"), Continue>>),
                     CallOn("_write_state_row"), CallOn("_emit_order")>>)>>),
             Try(<<Read("portfolio_meta"), Write("portfolio_meta")>>),
             Try(<<Call("broker_snapshot"), Maybe(<<Write("portfolio_meta")>>)>>),
             Write("portfolio_meta")>>)>>)

get_portfolio_snapshot ==
  <<Call("init_portfolio_db")>>
  \o Session(<<Read("portfolio_state, portfolio_orders")>>)

init_portfolio_db == Session(<<Write("portfolio_state")>>)

-----------------------------------------------------------------------------
(* dev_core/portfolio_execution_intents.py *)

_alert_meta == <<Try(<<Read("alerts")>>)>>

intents_earnings_proximity_decay ==
  <<Maybe(<<Return>>),
    Try(<<Read("earnings_calendar"), Maybe(<<Return>>), Read("a table")>>)>>

intents_get_factor_feature_asof == <<Try(<<Read("factor_features")>>)>>

_portfolio_orders_batch_rows ==
  <<CallOn("_portfolio_orders_latest_anchor"), Maybe(<<Return>>),
    Read("portfolio_orders")>>

_portfolio_orders_latest_anchor == <<Read("portfolio_orders")>>

load_latest_execution_intents ==
  <<CallOn("_portfolio_orders_batch_rows"), Maybe(<<Return>>),
    Each(
      <<Maybe(<<Continue>>), Maybe(<<CallOn("_alert_meta")>>),
        CallOn("intents_get_factor_feature_asof"),
        CallOn("intents_earnings_proximity_decay")>>)>>

-----------------------------------------------------------------------------
(* dev_core/portfolio_risk_gate.py *)

_portfolio_weather_risk ==
  <<Maybe(<<Return>>),
    Each(<<Try(<<Call("get_weather_feature_snapshot")>>)>>)>>

apply_execution_risk_governor == <<Try(<<Call("get_state")>>)>>

apply_portfolio_risk_gate ==
  <<Maybe(<<Return>>), Try(<<CallOn("get_current_drawdown")>>),
    Try(<<Maybe(<<Call("_portfolio_weather_risk")>>)>>)>>

-----------------------------------------------------------------------------
(* dev_core/position_reconcile.py *)

_broker_positions ==
  <<Maybe(
      <<Catch(
          <<Mismatch("dev_core.broker_alpaca_rest"), Fetch, Return>>,
          <<Return>>)>>),
    Maybe(<<Return>>),
    Maybe(<<Try(Session(<<Read("broker_positions")>>))>>)>>

position_reconcile_ensure_schema == <<Write("position_reconcile_baseline")>>

_load_baseline == <<Read("position_reconcile_baseline")>>

_save_baseline == <<Write("position_reconcile_baseline")>>

pre_live_position_reconcile ==
  <<Maybe(<<Return>>), UnlessGiven(<<Call("init_db"), Connect>>),
    Finally(
      <<CallOn("position_reconcile_ensure_schema"),
        Call("_broker_positions"),
        Maybe(<<Write("position_reconcile_audit"), Return>>),
        CallOn("_load_baseline"),
        Maybe(
          <<Maybe(
              <<CallOn("_save_baseline"), Write("position_reconcile_audit"),
                Return>>),
            Maybe(<<Write("position_reconcile_audit"), Return>>),
            CallOn("_save_baseline"), Return>>),
        Write("position_reconcile_audit"), Maybe(<<Return>>),
        Try(<<CallOn("set_kill_switch")>>)>>,
      <<Close>>)>>

-----------------------------------------------------------------------------
(* dev_core/position_sizing.py *)

_get_size_policy_factor ==
  <<Maybe(<<Maybe(<<Return>>), Return>>)>>
  \o Session(
       <<Try(<<Read("size_policy")>>), Maybe(<<Return>>),
         Try(<<Read("size_policy_points")>>)>>)

position_from_signal ==
  <<Maybe(<<Return>>), Maybe(<<Call("_get_size_policy_factor")>>),
    Call("get_state"), Try(<<Mismatch("dev_core.model_registry")>>),
    Try(<<Call("regime_compat_multiplier")>>)>>

-----------------------------------------------------------------------------
(* dev_core/regime_size.py *)

_anchor_realized_vol == <<Try(<<Read("prices")>>)>>

_rolling_drawdown == <<Try(<<Read("a table, portfolio_bt_points")>>)>>

_vix_z == <<Try(<<Read("prices")>>)>>

regime_capital_scale ==
  <<Maybe(<<Return>>)>>
  \o SessionUnlessGiven(
       <<Try(<<Call("get_current_regime")>>), CallOn("_anchor_realized_vol"),
         Maybe(<<CallOn("_vix_z")>>), Maybe(<<CallOn("_rolling_drawdown")>>)>>)

regime_multiplier ==
  <<Maybe(<<Return>>), Try(<<Call("get_current_regime")>>)>>

-----------------------------------------------------------------------------
(* dev_core/strategy/baseline.py *)

baseline_build_desired == <<Call("_pick_best_per_symbol")>>

-----------------------------------------------------------------------------
(* dev_core/strategy/conservative.py *)

conservative_build_desired == <<Each(<<Mismatch("_score_from_alert")>>)>>

-----------------------------------------------------------------------------
(* dev_core/trade_attribution_ledger.py *)

_alert_expected_meta == <<Try(<<Read("alerts")>>)>>

_ensure_suppression_opportunity_tables == <<Write("suppression_opportunity")>>

trade_attribution_ledger_latest_equity == <<Try(<<Read("equity_history")>>)>>

ensure_trade_attribution_ready == <<Call("init_db")>>

log_suppression ==
  <<Call("ensure_trade_attribution_ready")>>
  \o Session(<<Write("trade_attribution_ledger")>>)

suppression_cost_snapshot == SessionRo(<<Read("trade_attribution_ledger")>>)

suppression_opportunity_snapshot ==
  <<Call("ensure_trade_attribution_ready")>>
  \o Session(
       <<CallOn("_ensure_suppression_opportunity_tables"),
         Read("trade_attribution_ledger"),
         Each(
           <<Maybe(<<Try(<<Read("portfolio_orders")>>)>>),
             Maybe(<<Try(<<Read("portfolio_orders")>>)>>),
             CallOn("trade_attribution_ledger_latest_equity"),
             Maybe(<<CallOn("_alert_expected_meta")>>),
             Write("suppression_opportunity")>>),
         Commit>>)

upsert_from_latest_pnl_attribution_snapshot ==
  <<Call("ensure_trade_attribution_ready")>>
  \o Session(
       <<Read("pnl_attribution"), Maybe(<<Return>>), Read("pnl_attribution"),
         Each(
           <<Try(<<Read("alerts")>>), Try(<<Read("execution_policy_audit")>>),
             Write("trade_attribution_ledger")>>),
         Commit>>)

-----------------------------------------------------------------------------
(* execution_microstructure.py *)

execution_microstructure_ensure_tables ==
  <<Write("exec_open_orders, idx_exec_open_orders_status_next, ..")>>

_log_event == <<Try(<<Write("exec_order_events")>>)>>

manage_open_orders ==
  Session(
    <<CallOn("execution_microstructure_ensure_tables"),
      Read("exec_open_orders"), Maybe(<<Return>>),
      Try(
        <<Mismatch("dev_core.broker_alpaca_rest"),
          Mismatch("dev_core.broker_alpaca_rest"),
          Mismatch("dev_core.broker_alpaca_rest")>>),
      Each(
        <<Try(
            <<Maybe(<<Write("exec_open_orders"), Continue>>),
              Maybe(<<Write("exec_open_orders"), Continue>>),
              Maybe(
                <<Write("exec_open_orders"), CallOn("_log_event"), Continue>>),
              Fetch,
              Maybe(
                <<Write("exec_open_orders"), CallOn("_log_event"), Continue>>),
              Maybe(<<Write("exec_open_orders"), Continue>>),
              Maybe(
                <<Write("exec_open_orders"), CallOn("_log_event"), Continue>>),
              Fetch, Try(<<Call("log_submit")>>), Write("exec_open_orders"),
              CallOn("_log_event")>>)>>),
      Commit>>)

record_open_order ==
  Session(
    <<Try(
        <<CallOn("execution_microstructure_ensure_tables"),
          Write("exec_open_orders")>>)>>)

-----------------------------------------------------------------------------
(* execution_policy_engine.py *)

execution_policy_engine_ensure_tables == <<Write("execution_policy_audit")>>

execution_policy_engine_apply_execution_policy ==
  Session(
    <<CallOn("execution_policy_engine_ensure_tables"),
      CallOn("execution_allowed"), IfBad(<<Return>>),
      Each(
        <<Maybe(<<Continue>>), Try(<<CallOn("compute_regime_vector")>>),
          Maybe(<<Continue>>),
          Each(
            <<Call("get_execution_mode"), Write("execution_policy_audit")>>)>>),
      Commit>>)

-----------------------------------------------------------------------------
(* execution_poll_and_attrib.py *)

_orphan_pnl_invariant ==
  SessionRo(<<Read("pnl_attribution"), Maybe(<<Raise>>)>>)

_residual_hard_invariant ==
  <<Maybe(<<Return>>)>>
  \o SessionRo(<<Read("pnl_decomposition"), Maybe(<<Raise>>)>>)

execution_poll_and_attrib_main ==
  <<Call("init_execution_ledger"),
    Try(
      <<Mismatch("dev_core.broker_alpaca_rest"), Call("poll_and_log_fills")>>),
    Try(<<Mismatch("dev_core.execution_microstructure")>>),
    Call("compute_metrics_snapshot"),
    Call("compute_pnl_attribution_snapshot"),
    Call("compute_capital_efficiency_snapshot"),
    Call("upsert_from_latest_pnl_attribution_snapshot"),
    Call("compute_pnl_decomposition_snapshot"),
    Call("_residual_hard_invariant"), Call("_orphan_pnl_invariant"),
    Call("suppression_opportunity_snapshot")>>

-----------------------------------------------------------------------------
(* execution_quality_job.py *)

execution_quality_job_main ==
  Session(<<Try(<<Call("init_db"), Read("execution_fills")>>)>>)

-----------------------------------------------------------------------------
(* portfolio_rebalance.py *)

_risk_state ==
  <<Try(
      <<Read("portfolio_bt_points"), Maybe(<<Return>>),
        Read("portfolio_bt_points")>>)>>

portfolio_rebalance_main ==
  <<Call("init_db"), Call("acquire_job_lock"), IfBad(<<Return>>),
    Finally(
      <<Catch(
          <<Forever(
              Session(
                <<Try(<<Call("evaluate_rules")>>),
                  Try(<<Mismatch("get_current_regime")>>),
                  CallOn("execution_allowed"), IfBad(<<Return>>),
                  Call("health_get_health_snapshot"),
                  Maybe(<<Try(<<CallOn("activate")>>), Return>>),
                  CallOn("_risk_state"),
                  Maybe(<<Try(<<CallOn("activate")>>), Return>>),
                  Call("compute_rebalance"),
                  Try(<<CallOn("regime_capital_scale")>>),
                  Each(<<Maybe(<<Continue>>), CallOn("execution_allowed")>>),
                  Call("get_portfolio_snapshot")>>)
              \o <<Maybe(
                     <<Try(<<Call("touch_job_lock"), Call("put_job_heartbeat")>>)>>)>>)>>,
          <<Raise>>)>>,
      <<Try(<<Call("release_job_lock")>>)>>)>>

-----------------------------------------------------------------------------
(* trade_attribution_audit_job.py *)

trade_attribution_audit_job_main ==
  <<Call("init_db")>>
  \o SessionRo(<<Read("pnl_attribution, pnl_decomposition, ..")>>)

-----------------------------------------------------------------------------
(* trade_pipeline_job.py *)

_audit == <<Write("pipeline_stage_audit")>>

_circuit_breaker_tripped == <<Try(<<Call("check_circuit_breaker")>>)>>

trade_pipeline_job_ensure_schema == <<Write("pipeline_stage_audit")>>

_run_stage(f) ==
  <<Maybe(<<CallOn("_audit"), Return>>),
    Catch(
      <<f, Maybe(<<CallOn("_audit"), Return>>), CallOn("_audit")>>,
      <<CallOn("_audit")>>)>>

trade_pipeline_job_main ==
  <<Call("_circuit_breaker_tripped"), Maybe(<<Return>>),
    Finally(
      <<Catch(
          <<Call("init_db"), Connect,
            CallOn("trade_pipeline_job_ensure_schema"),
            Mismatch("acquire_job_lock"),
            IfBad(<<CallOn("_audit"), Return>>), CallOn("_audit"),
            CallOn("execution_allowed"),
            IfBad(<<CallOn("_audit"), Return>>), CallOn("_audit"),
            Maybe(<<CallOn("_audit"), Return>>), CallOn("_audit"),
            CallOn("_run_stage"), Maybe(<<Return>>),
            CallOn("allocation_stage"), Maybe(<<Return>>),
            CallOn("rebalance_stage"), Maybe(<<Return>>),
            Try(<<CallOn("regime_capital_scale")>>),
            Try(<<CallOn("_audit")>>),
            Mismatch("dev_core.risk_state.evaluate_risk_guards"),
            Maybe(<<CallOn("_audit"), Return>>), CallOn("_audit"),
            CallOn("execution_stage"), Maybe(<<Return>>),
            Try(<<Call("get_execution_mode")>>), CallOn("_audit"),
            Either(
              <<CallOn("_audit")>>,
              <<CallOn("divergence_stage"), Maybe(<<Return>>)>>),
            CallOn("_audit")>>,
          <<Try(<<Maybe(<<CallOn("_audit")>>)>>)>>)>>,
      <<Try(<<Call("release_job_lock")>>), Close>>)>>

-----------------------------------------------------------------------------
(* The functions of this module by name.                                   *)
TradingTable ==
  [_acquire_lock_compat |-> _acquire_lock_compat,
   _apply_epe_compat |-> _apply_epe_compat,
   _ensure_shadow_table |-> _ensure_shadow_table,
   _load_latest_payload |-> _load_latest_payload,
   _log_shadow_intents |-> _log_shadow_intents,
   _write_execution_meta_last |-> _write_execution_meta_last,
   broker_apply_orders_main |-> broker_apply_orders_main,
   alpha_ensure_tables |-> alpha_ensure_tables, alpha_state |-> alpha_state,
   ensure_alpha_from_intent |-> ensure_alpha_from_intent,
   register_alpha |-> register_alpha,
   alpaca_latest_order_row |-> alpaca_latest_order_row,
   alpaca_price_at_or_before |-> alpaca_price_at_or_before,
   alpaca_apply_latest_portfolio_orders_live |->
     alpaca_apply_latest_portfolio_orders_live,
   poll_and_log_fills |-> poll_and_log_fills,
   get_realized_trade |-> get_realized_trade,
   ibkr_latest_order_row |-> ibkr_latest_order_row,
   ibkr_price_at_or_before |-> ibkr_price_at_or_before,
   ibkr_apply_latest_portfolio_orders_live |->
     ibkr_apply_latest_portfolio_orders_live,
   run_execution_stream_daemon |-> run_execution_stream_daemon,
   _adaptive_execute_orders |-> _adaptive_execute_orders,
   _apply_one |-> _apply_one,
   _load_recent_slippage_bps |-> _load_recent_slippage_bps,
   apply_new_portfolio_orders_router |-> apply_new_portfolio_orders_router,
   broker_sim_earnings_proximity_decay |->
     broker_sim_earnings_proximity_decay,
   broker_sim_ensure_tables |-> broker_sim_ensure_tables, _equity |-> _equity,
   broker_sim_get_factor_feature_asof |-> broker_sim_get_factor_feature_asof,
   _get_price_at_or_before |-> _get_price_at_or_before,
   _mark_to_market |-> _mark_to_market, _write_fill |-> _write_fill,
   _write_position |-> _write_position,
   apply_new_portfolio_orders |-> apply_new_portfolio_orders,
   broker_equity_at |-> broker_equity_at, broker_snapshot |-> broker_snapshot,
   init_broker_db |-> init_broker_db, broker_sim_main |-> broker_sim_main,
   _build_covariance |-> _build_covariance,
   corr_aware_optimize_desired |-> corr_aware_optimize_desired,
   dual_execution_ensure_schema |-> dual_execution_ensure_schema,
   _read_sim_positions |-> _read_sim_positions,
   apply_latest_portfolio_orders_dual_ibkr |->
     apply_latest_portfolio_orders_dual_ibkr,
   adjust_expected_z_for_costs |-> adjust_expected_z_for_costs,
   snapshot_equity |-> snapshot_equity,
   _build_alpha_preservation_kpis |-> _build_alpha_preservation_kpis,
   execution_analytics_engine_ensure_tables |->
     execution_analytics_engine_ensure_tables,
   _update_slippage_feedback |-> _update_slippage_feedback,
   build_execution_analytics |-> build_execution_analytics,
   compute_adaptive_half_life |-> compute_adaptive_half_life,
   get_execution_degradation_snapshot |-> get_execution_degradation_snapshot,
   get_expectancy_multiplier |-> get_expectancy_multiplier,
   get_latency_variance_zscore |-> get_latency_variance_zscore,
   get_rolling_expectancy_stats |-> get_rolling_expectancy_stats,
   get_slippage_feedback |-> get_slippage_feedback,
   get_slippage_zscore |-> get_slippage_zscore,
   rank_brokers_by_cost |-> rank_brokers_by_cost,
   summarize_execution_performance |-> summarize_execution_performance,
   _last_price |-> _last_price, _log_fill_v1 |-> _log_fill_v1,
   _log_fill_v2 |-> _log_fill_v2, _vwap_for_client |-> _vwap_for_client,
   compute_capital_efficiency_snapshot |->
     compute_capital_efficiency_snapshot,
   compute_metrics_snapshot |-> compute_metrics_snapshot,
   compute_pnl_attribution_snapshot |-> compute_pnl_attribution_snapshot,
   init_execution_ledger |-> init_execution_ledger, log_fill |-> log_fill,
   log_submit |-> log_submit,
   _apply_capital_preservation_mode |-> _apply_capital_preservation_mode,
   execution_policy_engine_capital_mode |->
     execution_policy_engine_capital_mode,
   core_execution_policy_engine_ensure_tables |->
     core_execution_policy_engine_ensure_tables,
   _evaluate_trade_suppression |-> _evaluate_trade_suppression,
   _get_feedback_map |-> _get_feedback_map,
   _market_stress_snapshot |-> _market_stress_snapshot,
   _social_regime_vector |-> _social_regime_vector,
   core_execution_policy_engine_apply_execution_policy |->
     core_execution_policy_engine_apply_execution_policy,
   _alert_signal_meta |-> _alert_signal_meta,
   pnl_decomposition_engine_ensure_tables |->
     pnl_decomposition_engine_ensure_tables,
   pnl_decomposition_engine_latest_equity |->
     pnl_decomposition_engine_latest_equity,
   _order_exposure_meta |-> _order_exposure_meta,
   compute_pnl_decomposition_snapshot |-> compute_pnl_decomposition_snapshot,
   _apply_impact_aware_sizing |-> _apply_impact_aware_sizing,
   _apply_temporal_dampener |-> _apply_temporal_dampener,
   portfolio_capital_mode |-> portfolio_capital_mode,
   _eff_gross_cap |-> _eff_gross_cap,
   _eff_max_positions |-> _eff_max_positions,
   _eff_min_abs_z |-> _eff_min_abs_z, _eff_min_conf |-> _eff_min_conf,
   _eff_rebalance_cooldown_s |-> _eff_rebalance_cooldown_s,
   _emit_order |-> _emit_order, _exec_realism_factor |-> _exec_realism_factor,
   _execution_realism_factor |-> _execution_realism_factor,
   _is_price_fresh |-> _is_price_fresh,
   _last_price_age_s |-> _last_price_age_s,
   _latest_price_ts_ms |-> _latest_price_ts_ms,
   _load_avg_slippage_bps_by_symbol |-> _load_avg_slippage_bps_by_symbol,
   _load_live_strategies |-> _load_live_strategies,
   _load_recent_alert_candidates |-> _load_recent_alert_candidates,
   _load_state |-> _load_state,
   _load_strategy_efficiency |-> _load_strategy_efficiency,
   _optimize_capital_allocation |-> _optimize_capital_allocation,
   _pick_best_per_symbol |-> _pick_best_per_symbol,
   _vix_stress |-> _vix_stress, _write_state_row |-> _write_state_row,
   compute_rebalance |-> compute_rebalance,
   get_portfolio_snapshot |-> get_portfolio_snapshot,
   init_portfolio_db |-> init_portfolio_db, _alert_meta |-> _alert_meta,
   intents_earnings_proximity_decay |-> intents_earnings_proximity_decay,
   intents_get_factor_feature_asof |-> intents_get_factor_feature_asof,
   _portfolio_orders_batch_rows |-> _portfolio_orders_batch_rows,
   _portfolio_orders_latest_anchor |-> _portfolio_orders_latest_anchor,
   load_latest_execution_intents |-> load_latest_execution_intents,
   _portfolio_weather_risk |-> _portfolio_weather_risk,
   apply_execution_risk_governor |-> apply_execution_risk_governor,
   apply_portfolio_risk_gate |-> apply_portfolio_risk_gate,
   _broker_positions |-> _broker_positions,
   position_reconcile_ensure_schema |-> position_reconcile_ensure_schema,
   _load_baseline |-> _load_baseline, _save_baseline |-> _save_baseline,
   pre_live_position_reconcile |-> pre_live_position_reconcile,
   _get_size_policy_factor |-> _get_size_policy_factor,
   position_from_signal |-> position_from_signal,
   _anchor_realized_vol |-> _anchor_realized_vol,
   _rolling_drawdown |-> _rolling_drawdown, _vix_z |-> _vix_z,
   regime_capital_scale |-> regime_capital_scale,
   regime_multiplier |-> regime_multiplier,
   baseline_build_desired |-> baseline_build_desired,
   conservative_build_desired |-> conservative_build_desired,
   _alert_expected_meta |-> _alert_expected_meta,
   _ensure_suppression_opportunity_tables |->
     _ensure_suppression_opportunity_tables,
   trade_attribution_ledger_latest_equity |->
     trade_attribution_ledger_latest_equity,
   ensure_trade_attribution_ready |-> ensure_trade_attribution_ready,
   log_suppression |-> log_suppression,
   suppression_cost_snapshot |-> suppression_cost_snapshot,
   suppression_opportunity_snapshot |-> suppression_opportunity_snapshot,
   upsert_from_latest_pnl_attribution_snapshot |->
     upsert_from_latest_pnl_attribution_snapshot,
   execution_microstructure_ensure_tables |->
     execution_microstructure_ensure_tables,
   _log_event |-> _log_event, manage_open_orders |-> manage_open_orders,
   record_open_order |-> record_open_order,
   execution_policy_engine_ensure_tables |->
     execution_policy_engine_ensure_tables,
   execution_policy_engine_apply_execution_policy |->
     execution_policy_engine_apply_execution_policy,
   _orphan_pnl_invariant |-> _orphan_pnl_invariant,
   _residual_hard_invariant |-> _residual_hard_invariant,
   execution_poll_and_attrib_main |-> execution_poll_and_attrib_main,
   execution_quality_job_main |-> execution_quality_job_main,
   _risk_state |-> _risk_state,
   portfolio_rebalance_main |-> portfolio_rebalance_main,
   trade_attribution_audit_job_main |-> trade_attribution_audit_job_main,
   _audit |-> _audit, _circuit_breaker_tripped |-> _circuit_breaker_tripped,
   trade_pipeline_job_ensure_schema |-> trade_pipeline_job_ensure_schema,
   _run_stage |-> _run_stage(CallOn("discover_universe_once")),
   trade_pipeline_job_main |-> trade_pipeline_job_main,
   allocation_stage |->
     _run_stage(Mismatch("dev_core.meta_strategy_layer")),
   rebalance_stage |-> _run_stage(Call("compute_rebalance")),
   execution_stage |-> _run_stage(Call("broker_apply_orders_main")),
   divergence_stage |-> _run_stage(Mismatch("check_dual_divergence"))]
=============================================================================
