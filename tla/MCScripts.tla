-----------------------------  MODULE MCScripts ------------------------------
EXTENDS Scripts, FunctionTable

RECURSIVE PartsIn(_)
PartsIn(q) ==
  UNION {{q[k]} \cup PartsIn(q[k].body) \cup PartsIn(q[k].other) :
           k \in DOMAIN q}

MCParts == [f \in DOMAIN Functions |-> PartsIn(Functions[f])]

(* The functions that are not sessions, or call one that is not: nearly    *)
(* all of them do something between connect and the try, and some never    *)
(* close.                                                                  *)
MCUntidy ==
  {"backfill_labels_price_from_prices_main", "compute_drift_main",
   "compute_earnings_proximity_main", "compute_exec_labels_from_fills_main",
   "compute_index_flow_imbalance_main", "compute_options_skew_main",
   "compute_social_regime_main", "decision_log_log_decision", "emit_alert",
   "enriched_main", "init_decision_log_db", "_mark_stale", "poll_prices_main",
   "predict_event", "process_events_live_main", "process_events_main",
   "prod_selftest_main", "trade_pipeline_job_main", "train_size_policy_main",
   "universe_discovery_job_main"}

MCTidy == DOMAIN Functions \ MCUntidy

MCEntry ==
  {"_apply_capital_preservation_mode",
   "_eff_max_positions",
   "_exec_cost_gate_sanity",
   "_get_validation_row",
   "_load_latest_payload",
   "_log_shadow_intents",
   "_passes_cooldown",
   "_passes_rate_limit",
   "_put_bar",
   "_social_regime_vector",
   "_verify_required_tables",
   "_write_execution_meta_last",
   "activate",
   "alerts_service_get_alerts",
   "alpaca_apply_latest_portfolio_orders_live",
   "apply_latest_portfolio_orders_dual_ibkr",
   "auto_challenger_loop",
   "auto_pipeline_loop",
   "backfill_labels_price_from_prices_main",
   "backtest_walk_forward_main",
   "baseline_build_desired",
   "blacklist_update_job_main",
   "broker_apply_orders_main",
   "broker_equity_at",
   "broker_sim_main",
   "broker_snapshot",
   "build_execution_analytics",
   "build_social_features_main",
   "check_kill_switches",
   "compute_drift_main",
   "compute_earnings_proximity_main",
   "compute_exec_labels_from_fills_main",
   "compute_exec_z_main",
   "compute_factor_features_main",
   "compute_factor_features_run_once",
   "compute_gdelt_macro_main",
   "compute_index_flow_imbalance_main",
   "compute_model_metrics",
   "compute_options_skew_main",
   "compute_rebalance",
   "compute_social_regime_main",
   "compute_validation_scores",
   "compute_weather_ingest_main",
   "conservative_build_desired",
   "core_jobs_eval_temporal_shadow_main",
   "decision_log_log_decision",
   "discover_universe_once",
   "domain_blacklist_train_main",
   "domain_conf_multiplier",
   "earnings_poll_main",
   "enriched_main",
   "eval_temporal_shadow_main",
   "evaluate_strategies_main",
   "example_register_and_ingest_skeleton",
   "execution_allowed",
   "execution_allowed_for_real_trading",
   "execution_policy_engine_apply_execution_policy",
   "execution_poll_and_attrib_main",
   "execution_quality_job_main",
   "factor_group_scores_main",
   "factor_group_scores_run_once",
   "gdelt_poll_main",
   "get_exec_stats_by_symbol",
   "get_latest_exec_conf_calib",
   "get_model_metrics",
   "get_portfolio_snapshot",
   "get_weather_alert_summary",
   "get_weather_effect_summary",
   "health_get_health_snapshot",
   "ingest_batch_observations",
   "ingest_now_main",
   "ingest_options_main",
   "is_domain_blocked",
   "kill_drift_monitor_main",
   "kill_health_monitor_main",
   "kill_slippage_monitor_main",
   "label_event",
   "learn_exec_conf_calibration",
   "live_stability_guard_job_main",
   "load_latest_size_policy",
   "load_policy",
   "load_strategy_module",
   "load_training_labels",
   "log_rule",
   "log_suppression",
   "manage_open_orders",
   "manual_rollback",
   "maybe_release_cooldown",
   "monitor_calibration_health_main",
   "options_poll_main",
   "poll_and_log_fills",
   "poll_prices_main",
   "poll_social_reddit_main",
   "poll_social_stocktwits_main",
   "poll_weather_alerts_main",
   "poll_weather_alerts_run_once",
   "poll_weather_forecasts_main",
   "poll_weather_forecasts_run_once",
   "portfolio_backtest_main",
   "portfolio_rebalance_main",
   "position_from_signal",
   "post_promotion_monitor_main",
   "predict_event",
   "predict_temporal_shadow_open",
   "process_events_live_main",
   "process_events_main",
   "process_events_shadow_main",
   "prod_preflight_main",
   "prod_selftest_main",
   "prod_trade_attribution_selftest_main",
   "promote_temporal_main",
   "promote_with_snapshot_and_watch",
   "provider_monitor_job_main",
   "put_job_checkpoint",
   "put_price",
   "recalibrate_confidence_main",
   "record_open_order",
   "regime_capital_scale",
   "regime_multiplier",
   "rl_strategy_policy_log_decision",
   "route_best_price",
   "run_execution_stream_daemon",
   "sec_poll_main",
   "set_execution_mode",
   "shadow_metrics_job_run",
   "shadow_predict",
   "sleep_guard_main",
   "snapshot_decision",
   "snapshot_equity",
   "store_prediction",
   "strategy_governance_job_main",
   "stream_prices_ibkr_main",
   "summarize_execution_performance",
   "suppression_cost_snapshot",
   "trade_attribution_audit_job_main",
   "trade_pipeline_job_main",
   "trading_allowed",
   "train_and_eval_main",
   "train_drawdown_policy_main",
   "train_embed_models",
   "train_model_v2_main",
   "train_rl_strategy_policy_main",
   "train_size_policy_main",
   "train_temporal_main",
   "universe_discovery_job_main",
   "update_regime_compat",
   "update_universe_main",
   "weather_alerts_ingest_ingest_once",
   "weather_alerts_ingest_main",
   "weather_effect_main",
   "weather_effect_run_once",
   "weather_guard_main",
   "weather_guard_run_once"}
MCGiven ==
  {"_alpha_decay_penalty",
   "_apply_epe_compat",
   "_apply_impact_aware_sizing",
   "_apply_temporal_dampener",
   "_compute_bucket",
   "_corr",
   "_detect_realized_exec_cost_spike",
   "_emit_order",
   "_ensure_row",
   "_exec_realism_factor",
   "_execution_realism_factor",
   "_get_feedback_map",
   "_get_tse_state",
   "_latest_quote",
   "_load_bt_points",
   "_load_live_strategies",
   "_load_recent_alert_candidates",
   "_load_state",
   "_load_strategy_efficiency",
   "_market_stress_snapshot",
   "_maybe_auto_expire",
   "_optimize_capital_allocation",
   "_poll_once",
   "_realized_label",
   "_returns_std_from_bars",
   "_risk_state",
   "_run_stage",
   "_targets_from_recent_alerts",
   "_vix_stress",
   "_write_fill",
   "_write_position",
   "_write_state_row",
   "alerts_put_provider_health",
   "alpaca_price_at_or_before",
   "alpha_state",
   "apply_execution_risk_governor",
   "apply_portfolio_risk_gate",
   "backtest_walk_forward_ensure_schema",
   "broker_sim_earnings_proximity_decay",
   "check_predictions_stalled",
   "check_stuck_watches",
   "choose_strategy_name",
   "compute_adaptive_half_life",
   "core_execution_policy_engine_apply_execution_policy",
   "corr_aware_optimize_desired",
   "enriched_compute_novelty",
   "enriched_detect_exec_cost_spike",
   "enriched_earnings_context",
   "enriched_exec_cost_context",
   "enriched_options_anomaly",
   "enriched_options_context",
   "enriched_sec_filing_context",
   "enriched_update_event_meta_json",
   "enriched_upsert_watch_symbols",
   "ensure_alpha_from_intent",
   "execution_mode_has_column",
   "get_adjusted_confidence",
   "get_blacklisted_symbols",
   "get_execution_degradation_snapshot",
   "get_expectancy_multiplier",
   "get_symbol_max_drift_ratio",
   "get_universe_snapshot",
   "ibkr_price_at_or_before",
   "is_blacklisted",
   "materialize_simple_feature",
   "predict_temporal_shadow_for_event",
   "process_events_compute_novelty",
   "process_events_detect_exec_cost_spike",
   "process_events_earnings_context",
   "process_events_exec_cost_context",
   "process_events_options_anomaly",
   "process_events_options_context",
   "process_events_sec_filing_context",
   "process_events_update_event_meta_json",
   "process_events_upsert_watch_symbols",
   "promote_temporal_put_provider_health",
   "rank_brokers_by_cost",
   "social_gate_for_symbol",
   "train_temporal_put_provider_health"}
=============================================================================
