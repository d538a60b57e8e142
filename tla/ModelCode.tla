----------------------------- MODULE ModelCode -----------------------------
(***************************************************************************)
(* The jobs that train, evaluate, promote and watch models, and the        *)
(* scripts that run them one after the other.                              *)
(***************************************************************************)
EXTENDS Statements

-----------------------------------------------------------------------------
(* backtest_walk_forward.py *)

backtest_walk_forward_ensure_schema ==
  <<Write("walk_forward_runs, walk_forward_scores")>>

backtest_walk_forward_main ==
  <<Call("init_db"), Mismatch("init_validation_db")>>
  \o Session(
       <<CallOn("backtest_walk_forward_ensure_schema"), Read("events"),
         Maybe(<<Return>>), Read("labels"),
         Write("walk_forward_scores, walk_forward_runs")>>)

-----------------------------------------------------------------------------
(* compute_drift.py *)

compute_drift_latest_age_s == <<Try(<<Read("a table")>>)>>

compute_drift_main ==
  <<Call("init_db"), Call("acquire_job_lock"), IfBad(<<Raise>>),
    Finally(
      <<Connect, CallOn("compute_drift_latest_age_s"), Maybe(<<Return>>),
        Maybe(<<Call("touch_job_lock"), Call("put_job_heartbeat")>>)>>,
      <<Try(<<Call("release_job_lock")>>)>>)>>

-----------------------------------------------------------------------------
(* compute_exec_labels_from_fills.py *)

_latest_price == <<Try(<<Read("prices")>>)>>

_price_path == <<Try(<<Write("labels_exec"), Read("prices")>>)>>

_rolling_exec_z == <<Try(<<Read("a table")>>)>>

compute_exec_labels_from_fills_main ==
  <<Call("init_db"), Call("acquire_job_lock"), IfBad(<<Raise>>), Connect,
    Finally(
      <<Catch(<<Read("labels")>>, <<Return>>), Read("predictions"),
        Write("alpha_decay_metrics"),
        Each(
          <<Maybe(
              <<Try(<<Call("touch_job_lock"), Call("put_job_heartbeat")>>)>>),
            Try(
              <<Call("get_realized_trade"), Maybe(<<Continue>>),
                Maybe(<<CallOn("_latest_price"), Maybe(<<Continue>>)>>),
                Maybe(<<Continue>>),
                Try(<<CallOn("_price_path"), Write("alpha_decay_metrics")>>),
                CallOn("_rolling_exec_z"), Write("labels_exec"),
                Maybe(
                  <<Try(
                      <<Call("get_current_regime"),
                        Call("update_regime_compat")>>)>>)>>)>>)>>,
      <<Finally(<<Close>>, <<Try(<<Call("release_job_lock")>>)>>)>>)>>

-----------------------------------------------------------------------------
(* compute_model_weather_effect.py *)

_load_joined == <<Read("labels")>>

weather_effect_main ==
  <<Call("init_db"), Mismatch("acquire_job_lock"), IfBad(<<Raise>>),
    Finally(
      <<Forever(
          <<Maybe(<<Call("touch_job_lock"), Call("put_job_heartbeat")>>),
            Call("weather_effect_run_once")>>)>>,
      <<Call("release_job_lock")>>)>>

weather_effect_run_once ==
  Session(
    <<Read("labels"),
      Each(
        <<CallOn("_load_joined"), Maybe(<<Continue>>),
          Write("model_weather_effect")>>),
      Commit>>)

-----------------------------------------------------------------------------
(* compute_weather_promotion_guard.py *)

_read_recent_effect == <<Read("model_weather_effect")>>

_write_policy == <<Write("active_feature_policy, factor_group_scores")>>

weather_guard_main ==
  <<Call("init_db"), Mismatch("acquire_job_lock"), IfBad(<<Raise>>),
    Finally(
      <<Forever(
          <<Maybe(<<Call("touch_job_lock"), Call("put_job_heartbeat")>>),
            Call("weather_guard_run_once")>>)>>,
      <<Call("release_job_lock")>>)>>

weather_guard_run_once ==
  Session(
    <<Write("factor_groups"), Read("model_weather_effect"),
      Each(<<CallOn("_read_recent_effect"), CallOn("_write_policy")>>),
      Commit>>)

-----------------------------------------------------------------------------
(* dev_core/exec_conf_calibration.py *)

_ensure_exec_conf_calib ==
  <<Write("exec_conf_calib, idx_exec_conf_calib_ts")>>

get_latest_exec_conf_calib ==
  Session(
    <<CallOn("_ensure_exec_conf_calib"), Commit,
      Try(<<Read("exec_conf_calib")>>)>>)

learn_exec_conf_calibration ==
  Session(
    <<CallOn("_ensure_exec_conf_calib"), Commit,
      Try(<<Read("predictions")>>), Write("exec_conf_calib")>>)

-----------------------------------------------------------------------------
(* dev_core/jobs/backfill_labels_price_from_prices.py *)

_nearest_price_at_or_after == <<Read("prices")>>

_rolling_z == <<Read("labels_price")>>

backfill_labels_price_from_prices_main ==
  <<Call("init_db"), Call("acquire_job_lock"), IfBad(<<Raise>>),
    Try(<<Connect, Read("labels_price")>>),
    Finally(
      Session(
        <<Read("decisions"), Maybe(<<Return>>),
          Each(
            <<Maybe(
                <<Try(<<Call("touch_job_lock"), Call("put_job_heartbeat")>>)>>),
              CallOn("_nearest_price_at_or_after"), Maybe(<<Continue>>),
              Each(
                <<CallOn("_nearest_price_at_or_after"), Maybe(<<Continue>>),
                  CallOn("_rolling_z"), Try(<<Write("labels_price")>>)>>)>>),
          Commit>>),
      <<Try(<<Call("release_job_lock")>>)>>)>>

-----------------------------------------------------------------------------
(* dev_core/jobs/eval_temporal_shadow.py *)

core_jobs_eval_temporal_shadow_main ==
  <<Call("init_db")>> \o Session(<<Write("temporal_shadow_eval")>>)

-----------------------------------------------------------------------------
(* dev_core/jobs/shadow_metrics_job.py *)

shadow_metrics_job_run ==
  Session(
    <<Read("shadow_predictions"),
      Each(<<Maybe(<<Continue>>), Write("shadow_metrics")>>), Commit>>)

-----------------------------------------------------------------------------
(* dev_core/promotion_audit.py *)

audit == <<Call("init_db")>> \o Session(<<Write("model_promotion_audit")>>)

-----------------------------------------------------------------------------
(* dev_core/promotion_guard.py *)

get_guard == <<Call("init_db")>> \o Session(<<Read("model_promotion_guard")>>)

promotion_allowed ==
  <<Call("init_db"), Call("get_guard"), Maybe(<<Return>>)>>
  \o Session(
       <<Try(<<Read("model_promotion_audit")>>), Try(<<Read("alerts")>>),
         Maybe(<<Try(<<Read("equity_drift")>>)>>),
         Maybe(<<Try(<<Read("model_drift")>>)>>)>>)
  \o <<Try(<<Read("trade_attribution_ledger")>>), Maybe(<<Answer("yes")>>)>>

-----------------------------------------------------------------------------
(* dev_core/promotion_hardening.py *)

auto_rollback ==
  <<Call("init_db"), Maybe(<<Return>>), Call("audit"), Call("close_watch")>>

close_watch ==
  <<Call("init_db")>> \o Session(<<Write("model_post_promo_watch")>>)

manual_rollback == <<Call("init_db"), Maybe(<<Return>>), Call("audit")>>

promote_with_snapshot_and_db_watch ==
  <<Call("init_db")>>
  \o Session(<<Call("audit"), CallOn("start_watch"), Call("audit")>>)

promote_with_snapshot_and_watch ==
  <<Call("audit"), Each(<<Maybe(<<Continue>>), Call("audit"), Return>>),
    Call("audit")>>

start_watch ==
  <<Call("init_db")>>
  \o SessionUnlessGiven(<<Write("model_post_promo_watch")>>)

-----------------------------------------------------------------------------
(* dev_core/regime_compat.py *)

regime_compat_ensure_tables == <<Write("regime_compat_scores")>>

regime_compat_multiplier ==
  <<Maybe(<<Return>>)>>
  \o Session(
       <<CallOn("regime_compat_ensure_tables"), Call("get_current_regime"),
         Read("regime_compat_scores")>>)

update_regime_compat ==
  <<Maybe(<<Return>>)>>
  \o Session(
       <<CallOn("regime_compat_ensure_tables"), Read("regime_compat_scores"),
         Write("regime_compat_scores")>>)

-----------------------------------------------------------------------------
(* dev_core/regime_stack.py *)

compute_regime_vector ==
  SessionUnlessGiven(
    <<Try(<<CallOn("_get_feature_asof")>>),
      Try(<<CallOn("_get_feature_asof")>>),
      Try(<<CallOn("_get_feature_asof")>>),
      Maybe(<<Try(<<Call("compute_tech_features")>>)>>),
      Try(<<CallOn("_get_feature_asof")>>),
      Try(<<Call("get_social_regime_vector")>>)>>)

-----------------------------------------------------------------------------
(* dev_core/rl_strategy_policy.py *)

init_rl_policy_db == Session(<<Write("rl_strategy_policy_models")>>)

load_policy ==
  <<Call("init_rl_policy_db")>>
  \o Session(<<Read("rl_strategy_policy_models")>>)

rl_strategy_policy_log_decision ==
  <<Call("init_rl_policy_db")>>
  \o Session(<<Write("rl_strategy_policy_decisions")>>)

upsert_policy ==
  <<Call("init_rl_policy_db")>>
  \o Session(<<Write("rl_strategy_policy_models")>>)

-----------------------------------------------------------------------------
(* dev_core/size_policy.py *)

load_latest_size_policy ==
  <<Call("init_db")>>
  \o SessionUnlessGiven(
       <<Read("size_policy"), Maybe(<<Return>>), Read("size_policy_points")>>)

-----------------------------------------------------------------------------
(* dev_core/strategy_selector.py *)

_load_strategy_metrics == <<Try(<<Read("strategy_metrics")>>)>>

choose_strategy_name ==
  <<Maybe(<<CallOn("_load_strategy_metrics")>>), Read("portfolio_meta"),
    Maybe(<<Maybe(<<Return>>), Write("portfolio_meta"), Return>>),
    Maybe(<<Write("portfolio_meta")>>)>>

load_strategy_module ==
  <<Maybe(<<Mismatch("dev_core.strategies"), Return>>),
    Mismatch("dev_core.strategies")>>

-----------------------------------------------------------------------------
(* dev_core/training_window.py *)

load_training_labels ==
  Session(<<Catch(<<Read("labels")>>, <<Return>>), Read("labels")>>)

-----------------------------------------------------------------------------
(* eval_temporal_shadow.py *)

eval_temporal_shadow_main ==
  <<Call("init_db"), Mismatch("init_validation_db")>>
  \o Session(
       <<Write("temporal_shadow_eval"), Read("temporal_predictions"),
         Each(<<Maybe(<<Continue>>), Write("temporal_shadow_eval")>>), Commit>>)

-----------------------------------------------------------------------------
(* evaluate_strategies.py *)

_alpha_decay_penalty ==
  <<Maybe(<<Return>>), Catch(<<Read("alpha_decay_metrics")>>, <<Return>>),
    Maybe(<<Return>>), Each(<<Read("alpha_decay_metrics")>>)>>

_load_bt_points == <<Read("portfolio_bt_points")>>

_run == <<Call("run_backtest")>>

evaluate_strategies_main ==
  <<Call("init_db")>>
  \o Session(
       <<Write("strategy_metrics"), Try(<<Write("idx_strategy_metrics_ts")>>),
         Commit,
         Each(
           <<Call("_run"), Maybe(<<Continue>>), CallOn("_load_bt_points"),
             CallOn("_alpha_decay_penalty"), Write("strategy_metrics")>>)>>)

-----------------------------------------------------------------------------
(* monitor_calibration_health.py *)

_read_curve == <<Read("confidence_calibration")>>

monitor_calibration_health_main ==
  <<Call("init_db"), Call("acquire_job_lock"), IfBad(<<Raise>>), Connect,
    Finally(
      <<Each(<<Each(<<CallOn("_read_curve")>>)>>), Read("risk_state"),
        Write("risk_state"), Maybe(<<Try(<<Write("risk_state")>>)>>)>>,
      <<Close, Try(<<Call("release_job_lock")>>)>>)>>

-----------------------------------------------------------------------------
(* pipeline_runner.py *)

pipeline_runner_max_drift_ratio == Session(<<Read("model_drift")>>)

auto_challenger_loop ==
  <<Forever(<<Try(<<Call("pipeline_runner_max_drift_ratio")>>)>>)>>

auto_pipeline_loop ==
  <<Forever(<<Try(<<Call("pipeline_runner_run_pipeline")>>)>>)>>

pipeline_runner_run_pipeline == <<>>

-----------------------------------------------------------------------------
(* pipeline_train_and_eval.py *)

_count == <<Try(<<Read("a table")>>)>>

_data_gates_or_exit ==
  Session(<<CallOn("train_and_eval_latest_age_s"), CallOn("_count")>>)
  \o <<Maybe(<<Raise>>)>>

train_and_eval_latest_age_s == <<Try(<<Read("a table")>>)>>

_net_eval_metrics == <<Read("predictions")>>

train_and_eval_main ==
  <<Call("init_db"), Call("acquire_job_lock"), IfBad(<<Return>>),
    Finally(
      <<Catch(
          <<Call("_data_gates_or_exit"), Call("touch_job_lock"),
            Call("put_job_heartbeat"), Maybe(<<Return>>),
            Maybe(<<Call("audit"), Return>>)>>
          \o Session(
               <<Read("embed_model_eval"), Maybe(<<Call("audit"), Return>>),
                 Read("embed_model_eval")>>)
          \o Session(<<CallOn("_net_eval_metrics")>>)
          \o <<Call("promotion_allowed"), IfBad(<<Call("audit"), Return>>),
               Maybe(<<Call("audit"), Return>>),
               Each(
                 <<Maybe(<<Call("touch_job_lock")>>),
                   Call("put_job_heartbeat"), Try(Session(<<Read("labels")>>)),
                   Maybe(<<Continue>>),
                   Call("promote_with_snapshot_and_db_watch")>>),
               Call("audit")>>,
          <<Raise>>)>>,
      <<Try(<<Call("release_job_lock")>>)>>)>>

-----------------------------------------------------------------------------
(* portfolio_backtest.py *)

_get_tse_state == <<Try(<<Read("trade_suppression_state")>>)>>

_realized_label == <<Read("labels")>>

_resolve_event_id ==
  <<Maybe(<<Return>>), Read("events"), Maybe(<<Return>>), Read("events")>>

_targets_from_recent_alerts ==
  <<Try(<<Read("pragma")>>), Read("alerts"),
    Each(
      <<Maybe(<<Continue>>),
        Maybe(
          <<Maybe(<<CallOn("_resolve_event_id")>>),
            CallOn("compute_regime_vector")>>)>>)>>

portfolio_backtest_main == <<Call("run_backtest")>>

run_backtest ==
  Session(
    <<Try(<<Call("init_portfolio_db")>>), Write("portfolio_bt_runs"),
      Read("alerts"),
      Each(
        <<CallOn("_targets_from_recent_alerts"),
          CallOn("core_execution_policy_engine_apply_execution_policy"),
          CallOn("_get_tse_state"),
          Each(<<Maybe(<<Continue>>), CallOn("_realized_label")>>),
          Write("portfolio_bt_points")>>),
      Read("portfolio_bt_points"), Write("portfolio_bt_runs")>>)

-----------------------------------------------------------------------------
(* post_promotion_monitor.py *)

_eval_window == <<Read("predictions")>>

post_promotion_monitor_main ==
  <<Call("init_db"), Call("init_validation_db")>>
  \o Session(
       <<Read("model_post_promo_watch"), Maybe(<<Return>>),
         Each(
           <<Maybe(<<Call("close_watch"), Continue>>), CallOn("_eval_window"),
             Maybe(<<Continue>>), Write("model_post_promo_results"),
             Maybe(<<Continue>>),
             Maybe(
               <<Call("auto_rollback"), Maybe(<<Try(<<CallOn("activate")>>)>>)>>)>>)>>)

-----------------------------------------------------------------------------
(* promote_temporal_models.py *)

promote_temporal_put_provider_health == <<Write("price_provider_health")>>

promote_temporal_main ==
  <<Call("init_db"), Call("acquire_job_lock"), IfBad(<<Return>>),
    Finally(
      Session(
        <<Read("temporal_shadow_eval"),
          Each(
            <<Maybe(<<Continue>>), Write("temporal_models"),
              Mismatch("audit")>>),
          Maybe(<<Commit>>)>>),
      <<Try(<<Call("release_job_lock")>>)>>)>>

-----------------------------------------------------------------------------
(* recalibrate_confidence.py *)

recalibrate_confidence_main ==
  <<Call("training_allowed"), IfBad(<<Raise>>), Call("init_db"),
    Mismatch("acquire_job_lock"), IfBad(<<Raise>>),
    Finally(
      <<Mismatch("train_embed_models"),
        Try(<<Call("learn_relevance_stats")>>)>>,
      <<Try(<<Mismatch("release_job_lock")>>)>>)>>

-----------------------------------------------------------------------------
(* strategy_governance_job.py *)

strategy_governance_job_get_meta == <<Try(<<Read("portfolio_meta")>>)>>

_latest_metrics_per_strategy == <<Read("strategy_metrics")>>

_set_busy_timeout ==
  <<Catch(<<Read("pragma")>>, <<Try(<<Read("pragma")>>)>>)>>

strategy_governance_job_main ==
  Session(
    <<Catch(
        <<Call("init_db"), CallOn("_set_busy_timeout"),
          Maybe(<<Try(<<Call("init_portfolio_db")>>)>>), Try(<<Write("")>>),
          Call("acquire_job_lock"), IfBad(<<Return>>),
          Call("touch_job_lock"),
          CallOn("strategy_governance_job_get_meta"),
          Maybe(<<Call("release_job_lock"), Return>>),
          CallOn("_latest_metrics_per_strategy"),
          Maybe(<<Call("release_job_lock"), Return>>),
          Each(
            <<Read("strategy_registry"),
              Maybe(<<Write("strategy_registry")>>),
              Try(<<Write("strategy_metrics")>>)>>),
          Maybe(
            <<Write("portfolio_meta"), Call("release_job_lock"), Commit,
              Return>>),
          CallOn("strategy_governance_job_get_meta"),
          Write("portfolio_meta"),
          Maybe(
            <<Write("portfolio_meta"), Maybe(<<Try(<<Call("audit")>>)>>)>>),
          Write("portfolio_meta"), Call("release_job_lock"), Commit>>,
        <<Try(<<Call("release_job_lock")>>)>>)>>)

-----------------------------------------------------------------------------
(* train_drawdown_policy.py *)

_load_equity_series == <<Read("equity_history")>>

train_drawdown_policy_main ==
  <<Call("init_db")>>
  \o Session(
       <<CallOn("_load_equity_series"), Maybe(<<Raise>>), Read("predictions"),
         Maybe(<<Raise>>), Write("size_policy"), Read("a table")>>)

-----------------------------------------------------------------------------
(* train_model_v2.py *)

train_model_v2_main ==
  <<Call("init_db"), Call("training_allowed"), IfBad(<<Return>>),
    Call("acquire_job_lock"), IfBad(<<Return>>),
    Finally(
      <<Call("train_regime_stats")>>,
      <<Try(<<Call("release_job_lock")>>)>>)>>

-----------------------------------------------------------------------------
(* train_rl_strategy_policy.py *)

train_rl_strategy_policy_main ==
  <<Call("init_rl_policy_db"), Call("upsert_policy")>>

-----------------------------------------------------------------------------
(* train_size_policy.py *)

_ensure_size_policy_schema ==
  <<Read("pragma"), Each(<<Maybe(<<Write("size_policy")>>)>>)>>

train_size_policy_main ==
  <<Call("init_db"), Connect, CallOn("_ensure_size_policy_schema"),
    Write("size_policy"),
    Finally(
      <<Read("predictions"), Maybe(<<Raise>>), Write("size_policy"),
        Read("a table"), Write("size_policy_points")>>,
      <<Close>>)>>

-----------------------------------------------------------------------------
(* train_temporal_predictor.py *)

_build_sequence_flat ==
  <<CallOn("train_temporal_load_recent_event_ids"), Maybe(<<Return>>),
    Each(<<Read("a table"), Maybe(<<Return>>)>>)>>

train_temporal_load_recent_event_ids == <<Read("events")>>

train_temporal_put_provider_health == <<Write("price_provider_health")>>

train_temporal_upsert_model == <<Write("temporal_models")>>

train_temporal_main ==
  <<Call("init_db"), Call("training_allowed"), IfBad(<<Return>>),
    Call("acquire_job_lock"), IfBad(<<Return>>),
    Finally(
      Session(<<Write("temporal_models")>>)
      \o Session(
           <<Read("labels"),
             Each(<<Maybe(<<Continue>>), CallOn("_build_sequence_flat")>>)>>)
      \o Session(
           <<Each(
               <<CallOn("train_temporal_upsert_model"),
                 Write("temporal_model_eval")>>),
             Commit>>),
      <<Try(<<Call("release_job_lock")>>)>>)>>

-----------------------------------------------------------------------------
(* The functions of this module by name.                                   *)
ModelTable ==
  [backtest_walk_forward_ensure_schema |->
     backtest_walk_forward_ensure_schema,
   backtest_walk_forward_main |-> backtest_walk_forward_main,
   compute_drift_latest_age_s |-> compute_drift_latest_age_s,
   compute_drift_main |-> compute_drift_main, _latest_price |-> _latest_price,
   _price_path |-> _price_path, _rolling_exec_z |-> _rolling_exec_z,
   compute_exec_labels_from_fills_main |->
     compute_exec_labels_from_fills_main,
   _load_joined |-> _load_joined, weather_effect_main |-> weather_effect_main,
   weather_effect_run_once |-> weather_effect_run_once,
   _read_recent_effect |-> _read_recent_effect,
   _write_policy |-> _write_policy, weather_guard_main |-> weather_guard_main,
   weather_guard_run_once |-> weather_guard_run_once,
   _ensure_exec_conf_calib |-> _ensure_exec_conf_calib,
   get_latest_exec_conf_calib |-> get_latest_exec_conf_calib,
   learn_exec_conf_calibration |-> learn_exec_conf_calibration,
   _nearest_price_at_or_after |-> _nearest_price_at_or_after,
   _rolling_z |-> _rolling_z,
   backfill_labels_price_from_prices_main |->
     backfill_labels_price_from_prices_main,
   core_jobs_eval_temporal_shadow_main |->
     core_jobs_eval_temporal_shadow_main,
   shadow_metrics_job_run |-> shadow_metrics_job_run, audit |-> audit,
   get_guard |-> get_guard, promotion_allowed |-> promotion_allowed,
   auto_rollback |-> auto_rollback, close_watch |-> close_watch,
   manual_rollback |-> manual_rollback,
   promote_with_snapshot_and_db_watch |-> promote_with_snapshot_and_db_watch,
   promote_with_snapshot_and_watch |-> promote_with_snapshot_and_watch,
   start_watch |-> start_watch,
   regime_compat_ensure_tables |-> regime_compat_ensure_tables,
   regime_compat_multiplier |-> regime_compat_multiplier,
   update_regime_compat |-> update_regime_compat,
   compute_regime_vector |-> compute_regime_vector,
   init_rl_policy_db |-> init_rl_policy_db, load_policy |-> load_policy,
   rl_strategy_policy_log_decision |-> rl_strategy_policy_log_decision,
   upsert_policy |-> upsert_policy,
   load_latest_size_policy |-> load_latest_size_policy,
   _load_strategy_metrics |-> _load_strategy_metrics,
   choose_strategy_name |-> choose_strategy_name,
   load_strategy_module |-> load_strategy_module,
   load_training_labels |-> load_training_labels,
   eval_temporal_shadow_main |-> eval_temporal_shadow_main,
   _alpha_decay_penalty |-> _alpha_decay_penalty,
   _load_bt_points |-> _load_bt_points, _run |-> _run,
   evaluate_strategies_main |-> evaluate_strategies_main,
   _read_curve |-> _read_curve,
   monitor_calibration_health_main |-> monitor_calibration_health_main,
   pipeline_runner_max_drift_ratio |-> pipeline_runner_max_drift_ratio,
   auto_challenger_loop |-> auto_challenger_loop,
   auto_pipeline_loop |-> auto_pipeline_loop,
   pipeline_runner_run_pipeline |-> pipeline_runner_run_pipeline,
   _count |-> _count, _data_gates_or_exit |-> _data_gates_or_exit,
   train_and_eval_latest_age_s |-> train_and_eval_latest_age_s,
   _net_eval_metrics |-> _net_eval_metrics,
   train_and_eval_main |-> train_and_eval_main,
   _get_tse_state |-> _get_tse_state, _realized_label |-> _realized_label,
   _resolve_event_id |-> _resolve_event_id,
   _targets_from_recent_alerts |-> _targets_from_recent_alerts,
   portfolio_backtest_main |-> portfolio_backtest_main,
   run_backtest |-> run_backtest, _eval_window |-> _eval_window,
   post_promotion_monitor_main |-> post_promotion_monitor_main,
   promote_temporal_put_provider_health |->
     promote_temporal_put_provider_health,
   promote_temporal_main |-> promote_temporal_main,
   recalibrate_confidence_main |-> recalibrate_confidence_main,
   strategy_governance_job_get_meta |-> strategy_governance_job_get_meta,
   _latest_metrics_per_strategy |-> _latest_metrics_per_strategy,
   _set_busy_timeout |-> _set_busy_timeout,
   strategy_governance_job_main |-> strategy_governance_job_main,
   _load_equity_series |-> _load_equity_series,
   train_drawdown_policy_main |-> train_drawdown_policy_main,
   train_model_v2_main |-> train_model_v2_main,
   train_rl_strategy_policy_main |-> train_rl_strategy_policy_main,
   _ensure_size_policy_schema |-> _ensure_size_policy_schema,
   train_size_policy_main |-> train_size_policy_main,
   _build_sequence_flat |-> _build_sequence_flat,
   train_temporal_load_recent_event_ids |->
     train_temporal_load_recent_event_ids,
   train_temporal_put_provider_health |-> train_temporal_put_provider_health,
   train_temporal_upsert_model |-> train_temporal_upsert_model,
   train_temporal_main |-> train_temporal_main]
=============================================================================
