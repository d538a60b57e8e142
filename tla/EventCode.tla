----------------------------- MODULE EventCode -----------------------------
(***************************************************************************)
(* The functions from an event to an alert: the event processors, the      *)
(* predictors, the rules, the decision log, drift and labels.              *)
(*                                                                         *)
(* Some of these scripts import modules that the repository does not have; *)
(* they are run here as they would be with those modules present.          *)
(***************************************************************************)
EXTENDS Statements

-----------------------------------------------------------------------------
(* alerts_service.py *)

alerts_service_get_alerts == Session(<<Read("alerts")>>)

-----------------------------------------------------------------------------
(* decision_snapshot.py *)

snapshot_decision ==
  Session(
    <<Call("init_db"), Write("trade_decision_snapshot"),
      Try(<<Each(<<CallOn("compute_regime_vector")>>)>>),
      Call("get_execution_mode"), Write("trade_decision_snapshot")>>)

-----------------------------------------------------------------------------
(* dev_core/alerts.py *)

_get_validation_row == Session(<<Try(<<Read("validation_scores")>>)>>)

_passes_cooldown == <<Maybe(<<Return>>)>> \o Session(<<Read("alerts")>>)

_passes_rate_limit ==
  <<Try(Session(<<Read("alerts"), Maybe(<<Return>>), Read("alerts")>>))>>

alerts_put_provider_health == <<Write("price_provider_health")>>

choose_rule == <<Call("get_current_regime")>>

emit_alert ==
  <<Call("init_alerts_db"), Try(<<Call("get_market_stress_snapshot")>>),
    Try(<<Connect, Read("symbols"), Close>>),
    Try(<<Call("adjust_expected_z_for_costs"), Maybe(<<Return>>)>>),
    Call("choose_rule"), Maybe(<<Return>>)>>
  \o Session(<<Write("alerts")>>)

init_alerts_db == Session(<<Write("alerts")>>)

-----------------------------------------------------------------------------
(* dev_core/confidence_adjust.py *)

_get_last_price_ts_ms == <<Read("prices")>>

_vol_proxy_multiplier == <<Try(<<Read("prices")>>)>>

get_adjusted_confidence ==
  <<CallOn("_get_last_price_ts_ms"), Maybe(<<Return>>),
    CallOn("_vol_proxy_multiplier")>>

-----------------------------------------------------------------------------
(* dev_core/decision_log.py *)

init_decision_log_db ==
  <<UnlessGiven(<<Connect>>), Write("decision_log, idx_decision_event, .."),
    Close>>

decision_log_log_decision ==
  <<Call("init_db"), Call("init_decision_log_db")>>
  \o Session(<<Try(<<Write("decision_log")>>)>>)

-----------------------------------------------------------------------------
(* dev_core/drift_utils.py *)

get_max_drift_ratio == SessionUnlessGiven(<<Try(<<Read("model_drift")>>)>>)

get_symbol_max_drift_ratio == <<Try(<<Read("model_drift")>>)>>

-----------------------------------------------------------------------------
(* dev_core/embed_regressor.py *)

_predict_raw ==
  <<Call("init_embed_models_db")>> \o Session(<<Read("embed_models2")>>)

embed_regressor_upsert_model == <<Write("embed_models2")>>

init_embed_models_db == Session(<<Write("embed_models2")>>)

predict_with_embed_model ==
  <<Call("_predict_raw"), Maybe(<<Call("_predict_raw")>>),
    Maybe(<<Return>>),
    Maybe(<<Call("_predict_raw"), Maybe(<<Call("_predict_raw")>>)>>)>>

train_embed_models ==
  <<Call("init_embed_models_db")>>
  \o Session(
       <<Read("labels"),
         Each(
           <<CallOn("train_embed_models__train_one"), Maybe(<<Continue>>),
             Each(<<Write("embed_model_eval")>>),
             CallOn("embed_regressor_upsert_model"),
             Try(<<Write("model_weather_effect")>>)>>),
         Each(
           <<CallOn("train_embed_models__train_one"), Maybe(<<Continue>>),
             CallOn("embed_regressor_upsert_model")>>),
         Commit>>)

train_embed_models__build_xy ==
  <<Maybe(<<Return>>), Each(<<Call("build_feature_vector")>>)>>

train_embed_models__train_one ==
  <<Call("train_embed_models__build_xy"), Maybe(<<Return>>),
    Try(
      <<Call("train_embed_models__build_xy"),
        Maybe(<<Write("model_weather_effect")>>)>>)>>

-----------------------------------------------------------------------------
(* dev_core/exec_stats.py *)

get_exec_stats_by_symbol == SessionUnlessGiven(<<Read("labels_exec")>>)

get_exec_winrate_global == SessionUnlessGiven(<<Read("labels_exec")>>)

get_false_positive_streak == <<Try(<<Read("execution_outcomes")>>)>>

-----------------------------------------------------------------------------
(* dev_core/labeling.py *)

label_event ==
  Session(
    <<Each(<<Each(<<Maybe(<<Continue>>), Write("labels")>>)>>), Commit>>)

-----------------------------------------------------------------------------
(* dev_core/learning.py *)

_ensure_model_stats == Session(<<Write("model_stats")>>)

get_global_prior ==
  <<Call("_ensure_model_stats")>> \o Session(<<Try(<<Read("model_stats")>>)>>)

learn_relevance_stats ==
  Session(<<Catch(<<Read("labels")>>, <<Return>>), Read("labels")>>)

-----------------------------------------------------------------------------
(* dev_core/model_v2.py *)

get_current_regime == Session(<<Try(<<Read("prices")>>)>>)

get_regime_prior ==
  <<Call("init_model_db"), Call("get_current_regime")>>
  \o Session(<<Try(<<Read("model_stats_regime")>>)>>)

get_spillover_betas ==
  <<Call("init_model_db")>> \o Session(<<Try(<<Read("spillover_beta")>>)>>)

init_model_db == Session(<<Write("model_stats_regime")>>)

train_regime_stats ==
  <<Call("init_model_db")>>
  \o Session(
       <<Catch(<<Read("labels")>>, <<Return>>),
         Each(<<Maybe(<<Continue>>), Call("get_current_regime")>>),
         Each(<<Maybe(<<Continue>>), Write("model_stats_regime")>>),
         Each(<<Maybe(<<Continue>>), Write("model_stats")>>), Commit>>)

-----------------------------------------------------------------------------
(* dev_core/predictor.py *)

_blend_with_priors == <<Call("get_regime_prior"), Call("get_global_prior")>>

_knn_raw ==
  <<Call("_load_labeled_event_vectors_cached"),
    Maybe(<<Maybe(<<Return>>), Call("load_labeled_event_vectors")>>)>>

_labels_stamp == <<Try(<<Read("labels")>>)>>

_load_embed_conf_calib == <<Maybe(<<Return>>), Read("embed_conf_calib")>>

_load_labeled_event_vectors_cached ==
  <<Maybe(<<Return>>)>>
  \o Session(<<CallOn("_labels_stamp"), Maybe(<<Return>>)>>)
  \o <<Call("load_labeled_event_vectors")>>

load_labeled_event_vectors == Session(<<Read("events, labels")>>)

predict_event ==
  <<Try(<<Call("get_current_regime")>>),
    Maybe(<<Try(<<Call("learn_relevance_stats")>>)>>),
    Try(<<Call("get_current_regime")>>),
    Each(
      <<Each(
          <<Maybe(<<Call("build_feature_vector")>>), Call("_knn_raw"),
            Maybe(<<Try(<<Call("predict_with_embed_model")>>)>>),
            Maybe(
              <<Maybe(<<Try(Session(<<CallOn("_load_embed_conf_calib")>>))>>),
                Call("_blend_with_priors"), Continue>>),
            Call("_blend_with_priors"),
            Finally(<<Try(<<Connect, Read("model_drift")>>)>>, <<Close>>)>>)>>),
    Each(<<Each(<<Call("get_spillover_betas")>>)>>)>>

-----------------------------------------------------------------------------
(* dev_core/risk.py *)

_logrets_from_prices == <<Read("prices")>>

corr_from_prices == <<CallOn("_logrets_from_prices")>>

realized_vol_from_prices == <<Read("prices")>>

-----------------------------------------------------------------------------
(* dev_core/rules_audit.py *)

log_rule == Session(<<Write("rules_audit")>>)

-----------------------------------------------------------------------------
(* dev_core/rules_engine.py *)

_detect_cost_spike == <<Read("price_quotes")>>

_detect_realized_exec_cost_spike == <<Read("labels_exec")>>

evaluate_rules ==
  <<Maybe(<<Return>>)>>
  \o Session(
       <<Try(
           <<CallOn("_detect_cost_spike"),
             Either(<<CallOn("activate")>>, <<Maybe(<<CallOn("clear")>>)>>)>>),
         Try(<<CallOn("get_current_drawdown")>>),
         Either(<<CallOn("activate")>>, <<Maybe(<<CallOn("clear")>>)>>),
         Try(<<CallOn("get_max_drift_ratio")>>),
         Either(<<CallOn("activate")>>, <<Maybe(<<CallOn("clear")>>)>>),
         CallOn("get_exec_winrate_global"),
         Either(<<CallOn("activate")>>, <<Maybe(<<CallOn("clear")>>)>>),
         CallOn("get_exec_stats_by_symbol"),
         Each(
           <<Try(<<CallOn("get_symbol_max_drift_ratio")>>),
             Either(<<CallOn("activate")>>, <<Maybe(<<CallOn("clear")>>)>>)>>)>>)

-----------------------------------------------------------------------------
(* dev_core/shadow.py *)

log_shadow_prediction ==
  Session(
    <<Try(<<Mismatch("get_current_regime")>>), CallOn("execution_allowed"),
      IfBad(<<Return>>), Write("shadow_predictions")>>)

shadow_predict == <<Maybe(<<Return>>), Call("log_shadow_prediction")>>

-----------------------------------------------------------------------------
(* dev_core/temporal_predictor.py *)

temporal_predictor_load_recent_event_ids == <<Read("events")>>

_predict_one ==
  <<Maybe(<<Return>>),
    Each(<<Read("temporal_models"), Maybe(<<Continue>>), Return>>)>>

build_sequence_vector ==
  <<CallOn("temporal_predictor_load_recent_event_ids"), Maybe(<<Return>>),
    Each(<<Read("a table"), Maybe(<<Return>>)>>)>>

init_temporal_shadow_db ==
  <<Maybe(<<Return>>),
    Try(<<Read("pragma"), Write("temporal_predictions")>>)>>

log_temporal_shadow_prediction ==
  <<Try(
      <<CallOn("init_temporal_shadow_db"), Maybe(<<Return>>),
        Write("temporal_predictions")>>)>>

predict_temporal_shadow ==
  <<Maybe(<<Return>>), CallOn("build_sequence_vector"), Maybe(<<Return>>),
    Each(<<Each(<<CallOn("_predict_one")>>)>>)>>

predict_temporal_shadow_for_event ==
  <<Try(<<CallOn("init_temporal_shadow_db")>>),
    CallOn("predict_temporal_shadow"), Maybe(<<Return>>),
    Each(<<CallOn("log_temporal_shadow_prediction")>>)>>

predict_temporal_shadow_open == Session(<<CallOn("predict_temporal_shadow")>>)

-----------------------------------------------------------------------------
(* dev_core/validation.py *)

compute_model_metrics ==
  Session(
    <<Catch(<<Read("labels")>>, <<Return>>), Read("predictions"),
      Maybe(<<Return>>), Each(<<Write("model_metrics")>>), Commit>>)

compute_validation_scores ==
  Session(
    <<Catch(<<Read("labels")>>, <<Return>>), Read("predictions"),
      Maybe(<<Return>>), Each(<<Write("validation_scores")>>), Commit>>)

get_model_metrics ==
  Session(<<Catch(<<Read("labels")>>, <<Return>>), Read("model_metrics")>>)

init_validation_db == Session(<<Write("predictions")>>)

store_prediction == Session(<<Write("predictions")>>)

-----------------------------------------------------------------------------
(* process_events.py *)

process_events_compute_novelty ==
  <<Maybe(<<Return>>), Try(<<Read("event_embeddings")>>)>>

process_events_detect_exec_cost_spike ==
  <<Try(<<Read("symbols")>>), Maybe(<<Return>>),
    Try(<<Read("price_quotes")>>)>>

process_events_earnings_context == <<Try(<<Read("earnings_calendar")>>)>>

process_events_exec_cost_context == <<Try(<<Read("price_quotes")>>)>>

process_events_options_anomaly == <<Try(<<Read("options_chain")>>)>>

process_events_options_context == <<Try(<<Read("options_chain")>>)>>

process_events_sec_filing_context == <<Try(<<Read("sec_filings")>>)>>

process_events_update_event_meta_json == <<Try(<<Write("events")>>)>>

process_events_main ==
  <<Call("acquire_job_lock"), IfBad(<<Raise>>),
    Try(<<Call("get_job_checkpoint")>>),
    Finally(
      <<Try(<<Call("evaluate_rules")>>), Call("execution_allowed"),
        IfBad(<<Return>>), On2(ConnectRo),
        Try(<<On2(CallOn("get_active_symbols"))>>),
        Try(
          <<On2(CallOn("process_events_detect_exec_cost_spike")),
            Maybe(<<Try(<<Call("emit_alert")>>), Return>>)>>),
        Try(<<On2(Read("symbol_universe"))>>), On2(ConnectRo),
        On2(Write("events")), Maybe(<<Return>>), Connect,
        Each(
          <<Try(<<Write("savepoint")>>),
            Maybe(
              <<Try(<<Call("touch_job_lock"), Call("put_job_heartbeat")>>)>>),
            Maybe(<<Try(<<CallOn("process_events_upsert_watch_symbols")>>)>>),
            Catch(<<Call("predict_event")>>, <<Call("predict_event")>>),
            Try(<<Call("put_job_checkpoint")>>), Try(<<Write("release")>>),
            Write("event_embeddings"),
            Try(<<CallOn("process_events_compute_novelty")>>),
            CallOn("process_events_update_event_meta_json"),
            Each(
              <<Maybe(<<Continue>>),
                Each(
                  <<CallOn("process_events_options_context"),
                    CallOn("process_events_options_anomaly"),
                    Call("get_current_regime"),
                    Maybe(<<Call("is_domain_blocked")>>),
                    Maybe(<<Continue>>),
                    CallOn("process_events_earnings_context"),
                    CallOn("process_events_sec_filing_context"),
                    Try(
                      <<CallOn("process_events_exec_cost_context"),
                        Maybe(<<Continue>>)>>),
                    Call("store_prediction"),
                    Try(<<CallOn("get_adjusted_confidence")>>),
                    Try(<<Maybe(<<Call("domain_conf_multiplier")>>)>>),
                    Call("decision_log_log_decision"),
                    Try(
                      <<CallOn("process_events_detect_exec_cost_spike"),
                        Maybe(<<Continue>>)>>),
                    Call("execution_allowed"), IfBad(<<Return>>),
                    Call("execution_allowed"), IfBad(<<Continue>>),
                    Try(<<Call("emit_alert")>>)>>)>>)>>),
        Commit>>,
      <<Try(<<Call("release_job_lock")>>)>>)>>

process_events_upsert_watch_symbols ==
  <<Each(<<Try(<<Write("symbol_universe")>>)>>)>>

-----------------------------------------------------------------------------
(* process_events_enriched.py *)

enriched_compute_novelty ==
  <<Maybe(<<Return>>), Try(<<Read("event_embeddings")>>)>>

enriched_detect_exec_cost_spike ==
  <<Try(<<Read("symbols")>>), Maybe(<<Return>>),
    Try(<<Read("price_quotes")>>)>>

enriched_earnings_context == <<Try(<<Read("earnings_calendar")>>)>>

enriched_exec_cost_context == <<Try(<<Read("price_quotes")>>)>>

enriched_options_anomaly == <<Try(<<Read("options_chain")>>)>>

enriched_options_context == <<Try(<<Read("options_chain")>>)>>

enriched_sec_filing_context == <<Try(<<Read("sec_filings")>>)>>

enriched_update_event_meta_json == <<Try(<<Write("events")>>)>>

enriched_main ==
  <<Call("acquire_job_lock"), IfBad(<<Raise>>),
    Finally(
      <<Try(<<Call("evaluate_rules")>>), Call("execution_allowed"),
        IfBad(<<Return>>)>>
      \o SessionRo2(
           <<Try(<<On2(CallOn("get_active_symbols"))>>),
             Try(
               <<On2(CallOn("enriched_detect_exec_cost_spike")),
                 Maybe(<<Try(<<Call("emit_alert")>>), Return>>)>>),
             Try(<<On2(Read("symbol_universe"))>>)>>)
      \o SessionRo2(<<On2(Read("events"))>>)
      \o <<Maybe(<<Return>>)>>
      \o Session(
           <<Each(
               <<Maybe(
                   <<Try(<<Call("touch_job_lock"), Call("put_job_heartbeat")>>)>>),
                 Maybe(<<Try(<<CallOn("enriched_upsert_watch_symbols")>>)>>),
                 Write("event_embeddings"),
                 Try(<<CallOn("enriched_compute_novelty")>>),
                 CallOn("enriched_update_event_meta_json"),
                 Each(<<Call("predict_event")>>),
                 Each(
                   <<Maybe(<<Continue>>), Call("get_current_regime"),
                     Maybe(<<Call("is_domain_blocked")>>), Maybe(<<Continue>>),
                     Each(
                       <<CallOn("enriched_options_context"),
                         CallOn("enriched_options_anomaly"),
                         CallOn("enriched_earnings_context"),
                         CallOn("enriched_sec_filing_context"),
                         Try(
                           <<CallOn("enriched_exec_cost_context"),
                             Maybe(<<Continue>>)>>),
                         Call("store_prediction"),
                         Try(<<CallOn("get_adjusted_confidence")>>),
                         Try(<<Maybe(<<Call("domain_conf_multiplier")>>)>>),
                         Call("decision_log_log_decision"),
                         Try(
                           <<CallOn("enriched_detect_exec_cost_spike"),
                             Maybe(<<Continue>>)>>),
                         Call("execution_allowed"), IfBad(<<Continue>>),
                         Call("execution_allowed"), IfBad(<<Continue>>),
                         Try(<<Call("emit_alert")>>)>>)>>)>>),
             Commit>>),
      <<Try(<<Call("release_job_lock")>>)>>)>>

enriched_upsert_watch_symbols ==
  <<Each(<<Try(<<Write("symbol_universe")>>)>>)>>

-----------------------------------------------------------------------------
(* process_events_live.py *)

process_events_live_main ==
  <<Call("acquire_job_lock"), IfBad(<<Raise>>),
    Finally(
      <<Try(<<Call("evaluate_rules")>>), Call("execution_allowed"),
        IfBad(<<Return>>)>>
      \o SessionRo2(<<Try(<<On2(CallOn("get_active_symbols"))>>)>>)
      \o SessionRo2(<<On2(Read("events"))>>)
      \o <<Maybe(<<Return>>)>>
      \o Session(
           <<Each(
               <<Maybe(
                   <<Try(<<Call("touch_job_lock"), Call("put_job_heartbeat")>>)>>),
                 Call("execution_allowed"), IfBad(<<Continue>>),
                 Maybe(<<Call("is_domain_blocked")>>), Maybe(<<Continue>>),
                 Each(<<Call("predict_event")>>), Write("event_embeddings"),
                 Each(
                   <<Call("get_current_regime"), Call("execution_allowed"),
                     IfBad(<<Continue>>),
                     Each(
                       <<Call("store_prediction"),
                         Try(<<CallOn("get_adjusted_confidence")>>),
                         Call("decision_log_log_decision"),
                         Try(<<Call("emit_alert")>>)>>)>>)>>),
             Commit>>),
      <<Try(<<Call("release_job_lock")>>)>>)>>

-----------------------------------------------------------------------------
(* process_events_shadow.py *)

process_events_shadow_main ==
  <<Call("acquire_job_lock"), IfBad(<<Raise>>),
    Finally(
      <<Try(<<Call("evaluate_rules")>>), Call("execution_allowed"),
        IfBad(<<Return>>)>>
      \o SessionRo2(<<Try(<<On2(CallOn("get_active_symbols"))>>)>>)
      \o SessionRo2(<<On2(Read("events"))>>)
      \o <<Maybe(<<Return>>)>>
      \o Session(
           <<Each(
               <<Maybe(
                   <<Try(<<Call("touch_job_lock"), Call("put_job_heartbeat")>>)>>)>>),
             Commit>>),
      <<Try(<<Call("release_job_lock")>>)>>)>>

-----------------------------------------------------------------------------
(* The functions of this module by name.                                   *)
EventTable ==
  [alerts_service_get_alerts |-> alerts_service_get_alerts,
   snapshot_decision |-> snapshot_decision,
   _get_validation_row |-> _get_validation_row,
   _passes_cooldown |-> _passes_cooldown,
   _passes_rate_limit |-> _passes_rate_limit,
   alerts_put_provider_health |-> alerts_put_provider_health,
   choose_rule |-> choose_rule, emit_alert |-> emit_alert,
   init_alerts_db |-> init_alerts_db,
   _get_last_price_ts_ms |-> _get_last_price_ts_ms,
   _vol_proxy_multiplier |-> _vol_proxy_multiplier,
   get_adjusted_confidence |-> get_adjusted_confidence,
   init_decision_log_db |-> init_decision_log_db,
   decision_log_log_decision |-> decision_log_log_decision,
   get_max_drift_ratio |-> get_max_drift_ratio,
   get_symbol_max_drift_ratio |-> get_symbol_max_drift_ratio,
   _predict_raw |-> _predict_raw,
   embed_regressor_upsert_model |-> embed_regressor_upsert_model,
   init_embed_models_db |-> init_embed_models_db,
   predict_with_embed_model |-> predict_with_embed_model,
   train_embed_models |-> train_embed_models,
   train_embed_models__build_xy |-> train_embed_models__build_xy,
   train_embed_models__train_one |-> train_embed_models__train_one,
   get_exec_stats_by_symbol |-> get_exec_stats_by_symbol,
   get_exec_winrate_global |-> get_exec_winrate_global,
   get_false_positive_streak |-> get_false_positive_streak,
   label_event |-> label_event, _ensure_model_stats |-> _ensure_model_stats,
   get_global_prior |-> get_global_prior,
   learn_relevance_stats |-> learn_relevance_stats,
   get_current_regime |-> get_current_regime,
   get_regime_prior |-> get_regime_prior,
   get_spillover_betas |-> get_spillover_betas,
   init_model_db |-> init_model_db, train_regime_stats |-> train_regime_stats,
   _blend_with_priors |-> _blend_with_priors, _knn_raw |-> _knn_raw,
   _labels_stamp |-> _labels_stamp,
   _load_embed_conf_calib |-> _load_embed_conf_calib,
   _load_labeled_event_vectors_cached |-> _load_labeled_event_vectors_cached,
   load_labeled_event_vectors |-> load_labeled_event_vectors,
   predict_event |-> predict_event,
   _logrets_from_prices |-> _logrets_from_prices,
   corr_from_prices |-> corr_from_prices,
   realized_vol_from_prices |-> realized_vol_from_prices,
   log_rule |-> log_rule, _detect_cost_spike |-> _detect_cost_spike,
   _detect_realized_exec_cost_spike |-> _detect_realized_exec_cost_spike,
   evaluate_rules |-> evaluate_rules,
   log_shadow_prediction |-> log_shadow_prediction,
   shadow_predict |-> shadow_predict,
   temporal_predictor_load_recent_event_ids |->
     temporal_predictor_load_recent_event_ids,
   _predict_one |-> _predict_one,
   build_sequence_vector |-> build_sequence_vector,
   init_temporal_shadow_db |-> init_temporal_shadow_db,
   log_temporal_shadow_prediction |-> log_temporal_shadow_prediction,
   predict_temporal_shadow |-> predict_temporal_shadow,
   predict_temporal_shadow_for_event |-> predict_temporal_shadow_for_event,
   predict_temporal_shadow_open |-> predict_temporal_shadow_open,
   compute_model_metrics |-> compute_model_metrics,
   compute_validation_scores |-> compute_validation_scores,
   get_model_metrics |-> get_model_metrics,
   init_validation_db |-> init_validation_db,
   store_prediction |-> store_prediction,
   process_events_compute_novelty |-> process_events_compute_novelty,
   process_events_detect_exec_cost_spike |->
     process_events_detect_exec_cost_spike,
   process_events_earnings_context |-> process_events_earnings_context,
   process_events_exec_cost_context |-> process_events_exec_cost_context,
   process_events_options_anomaly |-> process_events_options_anomaly,
   process_events_options_context |-> process_events_options_context,
   process_events_sec_filing_context |-> process_events_sec_filing_context,
   process_events_update_event_meta_json |->
     process_events_update_event_meta_json,
   process_events_main |-> process_events_main,
   process_events_upsert_watch_symbols |->
     process_events_upsert_watch_symbols,
   enriched_compute_novelty |-> enriched_compute_novelty,
   enriched_detect_exec_cost_spike |-> enriched_detect_exec_cost_spike,
   enriched_earnings_context |-> enriched_earnings_context,
   enriched_exec_cost_context |-> enriched_exec_cost_context,
   enriched_options_anomaly |-> enriched_options_anomaly,
   enriched_options_context |-> enriched_options_context,
   enriched_sec_filing_context |-> enriched_sec_filing_context,
   enriched_update_event_meta_json |-> enriched_update_event_meta_json,
   enriched_main |-> enriched_main,
   enriched_upsert_watch_symbols |-> enriched_upsert_watch_symbols,
   process_events_live_main |-> process_events_live_main,
   process_events_shadow_main |-> process_events_shadow_main]
=============================================================================
