----------------------------- MODULE IngestCode -----------------------------
(***************************************************************************)
(* The pollers and the jobs that compute features: prices, options, news,  *)
(* filings, earnings, weather and social posts, and the universe of        *)
(* symbols. A poller that catches what a provider raises goes on without   *)
(* its rows.                                                               *)
(***************************************************************************)
EXTENDS Statements

-----------------------------------------------------------------------------
(* blacklist_update_job.py *)

blacklist_update_job_main ==
  <<Call("init_blacklist")>>
  \o Session(
       <<Read("pnl_attribution"),
         Each(<<Maybe(<<Continue>>), Maybe(<<CallOn("upsert_blacklist")>>)>>),
         Commit>>)

-----------------------------------------------------------------------------
(* build_social_features.py *)

build_social_features_main ==
  <<Call("init_db"), Mismatch("acquire_job_lock"), IfBad(<<Return>>),
    Connect,
    Finally(
      <<Forever(
          <<Each(
              <<Maybe(<<Call("touch_job_lock"), Call("put_job_heartbeat")>>),
                Read("social_posts"), Each(<<Write("social_features")>>)>>),
            Commit>>)>>,
      <<Close, Call("release_job_lock")>>)>>

-----------------------------------------------------------------------------
(* compute_earnings_proximity.py *)

compute_earnings_proximity_main ==
  <<Call("init_db"), Connect, Read("earnings_calendar"),
    Each(
      <<Maybe(<<Continue>>), CallOn("factor_universe_put_factor_feature")>>),
    Commit>>

-----------------------------------------------------------------------------
(* compute_exec_z.py *)

compute_exec_z_main ==
  <<Call("init_db")>>
  \o Session(<<Read("labels_exec"), Write("labels_exec")>>)

-----------------------------------------------------------------------------
(* compute_factor_features.py *)

compute_factor_features_load_prices == <<Read("prices")>>

compute_factor_features_main ==
  <<Call("init_db"), Mismatch("JOB_NAME"), Call("acquire_job_lock"),
    IfBad(<<Return>>),
    Finally(
      <<Forever(
          <<Call("compute_factor_features_run_once"),
            Maybe(<<Call("touch_job_lock"), Call("put_job_heartbeat")>>)>>)>>,
      <<Call("release_job_lock")>>)>>

compute_factor_features_run_once ==
  <<Call("init_db")>>
  \o Session(
       <<CallOn("compute_factor_features_load_prices"),
         CallOn("factor_universe_put_factor_feature")>>)

-----------------------------------------------------------------------------
(* compute_factor_group_scores.py *)

_ensure_groups == <<Each(<<Write("factor_groups")>>)>>

_latest_shadow_metric == <<Read("shadow_metrics")>>

_write_scores_and_policy ==
  <<Write("factor_group_scores, active_feature_policy")>>

factor_group_scores_main ==
  <<Call("init_db"), Mismatch("acquire_job_lock"), IfBad(<<Raise>>),
    Finally(
      <<Forever(
          <<Maybe(<<Call("touch_job_lock"), Call("put_job_heartbeat")>>),
            Call("factor_group_scores_run_once")>>)>>,
      <<Call("release_job_lock")>>)>>

factor_group_scores_run_once ==
  <<Maybe(<<Return>>)>>
  \o Session(
       <<CallOn("_ensure_groups"), Maybe(<<Read("shadow_metrics")>>),
         Maybe(<<Read("shadow_metrics")>>),
         Each(
           <<Each(
               <<CallOn("_latest_shadow_metric"), Maybe(<<Continue>>),
                 Each(
                   <<Maybe(<<Continue>>), CallOn("_latest_shadow_metric"),
                     Maybe(<<Continue>>), CallOn("_write_scores_and_policy")>>)>>)>>),
         Commit>>)

-----------------------------------------------------------------------------
(* compute_gdelt_macro.py *)

_compute_bucket == <<Read("events")>>

compute_gdelt_macro_main ==
  <<Call("init_db"), Mismatch("acquire_job_lock"), IfBad(<<Raise>>),
    Finally(
      <<Forever(
          Session(
            <<Each(
                <<Maybe(<<Call("touch_job_lock"), Call("put_job_heartbeat")>>),
                  CallOn("_compute_bucket"), Write("gdelt_macro_features")>>)>>))>>,
      <<Try(<<Call("release_job_lock")>>)>>)>>

-----------------------------------------------------------------------------
(* compute_index_flow_imbalance.py *)

compute_index_flow_imbalance_main ==
  <<Call("init_db"), Connect, Read("index_constituent_flows"),
    Maybe(<<Return>>), CallOn("factor_universe_put_factor_feature"), Commit>>

-----------------------------------------------------------------------------
(* compute_options_skew.py *)

compute_options_skew_main ==
  <<Call("init_db"), Connect, Read("options_surface"), Maybe(<<Return>>),
    CallOn("factor_universe_put_factor_feature"), Commit>>

-----------------------------------------------------------------------------
(* compute_social_regime.py *)

compute_social_regime_main ==
  <<Call("init_db"), Mismatch("acquire_job_lock"), IfBad(<<Raise>>),
    Finally(
      <<Connect, Read("social_features"),
        Each(
          <<Maybe(<<Call("touch_job_lock"), Call("put_job_heartbeat")>>),
            Write("social_regimes")>>)>>,
      <<Close, Call("release_job_lock")>>)>>

-----------------------------------------------------------------------------
(* compute_weather_alerts_ingest.py *)

weather_alerts_ingest_ingest_once ==
  Session(
    <<Fetch,
      Each(<<Try(<<Maybe(<<Continue>>), Write("weather_alerts")>>)>>),
      Write("weather_provider_health")>>)

weather_alerts_ingest_main ==
  <<Call("init_db"), Mismatch("acquire_job_lock"), IfBad(<<Raise>>),
    Finally(
      <<Forever(
          <<Maybe(<<Call("touch_job_lock"), Call("put_job_heartbeat")>>),
            Call("weather_alerts_ingest_ingest_once")>>)>>,
      <<Call("release_job_lock")>>)>>

-----------------------------------------------------------------------------
(* compute_weather_ingest.py *)

compute_weather_ingest_ingest_once ==
  Session(
    <<Each(
        <<Try(
            <<Maybe(<<Continue>>),
              Each(<<Write("weather_forecast_region_daily")>>)>>)>>),
      Write("weather_provider_health")>>)

compute_weather_ingest_main ==
  <<Call("init_db"), Call("acquire_job_lock"), IfBad(<<Raise>>),
    Finally(
      <<Forever(
          <<Maybe(<<Call("touch_job_lock"), Call("put_job_heartbeat")>>),
            Call("compute_weather_ingest_ingest_once")>>)>>,
      <<Call("release_job_lock")>>)>>

-----------------------------------------------------------------------------
(* dev_core/dashboard_weather_widgets.py *)

get_weather_alert_summary == Session(<<Read("weather_alerts")>>)

get_weather_effect_summary == Session(<<Read("model_weather_effect")>>)

-----------------------------------------------------------------------------
(* dev_core/factor_ingestion.py *)

ensure_factor_registry == <<Write("factor_registry")>>

example_register_and_ingest_skeleton ==
  Session(
    <<CallOn("ensure_factor_registry"), CallOn("put_factor_observation"),
      Commit>>)

get_factor_value_asof == <<Read("factor_observations")>>

ingest_batch_observations ==
  Session(
    <<Maybe(<<CallOn("ensure_factor_registry")>>),
      Each(<<CallOn("put_factor_observation")>>), Commit>>)

materialize_simple_feature ==
  <<CallOn("get_factor_value_asof"),
    CallOn("factor_ingestion_put_factor_feature")>>

factor_ingestion_put_factor_feature == <<Write("factor_features")>>

put_factor_observation == <<Write("factor_observations")>>

-----------------------------------------------------------------------------
(* dev_core/factor_universe.py *)

_get_feature_asof == <<Read("factor_features")>>

get_factor_universe_vector ==
  SessionUnlessGiven(
    <<Each(<<CallOn("_get_feature_asof")>>), Maybe(<<Raise>>)>>)

factor_universe_put_factor_feature ==
  SessionUnlessGiven(<<Write("factor_features"), Maybe(<<Commit>>)>>)

-----------------------------------------------------------------------------
(* dev_core/feature_expansion.py *)

build_feature_vector ==
  <<Maybe(<<Try(<<Call("compute_tech_features")>>)>>),
    Maybe(<<Try(<<Call("get_market_stress_snapshot")>>)>>),
    Maybe(<<Try(<<Call("get_factor_universe_vector")>>)>>),
    Maybe(<<Try(<<Call("get_social_feature_vector")>>)>>),
    Maybe(<<Try(<<Call("get_weather_feature_snapshot")>>)>>),
    Maybe(<<Try(<<Call("get_social_regime_vector")>>)>>)>>

-----------------------------------------------------------------------------
(* dev_core/gdelt_macro.py *)

get_gdelt_macro_snapshot ==
  Session(
    <<Try(
        <<Read("gdelt_macro_features"), Maybe(<<Return>>),
          Read("gdelt_macro_features")>>)>>)

-----------------------------------------------------------------------------
(* dev_core/live_prices/provider.py *)

_record_provider_failure == Session(<<Write("risk_state")>>)

_record_provider_success == Session(<<Write("risk_state")>>)

get_price_provider == <<Call("get_price_provider_by_name")>>

get_price_provider_by_name ==
  <<Maybe(
      <<Catch(
          <<Mismatch("dev_core.live_prices.polygon_ws_live"),
            Call("_record_provider_success"), Return>>,
          <<Call("_record_provider_failure")>>)>>),
    Maybe(
      <<Catch(
          <<Call("_record_provider_success"), Return>>,
          <<Call("_record_provider_failure")>>)>>),
    Maybe(
      <<Catch(
          <<Mismatch("dev_core.live_prices.ccxt_live.CCXTPriceProvider"),
            Call("_record_provider_success"), Return>>,
          <<Call("_record_provider_failure")>>)>>),
    Maybe(
      <<Catch(
          <<Call("_record_provider_success"), Return>>,
          <<Call("_record_provider_failure")>>)>>),
    Catch(
      <<Mismatch("dev_core.live_prices.polygon_ws_live"),
        Call("_record_provider_success"), Return>>,
      <<Call("_record_provider_failure")>>),
    Catch(
      <<Call("_record_provider_success"), Return>>,
      <<Call("_record_provider_failure")>>),
    Catch(
      <<Call("_record_provider_success"), Return>>,
      <<Call("_record_provider_failure")>>),
    Catch(
      <<Mismatch("dev_core.live_prices.ccxt_live.CCXTPriceProvider"),
        Call("_record_provider_success"), Return>>,
      <<Call("_record_provider_failure")>>),
    Raise>>

-----------------------------------------------------------------------------
(* dev_core/news_domain.py *)

domain_conf_multiplier ==
  <<Maybe(<<Return>>)>> \o Session(<<Try(<<Read("domain_perf")>>)>>)

is_domain_blocked ==
  <<Maybe(<<Return>>)>> \o Session(<<Try(<<Read("domain_blacklist")>>)>>)

-----------------------------------------------------------------------------
(* dev_core/provider_router.py *)

compute_provider_health ==
  Session(
    <<Read("price_quotes_raw"), Each(<<Write("provider_health")>>), Commit>>)

detect_cross_provider_anomalies ==
  Session(
    <<Read("price_quotes_raw"),
      Each(<<Maybe(<<Continue>>), Maybe(<<Write("price_anomalies")>>)>>),
      Commit>>)

route_best_price == SessionRo(<<Read("price_quotes_raw")>>)

-----------------------------------------------------------------------------
(* dev_core/social_context.py *)

get_social_feature_vector ==
  <<Maybe(<<Return>>)>> \o Session(<<Try(<<Read("social_features")>>)>>)

-----------------------------------------------------------------------------
(* dev_core/social_regime.py *)

get_social_regime_vector ==
  <<Maybe(<<Return>>)>> \o Session(<<Try(<<Read("social_regimes")>>)>>)

-----------------------------------------------------------------------------
(* dev_core/social_risk.py *)

social_gate_for_symbol ==
  <<Maybe(<<Return>>), Try(<<Read("social_features")>>)>>

-----------------------------------------------------------------------------
(* dev_core/symbol_blacklist.py *)

get_blacklisted_symbols ==
  <<Call("init_blacklist"), Read("symbol_blacklist")>>

init_blacklist == Session(<<Write("symbol_blacklist")>>)

is_blacklisted == <<Call("init_blacklist"), Read("symbol_blacklist")>>

upsert_blacklist == <<Call("init_blacklist"), Write("symbol_blacklist")>>

-----------------------------------------------------------------------------
(* dev_core/tech_indicators.py *)

tech_indicators_load_prices == SessionUnlessGiven(<<Read("prices")>>)

compute_tech_features ==
  <<Maybe(<<Return>>)>>
  \o Session(
       <<CallOn("tech_indicators_load_prices"),
         Try(<<CallOn("tech_indicators_load_prices")>>)>>)

-----------------------------------------------------------------------------
(* dev_core/universe.py *)

get_active_symbols ==
  <<CallOn("get_symbols_by_status"), Maybe(<<Return>>),
    CallOn("get_symbols_by_status")>>

get_symbols_by_status == <<Maybe(<<Return>>), Read("symbols")>>

get_universe_snapshot == <<Read("symbols")>>

upsert_symbol ==
  <<Maybe(<<Return>>), Try(<<Read("symbols")>>),
    Maybe(<<Write("symbols"), Return>>), Write("symbols")>>

-----------------------------------------------------------------------------
(* dev_core/universe_discovery.py *)

_corr == <<Try(<<Read("price_bars")>>)>>

universe_discovery_ensure_schema == <<Write("universe_audit")>>

_latest_quote == <<Try(<<Read("price_quotes")>>)>>

_returns_std_from_bars == <<Try(<<Read("price_bars")>>)>>

discover_universe_once ==
  SessionUnlessGiven(
    <<Call("init_db"), CallOn("universe_discovery_ensure_schema"),
      Read("symbols"),
      Each(
        <<CallOn("_latest_quote"), Maybe(<<Continue>>),
          CallOn("_returns_std_from_bars")>>),
      Each(<<Each(<<Maybe(<<Break>>), CallOn("_corr")>>)>>),
      Maybe(<<Write("symbols")>>), Maybe(<<Write("symbols")>>),
      Each(<<Write("universe_audit")>>)>>)

-----------------------------------------------------------------------------
(* dev_core/weather_features.py *)

_active_alerts_score == <<Maybe(<<Return>>), Read("weather_alerts")>>

_fetch_days == <<Read("weather_forecast_region_daily")>>

_latest_run_asof == <<Read("weather_forecast_region_daily")>>

get_weather_feature_snapshot ==
  <<Maybe(<<Return>>)>>
  \o Session(
       <<Each(
           <<CallOn("_latest_run_asof"), Maybe(<<Continue>>),
             CallOn("_fetch_days")>>),
         CallOn("_active_alerts_score")>>)

-----------------------------------------------------------------------------
(* domain_blacklist_train.py *)

domain_blacklist_train_main ==
  <<Call("init_db"), Call("acquire_job_lock"), IfBad(<<Raise>>),
    Try(<<Call("release_job_lock")>>)>>

-----------------------------------------------------------------------------
(* earnings_poll.py *)

earnings_poll_main ==
  <<Call("init_db"), Call("acquire_job_lock"), IfBad(<<Raise>>), Connect,
    Finally(
      <<Each(<<Try(<<Maybe(<<Continue>>), Write("earnings_calendar")>>)>>),
        Commit>>,
      <<Close, Call("release_job_lock")>>)>>

-----------------------------------------------------------------------------
(* gdelt_poll.py *)

gdelt_poll_main ==
  <<Call("init_db"), Call("acquire_job_lock"), IfBad(<<Raise>>),
    Finally(
      Session(<<Try(<<CallOn("get_active_symbols")>>)>>)
      \o <<Maybe(<<Call("touch_job_lock"), Call("put_job_heartbeat")>>),
           Each(<<Call("put_event")>>)>>,
      <<Try(<<Call("release_job_lock")>>)>>)>>

-----------------------------------------------------------------------------
(* ingest_now.py *)

(* Mutant: the lock is released after the work, not in the finally.        *)
ingest_now_main_plain ==
  <<Call("init_db"), Call("acquire_job_lock"), IfBad(<<Raise>>),
    Maybe(<<Call("touch_job_lock"), Call("put_job_heartbeat")>>),
    Try(Session(<<CallOn("get_active_symbols")>>)),
    Each(<<Call("put_event")>>), Try(<<Call("release_job_lock")>>)>>

ingest_now_main ==
  <<Call("init_db"), Call("acquire_job_lock"), IfBad(<<Raise>>),
    Finally(
      <<Maybe(<<Call("touch_job_lock"), Call("put_job_heartbeat")>>),
        Try(Session(<<CallOn("get_active_symbols")>>)),
        Each(<<Call("put_event")>>)>>,
      <<Try(<<Call("release_job_lock")>>)>>)>>

-----------------------------------------------------------------------------
(* ingest_options.py *)

_get_underlyings == <<Read("symbols")>>

_put_options_rows == <<Write("options_chain")>>

ingest_options_main ==
  <<Call("init_db"), Call("acquire_job_lock"), IfBad(<<Raise>>),
    Finally(
      <<Maybe(<<Call("touch_job_lock"), Call("put_job_heartbeat")>>)>>
      \o Session(<<CallOn("_get_underlyings")>>)
      \o Session(<<Each(<<Maybe(<<CallOn("_put_options_rows")>>)>>), Commit>>),
      <<Try(<<Call("release_job_lock")>>)>>)>>

-----------------------------------------------------------------------------
(* options_poll.py *)

options_poll_main ==
  <<Call("init_db"), Call("acquire_job_lock"), IfBad(<<Raise>>)>>
  \o Session(<<CallOn("get_active_symbols")>>)
  \o <<Connect,
       Finally(
         <<Each(
             <<Maybe(<<Maybe(<<Write("options_chain_v2")>>), Continue>>),
               Fetch, Maybe(<<Continue>>), Write("options_chain")>>),
           Commit>>,
         <<Close, Call("release_job_lock")>>)>>

-----------------------------------------------------------------------------
(* poll_prices.py *)

_compute_provider_weights ==
  <<Maybe(<<Return>>),
    Try(<<Read("price_provider_health, ingest_slippage")>>)>>

_load_symbol_providers == SessionUnlessGiven(<<Read("symbols")>>)

_mark_stale ==
  SessionUnlessGiven(
    <<Read("symbols"), Each(<<Maybe(<<Call("emit_alert")>>)>>),
      Write("symbols")>>)

_put_bar == Session(<<Write("price_bars")>>)

_put_ingest_slippage_batch == <<Write("ingest_slippage")>>

_put_prices_batch == <<Write("prices, symbols")>>

poll_prices_put_provider_health == <<Write("price_provider_health")>>

_put_quotes_batch == <<Write("price_quotes")>>

_put_quotes_raw_batch == <<Write("price_quotes_raw")>>

poll_prices_main ==
  <<Call("init_db"), Call("acquire_job_lock"), IfBad(<<Raise>>),
    Each(<<Try(<<Call("get_price_provider_by_name")>>)>>),
    Maybe(<<Call("get_price_provider_by_name")>>),
    Call("get_price_provider"),
    Finally(
      <<Forever(
          <<Maybe(<<Call("touch_job_lock"), Call("put_job_heartbeat")>>),
            Call("_load_symbol_providers"),
            Each(
              <<Try(
                  Session(
                    <<CallOn("poll_prices_put_provider_health"), Commit>>))>>),
            Each(
              <<Try(
                  Session(
                    <<CallOn("poll_prices_put_provider_health"), Commit>>))>>),
            Maybe(
              Session(
                <<CallOn("_compute_provider_weights"),
                  Maybe(<<CallOn("_put_quotes_raw_batch")>>),
                  Maybe(<<CallOn("_put_ingest_slippage_batch")>>), Commit>>)),
            Maybe(
              Session(
                <<CallOn("_put_prices_batch"),
                  Maybe(<<CallOn("_put_quotes_batch")>>), Commit>>)),
            Call("_mark_stale")>>)>>,
      <<Call("release_job_lock")>>)>>

-----------------------------------------------------------------------------
(* poll_social_reddit.py *)

poll_social_reddit_main ==
  <<Maybe(<<Return>>), Call("init_db"), Mismatch("acquire_job_lock"),
    IfBad(<<Return>>), Connect,
    Finally(
      <<Forever(
          <<Maybe(<<Call("touch_job_lock"), Call("put_job_heartbeat")>>),
            Each(
              <<Try(
                  <<Each(
                      <<Maybe(<<Continue>>), Each(<<Write("social_posts")>>)>>)>>)>>),
            Commit>>)>>,
      <<Close, Call("release_job_lock")>>)>>

-----------------------------------------------------------------------------
(* poll_social_stocktwits.py *)

_insert_message == <<Maybe(<<Return>>), Write("social_posts")>>

_poll_once == <<Each(<<Each(<<Try(<<CallOn("_insert_message")>>)>>)>>)>>

poll_social_stocktwits_main ==
  <<Call("init_db"), Mismatch("acquire_job_lock"), IfBad(<<Return>>),
    Connect,
    Finally(
      <<Forever(
          <<Maybe(
              <<Try(<<Call("touch_job_lock"), Call("put_job_heartbeat")>>)>>),
            Try(<<CallOn("_poll_once"), Commit>>)>>)>>,
      <<Close, Try(<<Call("release_job_lock")>>)>>)>>

-----------------------------------------------------------------------------
(* poll_weather_alerts.py *)

poll_weather_alerts_run_once ==
  <<Maybe(<<Return>>), Call("put_job_heartbeat")>>
  \o Session(
       <<Each(
           <<Try(<<Call("touch_job_lock"), Call("put_job_heartbeat")>>),
             Try(
               <<Maybe(<<Raise>>), Fetch,
                 Each(<<Maybe(<<Continue>>), CallOn("_upsert_alert")>>),
                 Commit>>)>>)>>)

_upsert_alert == <<Write("weather_alerts")>>

poll_weather_alerts_main ==
  <<Call("init_db"), Mismatch("acquire_job_lock"), IfBad(<<Return>>),
    Finally(
      <<Forever(
          <<Maybe(<<Call("touch_job_lock"), Call("put_job_heartbeat")>>),
            Call("poll_weather_alerts_run_once")>>)>>,
      <<Call("release_job_lock")>>)>>

-----------------------------------------------------------------------------
(* poll_weather_forecasts.py *)

poll_weather_forecasts_run_once ==
  <<Maybe(<<Return>>), Call("put_job_heartbeat")>>
  \o Session(
       <<Each(
           <<Try(<<Call("touch_job_lock"), Call("put_job_heartbeat")>>),
             Try(
               <<Maybe(<<Break>>), Fetch,
                 Each(<<Maybe(<<Continue>>), CallOn("_upsert_region_day")>>),
                 Commit>>)>>)>>)

_upsert_region_day == <<Write("weather_forecast_region_daily")>>

poll_weather_forecasts_main ==
  <<Call("init_db"), Mismatch("acquire_job_lock"), IfBad(<<Return>>),
    Finally(
      <<Forever(
          <<Maybe(<<Call("touch_job_lock"), Call("put_job_heartbeat")>>),
            Call("poll_weather_forecasts_run_once")>>)>>,
      <<Call("release_job_lock")>>)>>

-----------------------------------------------------------------------------
(* sec_poll.py *)

sec_poll_main ==
  <<Call("init_db"), Call("acquire_job_lock"), IfBad(<<Raise>>)>>
  \o Session(<<CallOn("get_active_symbols")>>)
  \o <<Connect,
       Finally(
         <<Each(
             <<Catch(<<Fetch>>, <<Continue>>), Maybe(<<Continue>>),
               Write("sec_filings")>>),
           Commit>>,
         <<Close, Call("release_job_lock")>>)>>

-----------------------------------------------------------------------------
(* stream_prices_ibkr.py *)

flush_to_db ==
  <<Maybe(<<Return>>)>>
  \o Session(
       <<Catch(<<Write("price_quotes_raw, price_quotes, ..")>>, <<Commit>>)>>)

load_symbols == SessionRo(<<Read("symbols")>>)

stream_prices_ibkr_main ==
  <<Call("init_db"), Call("acquire_job_lock"), IfBad(<<Raise>>),
    Call("load_symbols"),
    Finally(
      <<Forever(
          <<Call("flush_to_db"),
            Maybe(<<Call("touch_job_lock"), Call("put_job_heartbeat")>>)>>)>>,
      <<Call("release_job_lock")>>)>>

-----------------------------------------------------------------------------
(* universe_discovery_job.py *)

universe_discovery_job_main ==
  <<Connect,
    Finally(
      <<Try(
          <<Call("init_db"), Mismatch("acquire_job_lock"),
            IfBad(<<Return>>), CallOn("discover_universe_once")>>)>>,
      <<Try(<<Call("release_job_lock")>>), Close>>)>>

-----------------------------------------------------------------------------
(* update_universe.py *)

_seed_baseline == <<Each(<<Try(<<Write("symbols")>>)>>)>>

update_universe_main ==
  <<Call("init_db"), Call("acquire_job_lock"), IfBad(<<Raise>>), Connect,
    Finally(
      <<CallOn("_seed_baseline"), Read("events"), Maybe(<<Return>>),
        Try(<<Write("symbols")>>),
        Each(
          <<Maybe(
              <<Try(<<Call("touch_job_lock"), Call("put_job_heartbeat")>>)>>),
            Maybe(<<Continue>>), Each(<<CallOn("upsert_symbol")>>)>>),
        Maybe(
          <<Try(
              <<Read("social_features"),
                Each(<<Maybe(<<Continue>>), CallOn("upsert_symbol")>>)>>)>>),
        Read("symbols"),
        Each(
          <<Maybe(<<Write("symbols"), Continue>>),
            Try(<<Maybe(<<Write("symbols")>>)>>)>>),
        Read("symbols"), Maybe(<<Write("symbols")>>),
        Maybe(<<Write("symbols")>>), Commit>>,
      <<Close, Try(<<Call("release_job_lock")>>)>>)>>

-----------------------------------------------------------------------------
(* The functions of this module by name.                                   *)
IngestTable ==
  [blacklist_update_job_main |-> blacklist_update_job_main,
   build_social_features_main |-> build_social_features_main,
   compute_earnings_proximity_main |-> compute_earnings_proximity_main,
   compute_exec_z_main |-> compute_exec_z_main,
   compute_factor_features_load_prices |->
     compute_factor_features_load_prices,
   compute_factor_features_main |-> compute_factor_features_main,
   compute_factor_features_run_once |-> compute_factor_features_run_once,
   _ensure_groups |-> _ensure_groups,
   _latest_shadow_metric |-> _latest_shadow_metric,
   _write_scores_and_policy |-> _write_scores_and_policy,
   factor_group_scores_main |-> factor_group_scores_main,
   factor_group_scores_run_once |-> factor_group_scores_run_once,
   _compute_bucket |-> _compute_bucket,
   compute_gdelt_macro_main |-> compute_gdelt_macro_main,
   compute_index_flow_imbalance_main |-> compute_index_flow_imbalance_main,
   compute_options_skew_main |-> compute_options_skew_main,
   compute_social_regime_main |-> compute_social_regime_main,
   weather_alerts_ingest_ingest_once |-> weather_alerts_ingest_ingest_once,
   weather_alerts_ingest_main |-> weather_alerts_ingest_main,
   compute_weather_ingest_ingest_once |-> compute_weather_ingest_ingest_once,
   compute_weather_ingest_main |-> compute_weather_ingest_main,
   get_weather_alert_summary |-> get_weather_alert_summary,
   get_weather_effect_summary |-> get_weather_effect_summary,
   ensure_factor_registry |-> ensure_factor_registry,
   example_register_and_ingest_skeleton |->
     example_register_and_ingest_skeleton,
   get_factor_value_asof |-> get_factor_value_asof,
   ingest_batch_observations |-> ingest_batch_observations,
   materialize_simple_feature |-> materialize_simple_feature,
   factor_ingestion_put_factor_feature |->
     factor_ingestion_put_factor_feature,
   put_factor_observation |-> put_factor_observation,
   _get_feature_asof |-> _get_feature_asof,
   get_factor_universe_vector |-> get_factor_universe_vector,
   factor_universe_put_factor_feature |-> factor_universe_put_factor_feature,
   build_feature_vector |-> build_feature_vector,
   get_gdelt_macro_snapshot |-> get_gdelt_macro_snapshot,
   _record_provider_failure |-> _record_provider_failure,
   _record_provider_success |-> _record_provider_success,
   get_price_provider |-> get_price_provider,
   get_price_provider_by_name |-> get_price_provider_by_name,
   domain_conf_multiplier |-> domain_conf_multiplier,
   is_domain_blocked |-> is_domain_blocked,
   compute_provider_health |-> compute_provider_health,
   detect_cross_provider_anomalies |-> detect_cross_provider_anomalies,
   route_best_price |-> route_best_price,
   get_social_feature_vector |-> get_social_feature_vector,
   get_social_regime_vector |-> get_social_regime_vector,
   social_gate_for_symbol |-> social_gate_for_symbol,
   get_blacklisted_symbols |-> get_blacklisted_symbols,
   init_blacklist |-> init_blacklist, is_blacklisted |-> is_blacklisted,
   upsert_blacklist |-> upsert_blacklist,
   tech_indicators_load_prices |-> tech_indicators_load_prices,
   compute_tech_features |-> compute_tech_features,
   get_active_symbols |-> get_active_symbols,
   get_symbols_by_status |-> get_symbols_by_status,
   get_universe_snapshot |-> get_universe_snapshot,
   upsert_symbol |-> upsert_symbol, _corr |-> _corr,
   universe_discovery_ensure_schema |-> universe_discovery_ensure_schema,
   _latest_quote |-> _latest_quote,
   _returns_std_from_bars |-> _returns_std_from_bars,
   discover_universe_once |-> discover_universe_once,
   _active_alerts_score |-> _active_alerts_score, _fetch_days |-> _fetch_days,
   _latest_run_asof |-> _latest_run_asof,
   get_weather_feature_snapshot |-> get_weather_feature_snapshot,
   domain_blacklist_train_main |-> domain_blacklist_train_main,
   earnings_poll_main |-> earnings_poll_main,
   gdelt_poll_main |-> gdelt_poll_main, ingest_now_main |-> ingest_now_main,
   _get_underlyings |-> _get_underlyings,
   _put_options_rows |-> _put_options_rows,
   ingest_options_main |-> ingest_options_main,
   options_poll_main |-> options_poll_main,
   _compute_provider_weights |-> _compute_provider_weights,
   _load_symbol_providers |-> _load_symbol_providers,
   _mark_stale |-> _mark_stale, _put_bar |-> _put_bar,
   _put_ingest_slippage_batch |-> _put_ingest_slippage_batch,
   _put_prices_batch |-> _put_prices_batch,
   poll_prices_put_provider_health |-> poll_prices_put_provider_health,
   _put_quotes_batch |-> _put_quotes_batch,
   _put_quotes_raw_batch |-> _put_quotes_raw_batch,
   poll_prices_main |-> poll_prices_main,
   poll_social_reddit_main |-> poll_social_reddit_main,
   _insert_message |-> _insert_message, _poll_once |-> _poll_once,
   poll_social_stocktwits_main |-> poll_social_stocktwits_main,
   poll_weather_alerts_run_once |-> poll_weather_alerts_run_once,
   _upsert_alert |-> _upsert_alert,
   poll_weather_alerts_main |-> poll_weather_alerts_main,
   poll_weather_forecasts_run_once |-> poll_weather_forecasts_run_once,
   _upsert_region_day |-> _upsert_region_day,
   poll_weather_forecasts_main |-> poll_weather_forecasts_main,
   sec_poll_main |-> sec_poll_main, flush_to_db |-> flush_to_db,
   load_symbols |-> load_symbols,
   stream_prices_ibkr_main |-> stream_prices_ibkr_main,
   universe_discovery_job_main |-> universe_discovery_job_main,
   _seed_baseline |-> _seed_baseline,
   update_universe_main |-> update_universe_main]
=============================================================================
