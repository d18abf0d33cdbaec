--------------------------- MODULE FeatureEmission ---------------------------
(***************************************************************************)
(* crates/feature-engine/src/features/{mod,price,volatility,catalog}.rs: how *)
(* consolidated prices and trades, bound to a finalization decision, become  *)
(* a computed feature and then an observation the registry accepts.          *)
(* A lineage digest is the tuple of what is hashed.                          *)
(***************************************************************************)
EXTENDS FeatureRegistry, PriceMath

CONSTANTS
  Minute,               \* the sampling interval and the output resolution
  Rolling,              \* the rolling extents [rolling_5m, rolling_15m, rolling_1h]
  Day,                  \* ONE_DAY
  Lateness              \* FIVE_SECONDS

Asset(a) == [scope |-> "Asset", of |-> <<a>>]
AssetPair(a, b) == [scope |-> "AssetPair", of |-> <<a, b>>]

-----------------------------------------------------------------------------
(* The closed catalogue                                                        *)

PairKinds == {"RealizedCovariance", "RealizedCorrelation"}
VwapKinds == {"RollingVwapDistance", "AnchoredVwapDistance"}
PathKinds == {"LogReturn", "CumulativeReturn", "OpenCloseRange", "HighLowRange", "TrendSlope",
              "TrendAcceleration", "MaximumDrawdown", "MaximumRunUp", "ReturnAutocorrelation",
              "VarianceRatio", "RollingSkewness", "RollingExcessKurtosis", "ReturnReversal"}
MeasureKinds == {"RealizedVariance", "RealizedVolatility", "UpsideSemivariance",
                 "DownsideSemivariance", "BipowerVariation", "JumpVariation"}
RangeKinds == {"ParkinsonVolatility", "GarmanKlassVolatility"}
DerivedKinds == {"VolatilityOfVolatility", "VolatilityTermRatio", "VolatilityForecastResidual"}
Task4Kinds == PairKinds \cup VwapKinds \cup PathKinds \cup MeasureKinds \cup RangeKinds
  \cup DerivedKinds \cup {"ConsolidatedFairPriceDistance", "FinalizedIntervalGap",
                          "ExponentiallyWeightedVolatility", "SeasonalityAdjustedVolatility"}

KindVersion(kind) ==
  [major |-> IF kind = "RealizedVolatility" THEN 2 ELSE 1, plain |-> TRUE, length |-> 5]

FormulaHash(kind) == <<kind, KindVersion(kind)>>

SlidingWindow(id) ==
  [id |-> id, kind |-> "Sliding", extent |-> Rolling[id], advance |-> Minute, anchor |-> 0]

\* Task4FeatureKind::windows
KindWindows(kind) ==
  CASE kind = "ExponentiallyWeightedVolatility" ->
         <<[id |-> "ewma_5m", kind |-> "ExponentiallyWeighted", extent |-> Rolling["rolling_5m"],
            advance |-> 0, anchor |-> 0]>>
    [] kind = "AnchoredVwapDistance" ->
         <<[id |-> "utc_day", kind |-> "SessionAligned", extent |-> Day, advance |-> 0,
            anchor |-> Day]>>
    [] kind = "VolatilityTermRatio" ->
         <<SlidingWindow("rolling_15m"), SlidingWindow("rolling_1h")>>
    [] OTHER -> <<SlidingWindow("rolling_5m"), SlidingWindow("rolling_15m"),
                  SlidingWindow("rolling_1h")>>

\* Task4FeatureKind::definition and realized_volatility_v2_definition
KindDefinition(kind) ==
  [id |-> kind, version |-> KindVersion(kind), role |-> "ModelEligible", value_type |-> "Float64",
   scope |-> IF kind \in PairKinds THEN "AssetPair" ELSE "Asset", documented |-> TRUE,
   inputs |-> <<kind>>, windows |-> KindWindows(kind), output_resolution |-> Minute,
   allowed_lateness |-> Lateness, time_to_live |-> Day, normalization |-> KindVersion(kind),
   formula_hash |-> FormulaHash(kind),
   gate |-> [minimum_score |-> (MaxScore * 9) \div 10, minimum_coverage |-> MaxScore,
             states |-> {"Healthy", "Recovering"}]]

\* A registry of the catalogue.
CatalogueRegistry(kinds) ==
  [capacity |-> MaxDefinitions,
   definitions |-> [key \in {<<k, KindVersion(k)>> : k \in kinds} |-> KindDefinition(key[1])]]

\* output_window_id: the name of the window of this kind with this extent.
output_window_id(kind, window) ==
  LET extent == window.end - window.start
      named == {id \in DOMAIN Rolling : Rolling[id] = extent}
  IN CASE kind = "ExponentiallyWeightedVolatility" ->
            IF extent = Rolling["rolling_5m"] THEN Done("ewma_5m") ELSE Fail("InvalidParameter")
       [] kind = "AnchoredVwapDistance" ->
            IF extent = Day /\ window.start % Day = 0 THEN Done("utc_day")
            ELSE Fail("InvalidParameter")
       [] OTHER -> IF named # {} THEN Done(CHOOSE id \in named : TRUE)
                   ELSE Fail("InvalidParameter")

-----------------------------------------------------------------------------
(* Present and missing values                                                  *)

NoReason == "none"

missingness_reason(error) ==
  CASE error \in {"InsufficientHistory", "WindowNotFinal", "SequenceGap", "Stale",
                  "SourceDisconnected", "SourceNotSupported", "PrivacyOrLicenseRestriction",
                  "BelowLiquidityThreshold", "ModelNotApplicable"} -> error
    [] error = "AnalyticalUnavailable" -> "Unknown"
    [] OTHER -> NoReason

Present(value) == [present |-> TRUE, value |-> value]
Missing(reason) == [present |-> FALSE, reason |-> reason]

\* AnalyticalFeature::from_result
from_result(result) ==
  IF result.ok THEN Done(Present(result.value))
  ELSE IF missingness_reason(result.error) # NoReason
  THEN Done(Missing(missingness_reason(result.error))) ELSE result

\* map_measure_error
map_measure_error(result) ==
  IF result.ok THEN result
  ELSE Fail(CASE result.error = "InvalidOhlc" -> "InvalidInput"
              [] result.error = "ZeroVariance" -> "ZeroDenominator" [] OTHER -> result.error)

\* map_window_error, for the errors update_at and the EWMA constructor can return
map_window_error(error) ==
  CASE error \in {"InvalidEwmaCapacity", "EwmaCapacity"} -> "CapacityExceeded"
    [] error = "EwmaWatermarkUnavailable" -> "SourceDisconnected"
    [] error \in {"EwmaWatermarkRegression", "EwmaBeforeWatermark", "StaleFinalizationDecision"} ->
         "Stale"
    [] error = "ForeignWatermarkPolicy" -> "UntrustedInput"
    [] OTHER -> "InvalidInput"

\* merge_source_coverage: a source is observed when every side that expects it observed it.
merge_source_coverage(left, right) ==
  LET expected == left.expected \cup right.expected
      Unseen(c, s) == s \in c.expected /\ s \notin DOMAIN c.health
      observed == {s \in expected : ~Unseen(left, s) /\ ~Unseen(right, s)}
      Both(s) == s \in DOMAIN left.health /\ s \in DOMAIN right.health
  IN IF \E s \in observed : Both(s) /\ left.health[s] # right.health[s]
     THEN Fail("SourceHealthChanged")
     ELSE IF Cardinality(expected) > MaxSources THEN Fail("CapacityExceeded")
     ELSE Done([expected |-> expected,
                health |-> [s \in observed |-> IF s \in DOMAIN left.health THEN left.health[s]
                                               ELSE right.health[s]]])

-----------------------------------------------------------------------------
(* Price windows.  A price is [entity, price, event_time, as_known_at,         *)
(* lineage, coverage, quality]; coverage is NoCoverage when it did not come    *)
(* from a consolidated fair price.                                             *)

\* PriceObservation::from_consolidated and source_coverage_from_fair_price
from_consolidated(fair) ==
  Checked(<< <<fair.event_time <= 0 \/ fair.as_of < fair.event_time, "FutureKnowledge">>,
             <<fair.eligible = {}, "UntrustedInput">>,
             <<~(DOMAIN fair.included \subseteq fair.eligible), "InvalidInput">> >>,
          [entity |-> Asset(fair.asset), price |-> fair.price, event_time |-> fair.event_time,
           as_known_at |-> fair.as_of, lineage |-> fair.digest,
           coverage |-> [expected |-> fair.eligible, health |-> fair.included],
           quality |-> fair.quality])

\* aggregate_consolidated_evidence: one universe for the whole window, the worst quality.
aggregate_consolidated_evidence(observations) ==
  LET first == Head(observations)
      untrusted == {i \in DOMAIN observations : observations[i].coverage = NoCoverage}
      changed == {i \in DOMAIN observations : observations[i].coverage # first.coverage}
  IN IF untrusted # {} /\ \A j \in changed : Min(untrusted) <= j THEN Fail("UntrustedInput")
     ELSE IF changed # {} THEN Fail("EligibleUniverseChanged")
     ELSE Done([coverage |-> first.coverage,
                quality |-> Min({observations[i].quality : i \in DOMAIN observations})])

\* The checks PriceWindow::try_new and FinalizedTradeWindow make of their observations.
OutsideWindow(observations, window) ==
  \E i \in DOMAIN observations : ~(observations[i].event_time \in window.start..(window.end - 1))
NonMonotonic(observations) ==
  \E i \in 1..(Len(observations) - 1) :
    observations[i].event_time >= observations[i + 1].event_time
DuplicateLineage(observations) ==
  HasDuplicates([i \in DOMAIN observations |-> observations[i].lineage])

KnownAt(observations) == Max({observations[i].as_known_at : i \in DOMAIN observations})

\* PriceWindow::try_new with as_of the latest observation's, as try_from_finalization calls it.
PriceWindowError(window, entity, observations) ==
  FirstError(<<
    <<OutsideWindow(observations, window), "OutsideWindow">>,
    <<\E i \in DOMAIN observations : observations[i].entity # entity, "MixedEntity">>,
    <<NonMonotonic(observations), "NonMonotonicTime">>,
    <<DuplicateLineage(observations), "DuplicateLineage">> >>)

\* PriceWindow::try_from_finalization
PriceWindowFor(entity, tracker, d, observations) ==
  LET evidence == aggregate_consolidated_evidence(observations)
  IN IF Len(observations) > MaxPriceObservations THEN Fail("CapacityExceeded")
     ELSE IF observations = <<>> THEN Fail("InsufficientHistory")
     ELSE IF ~validates_decision(tracker, d, entity) THEN Fail("UntrustedInput")
     ELSE IF PriceWindowError(d.window, entity, observations) # "Ok"
     THEN Fail(PriceWindowError(d.window, entity, observations))
     ELSE IF ~evidence.ok THEN evidence
     ELSE IF d.required # evidence.value.coverage.expected THEN Fail("UntrustedInput")
     ELSE Done([window |-> d.window, entity |-> entity, as_of |-> KnownAt(observations),
                observations |-> observations, decision |-> d,
                coverage |-> evidence.value.coverage, quality |-> evidence.value.quality])

\* validates_consolidated_closing_observation
ClosingError(prices, closing) ==
  FirstError(<<
    <<closing.entity # prices.entity \/ closing.event_time # prices.window.end
      \/ closing.as_known_at < prices.as_of, "InvalidInput">>,
    <<closing.coverage = NoCoverage, "UntrustedInput">>,
    <<closing.coverage # prices.coverage, "EligibleUniverseChanged">> >>)

\* price_window_lineage_digest under finalized_lineage_digest and closing_lineage_digest
Inputs(observations) ==
  [i \in DOMAIN observations |->
    <<observations[i].event_time, observations[i].as_known_at, observations[i].lineage>>]
FinalizedLineage(prices) == <<"finalized", Inputs(prices.observations), prices.decision>>
ClosingLineage(prices, closing) ==
  <<"closed", Append(Inputs(prices.observations),
                     <<closing.event_time, closing.as_known_at, closing.lineage>>),
    prices.decision>>

QualityWithClosing(prices, closing) == Min({prices.quality, closing.quality})

-----------------------------------------------------------------------------
(***************************************************************************)
(* The recipes of crates/feature-engine/src/features/{price,volatility}.rs   *)
(* and the construction and emission of a computed feature in mod.rs.        *)
(***************************************************************************)

-----------------------------------------------------------------------------
(* ComputedAnalyticalFeature                                                   *)

NoSecondary == [inputs |-> <<>>]

Computed(kind, window, entity, as_of, lineage, analytical, state, watermark, known, coverage, quality) ==
  Then(output_window_id(kind, window),
       LAMBDA id : Done([id |-> kind, version |-> KindVersion(kind), window_id |-> id,
         window |-> window, entity |-> entity, as_of |-> as_of, lineage |-> lineage,
         formula_hash |-> FormulaHash(kind), analytical |-> analytical, finality |-> state,
         watermark |-> watermark, finality_as_known_at |-> known, coverage |-> coverage,
         quality |-> quality]))

\* Mutant: the time at which the second input became known is ignored.
WithClosingPrimaryTime(kind, prices, closing, tracker, analytical, secondary) ==
  LET d == prices.decision
  IN IF ~validates_decision(tracker, d, prices.entity) \/ d.state # "Final"
     THEN Fail("UntrustedInput")
     ELSE Computed(kind, prices.window, prices.entity,
                   Max({closing.as_known_at, prices.as_of, d.as_known_at}),
                   <<ClosingLineage(prices, closing), secondary.inputs>>,
                   analytical, d.state, d.watermark, d.as_known_at, prices.coverage,
                   QualityWithClosing(prices, closing))

\* from_price_window_analytical_with_secondary, with a closing price.
WithClosing(kind, prices, closing, tracker, analytical, secondary) ==
  LET d == prices.decision
      merged == IF "coverage" \in DOMAIN secondary
                THEN merge_source_coverage(prices.coverage, secondary.coverage)
                ELSE Done(prices.coverage)
      two == secondary # NoSecondary
  IN IF ~validates_decision(tracker, d, prices.entity) THEN Fail("UntrustedInput")
     ELSE IF analytical.present /\ d.state # "Final" THEN Fail("WindowNotFinal")
     ELSE IF ClosingError(prices, closing) # "Ok" THEN Fail(ClosingError(prices, closing))
     ELSE Then(merged, LAMBDA coverage :
            Computed(kind, prices.window, prices.entity,
                     Max({closing.as_known_at, prices.as_of, d.as_known_at}
                         \cup IF two THEN {secondary.as_known_at} ELSE {}),
                     <<ClosingLineage(prices, closing), secondary.inputs>>,
                     analytical, d.state, d.watermark, d.as_known_at, coverage,
                     Min({QualityWithClosing(prices, closing)}
                         \cup IF two THEN {secondary.quality} ELSE {})))

\* from_price_window_recipe_with_secondary without a closing price: the interval gap.
WithoutClosing(kind, prices, tracker, analytical, secondary) ==
  LET d == prices.decision
  IN IF ~validates_decision(tracker, d, prices.entity) THEN Fail("UntrustedInput")
     ELSE IF d.state # "Final" THEN Fail("WindowNotFinal")
     ELSE Then(merge_source_coverage(prices.coverage, secondary.coverage), LAMBDA coverage :
            Computed(kind, prices.window, prices.entity,
                     Max({d.watermark, prices.as_of, prices.window.end, d.as_known_at,
                          secondary.as_known_at}),
                     <<FinalizedLineage(prices), secondary.inputs>>,
                     analytical, d.state, d.watermark, d.as_known_at, coverage,
                     Min({prices.quality, secondary.quality})))

\* Mutant: the pair is identified in the caller's order.
PairedUnordered(kind, left, right, analytical) ==
  Then(merge_source_coverage(left.prices.coverage, right.prices.coverage), LAMBDA coverage :
    Computed(kind, left.prices.window,
      AssetPair(left.prices.entity.of[1], right.prices.entity.of[1]),
      Max({left.closing.as_known_at, right.closing.as_known_at, left.prices.as_of,
           right.prices.as_of, left.prices.decision.as_known_at,
           right.prices.decision.as_known_at}),
      <<ClosingLineage(left.prices, left.closing), ClosingLineage(right.prices, right.closing)>>,
      analytical, "Final",
      Min({left.prices.decision.watermark, right.prices.decision.watermark}),
      Max({left.prices.decision.as_known_at, right.prices.decision.as_known_at}), coverage,
      Min({left.prices.quality, right.prices.quality})))

\* from_paired_price_windows_recipe: a side is [prices, closing, tracker].
Paired(kind, left, right, analytical) ==
  LET ordered == left.prices.entity.of[1] < right.prices.entity.of[1]
      first == IF ordered THEN left ELSE right
      second == IF ordered THEN right ELSE left
      Untrusted(side) == \/ ~validates_decision(side.tracker, side.prices.decision,
                                                side.prices.entity)
                         \/ side.prices.decision.state # "Final"
      SideError(side) == IF Untrusted(side) THEN "UntrustedInput"
                         ELSE ClosingError(side.prices, side.closing)
  IN IF kind \notin PairKinds \/ left.prices.window # right.prices.window
     THEN Fail("InvalidParameter")
     ELSE IF left.prices.entity = right.prices.entity THEN Fail("MixedEntity")
     ELSE IF SideError(first) # "Ok" THEN Fail(SideError(first))
     ELSE IF SideError(second) # "Ok" THEN Fail(SideError(second))
     ELSE Then(merge_source_coverage(first.prices.coverage, second.prices.coverage),
            LAMBDA coverage :
              Computed(kind, first.prices.window,
                AssetPair(first.prices.entity.of[1], second.prices.entity.of[1]),
                Max({first.closing.as_known_at, second.closing.as_known_at, first.prices.as_of,
                     second.prices.as_of, first.prices.decision.as_known_at,
                     second.prices.decision.as_known_at}),
                <<ClosingLineage(first.prices, first.closing),
                  ClosingLineage(second.prices, second.closing)>>,
                analytical, "Final",
                Min({first.prices.decision.watermark, second.prices.decision.watermark}),
                Max({first.prices.decision.as_known_at, second.prices.decision.as_known_at}),
                coverage,
                Min({QualityWithClosing(first.prices, first.closing),
                     QualityWithClosing(second.prices, second.closing)})))

\* missing_task_four: every field comes from the tracker's current decision.
missing_task_four(kind, entity, tracker, d, error) ==
  LET coverage == coverage_for_decision(tracker, d)
      scope == IF kind \in PairKinds THEN "AssetPair" ELSE "Asset"
  IN IF missingness_reason(error) = NoReason THEN Fail(error)
     ELSE IF ~validates_decision(tracker, d, entity) THEN Fail("UntrustedInput")
     ELSE IF entity.scope # scope THEN Fail("MixedEntity")
     ELSE IF coverage = NoCoverage THEN Fail("UntrustedInput")
     ELSE Computed(kind, d.window, entity, d.as_known_at, <<<<"missing", <<>>, d>>, <<>>>>,
                   Missing(missingness_reason(error)), d.state, d.watermark, d.as_known_at,
                   coverage, 0)

\* from_derived_feature_recipe
Derived(kind, e, value) ==
  IF \/ e.inputs = <<>> \/ e.as_of < e.window.end \/ e.watermark < e.window.end
     \/ e.finality_as_known_at > e.as_of
  THEN Fail("UntrustedInput")
  ELSE Computed(kind, e.window, e.entity, e.as_of, <<<<"derived", e.inputs>>, <<>>>>,
                Present(value), "Final", e.watermark, e.finality_as_known_at, e.coverage, e.quality)

-----------------------------------------------------------------------------
(* Recipes over one price window                                               *)

\* validate_sampling: one price per minute of the window, and one at its end.
validate_sampling(prices, closing) ==
  LET extent == prices.window.end - prices.window.start
  IN FirstError(<<
       <<extent % Minute # 0, "InvalidParameter">>,
       <<Len(prices.observations) # extent \div Minute \/ closing.entity # prices.entity
         \/ closing.event_time # prices.window.end, "SequenceGap">>,
       <<\E i \in DOMAIN prices.observations :
           prices.observations[i].event_time # prices.window.start + (i - 1) * Minute,
         "SequenceGap">> >>)

CompletePrices(prices, closing) ==
  Append([i \in DOMAIN prices.observations |-> prices.observations[i].price], closing.price)

CompleteTimes(prices, closing) ==
  Append([i \in DOMAIN prices.observations |-> prices.observations[i].event_time],
         closing.event_time)

CompleteReturns(prices, closing) ==
  LET returns == consecutive_log_returns(CompletePrices(prices, closing))
  IN [i \in DOMAIN returns |-> Whole(returns[i])]

ReversalThreshold == <<1, 20>>

\* The result of compute_price_path_feature before it is bound to its evidence.
PathValue(kind, times, path, returns) ==
  CASE kind = "LogReturn" -> Done(Whole(log_return(Last(path), Head(path))))
    [] kind \in {"CumulativeReturn", "OpenCloseRange"} -> cumulative_return(path)
    [] kind = "HighLowRange" -> high_low_range(path)
    [] kind = "TrendSlope" -> time_weighted_trend_slope(times, path)
    [] kind = "TrendAcceleration" -> time_weighted_trend_acceleration(times, path)
    [] kind = "MaximumDrawdown" -> maximum_drawdown(path)
    [] kind = "MaximumRunUp" -> maximum_run_up(path)
    [] kind = "ReturnAutocorrelation" -> return_autocorrelation(returns, 1)
    [] kind = "VarianceRatio" -> variance_ratio(returns, 2)
    [] kind = "RollingSkewness" -> rolling_skewness(returns)
    [] kind = "RollingExcessKurtosis" -> rolling_excess_kurtosis(returns)
    [] kind = "ReturnReversal" -> return_reversal(returns, ReversalThreshold)
    [] OTHER -> Fail("InvalidParameter")
PathResult(kind, prices, closing) ==
  IF validate_sampling(prices, closing) # "Ok" THEN Fail(validate_sampling(prices, closing))
  ELSE IF ClosingError(prices, closing) # "Ok" THEN Fail(ClosingError(prices, closing))
  ELSE PathValue(kind, CompleteTimes(prices, closing), CompletePrices(prices, closing),
                 CompleteReturns(prices, closing))

\* RealizedMeasures::from_price_window: consecutive returns need two prices before the close.
\* Every measure is computed before one is chosen.
MeasureResult(kind, prices, closing) ==
  LET returns == CompleteReturns(prices, closing)
  IN IF validate_sampling(prices, closing) # "Ok" THEN Fail(validate_sampling(prices, closing))
     ELSE IF Len(prices.observations) < 2 THEN Fail("InsufficientHistory")
     ELSE map_measure_error(
            CASE kind \in {"RealizedVariance", "RealizedVolatility"} -> realized_variance(returns)
              [] kind = "UpsideSemivariance" -> semivariance(returns, 1)
              [] kind = "DownsideSemivariance" -> semivariance(returns, -1)
              [] kind = "BipowerVariation" -> bipower_variation(returns)
              [] kind = "JumpVariation" -> jump_variation(returns)
              [] OTHER -> Fail("InvalidParameter"))

\* The loop of compute_exponentially_weighted_volatility: squared returns at the times they end.
EwmaResult(prices, closing, tracker) ==
  LET returns == CompleteReturns(prices, closing)
      times == CompleteTimes(prices, closing)
      Step(acc, i) ==
        Then(acc, LAMBDA state :
          IF UpdateAtError(state, times[i + 1]) # "Ok"
          THEN Fail(map_window_error(UpdateAtError(state, times[i + 1])))
          ELSE Done(update_at(state, times[i + 1], FSquare(returns[i]))))
      fresh == Done(NewEwma(tracker, Len(returns)))
      final == FoldLeft(Step, fresh, [i \in DOMAIN returns |-> i])
  IN IF validate_sampling(prices, closing) # "Ok" THEN Fail(validate_sampling(prices, closing))
     ELSE IF Len(prices.observations) < 2 THEN Fail("InsufficientHistory")
     ELSE IF EwmaError(Rolling["rolling_5m"], Len(returns)) # "Ok"
     THEN Fail(map_window_error(EwmaError(Rolling["rolling_5m"], Len(returns))))
     ELSE Then(final, LAMBDA state : IF state.value = NoTerm THEN Fail("InsufficientHistory")
                                     ELSE Done(state.value))

\* FinalizedOhlcWindow::try_from_prices
OhlcWindow(prices, closing, tracker) ==
  LET path == CompletePrices(prices, closing)
      bar == [open |-> Head(path), close |-> closing.price,
              high |-> Max({path[i] : i \in DOMAIN path}), low |-> Min({path[i] : i \in DOMAIN path})]
  IN Checked(<< Failing(validate_sampling(prices, closing)),
                <<~validates_decision(tracker, prices.decision, prices.entity)
                  \/ prices.decision.state # "Final", "UntrustedInput">>,
                Failing(ClosingError(prices, closing)),
                <<OhlcError(bar) # "Ok", "InvalidInput">> >>, bar)

\* compute_price_path_feature, compute_realized_measure_feature, compute_realized_volatility_v2,
\* compute_exponentially_weighted_volatility and compute_range_volatility_feature
ComputeFromPrices(kind, prices, closing, tracker) ==
  LET ohlc == OhlcWindow(prices, closing, tracker)
      result == CASE kind \in PathKinds -> PathResult(kind, prices, closing)
                  [] kind \in MeasureKinds -> MeasureResult(kind, prices, closing)
                  [] kind = "ExponentiallyWeightedVolatility" -> EwmaResult(prices, closing, tracker)
                  [] kind = "ParkinsonVolatility" -> map_measure_error(parkinson_variance(<<ohlc.value>>))
                  [] kind = "GarmanKlassVolatility" -> map_measure_error(garman_klass_variance(<<ohlc.value>>))
                  [] OTHER -> Fail("InvalidParameter")
  IN IF kind \in RangeKinds /\ ~ohlc.ok THEN ohlc
     ELSE Then(from_result(result), LAMBDA analytical :
            WithClosing(kind, prices, closing, tracker, analytical, NoSecondary))

-----------------------------------------------------------------------------
(* Recipes over two inputs                                                     *)

\* FinalizedTradeWindow::try_from_finalization; a trade is [asset, price, quantity, event_time,
\* as_known_at, source, quality, lineage].
TradeWindowFor(asset, tracker, d, trades) ==
  LET coverage == coverage_for_decision(tracker, d)
      sources == {trades[i].source : i \in DOMAIN trades}
      seen == DOMAIN coverage.health \cap sources
  IN Checked(<<
       <<trades = <<>>, "InsufficientHistory">>,
       <<Len(trades) > MaxPriceObservations, "CapacityExceeded">>,
       <<~validates_decision(tracker, d, Asset(asset)) \/ d.state # "Final", "UntrustedInput">>,
       <<\E i \in DOMAIN trades : trades[i].asset # asset, "MixedEntity">>,
       <<OutsideWindow(trades, d.window), "OutsideWindow">>,
       <<NonMonotonic(trades), "NonMonotonicTime">>,
       <<DuplicateLineage(trades), "DuplicateLineage">>,
       <<coverage = NoCoverage \/ ~(sources \subseteq coverage.expected), "UntrustedInput">> >>,
       [window |-> d.window, asset |-> asset, trades |-> trades, as_known_at |-> KnownAt(trades),
        coverage |-> [expected |-> coverage.expected,
                      health |-> [s \in seen |-> coverage.health[s]]],
        quality |-> Min({trades[i].quality : i \in DOMAIN trades}),
        inputs |-> <<"trades", Inputs(trades), d>>])

\* TradeObservation::try_from_event
TradeError(event, instrument) ==
  FirstError(<<
    <<~event.verified, "UntrustedInput">>,
    <<event.instrument # instrument.id, "MixedEntity">>,
    <<event.source # instrument.venue, "UntrustedInput">>,
    <<event.payload # "Trade" \/ event.event_time = NoTime, "InvalidInput">>,
    <<event.event_time < instrument.listing
      \/ (instrument.delisting # NoTime /\ event.event_time >= instrument.delisting)
      \/ event.normalized_at < event.event_time, "FutureKnowledge">> >>)

SameWindow(trades, prices) ==
  trades.window = prices.window /\ prices.entity = Asset(trades.asset)

\* compute_vwap_distance_feature
ComputeVwapDistance(kind, trades, prices, closing, tracker) ==
  IF kind \notin VwapKinds \/ ~SameWindow(trades, prices) THEN Fail("MixedEntity")
  ELSE IF ClosingError(prices, closing) # "Ok" THEN Fail(ClosingError(prices, closing))
  ELSE Then(vwap_distance(closing.price, trades.trades), LAMBDA value :
         WithClosing(kind, prices, closing, tracker, Present(value), trades))

\* compute_consolidated_fair_price_distance
ComputeFairPriceDistance(trades, prices, closing, tracker) ==
  IF ~SameWindow(trades, prices) THEN Fail("MixedEntity")
  ELSE WithClosing("ConsolidatedFairPriceDistance", prices, closing, tracker,
                   Present(relative_distance(Last(trades.trades).price, closing.price)), trades)

\* compute_finalized_interval_gap_feature; previous is [prices, closing, tracker].
ComputeIntervalGap(previous, prices, tracker) ==
  LET p == previous.prices
      secondary == [as_known_at |-> Max({previous.closing.as_known_at, p.as_of}),
                    inputs |-> ClosingLineage(p, previous.closing), coverage |-> p.coverage,
                    quality |-> QualityWithClosing(p, previous.closing)]
  IN IF p.entity # prices.entity \/ p.window.end # prices.window.start
     THEN Fail("NonMonotonicTime")
     ELSE IF \/ ~validates_decision(previous.tracker, p.decision, p.entity)
             \/ p.decision.state # "Final"
     THEN Fail("UntrustedInput")
     ELSE IF ClosingError(p, previous.closing) # "Ok" THEN Fail(ClosingError(p, previous.closing))
     ELSE WithoutClosing("FinalizedIntervalGap", prices, tracker,
            Present(relative_distance(Head(prices.observations).price, previous.closing.price)),
            secondary)

\* compute_realized_pair_feature
ComputePair(kind, left, right) ==
  LET Sampling(side) == validate_sampling(side.prices, side.closing)
      Short(side) == Len(side.prices.observations) < 2
      l == CompleteReturns(left.prices, left.closing)
      r == CompleteReturns(right.prices, right.closing)
      result == IF Sampling(left) # "Ok" THEN Fail(Sampling(left))
                ELSE IF Sampling(right) # "Ok" THEN Fail(Sampling(right))
                ELSE IF left.prices.window # right.prices.window THEN Fail("LengthMismatch")
                ELSE IF Short(left) \/ Short(right) THEN Fail("InsufficientHistory")
                ELSE map_measure_error(CASE kind = "RealizedCovariance" -> realized_covariance(l, r)
                                         [] kind = "RealizedCorrelation" -> realized_correlation(l, r)
                                         [] OTHER -> Fail("InvalidParameter"))
  IN Then(from_result(result), LAMBDA analytical : Paired(kind, left, right, analytical))

\* SeasonalBaselineEvidence::try_new and compute_seasonality_adjusted_volatility
HourOfWeek(start) == (start \div Rolling["rolling_1h"] + 72) % 168

BaselineError(b) ==
  IF \/ b.hour >= 168 \/ b.inputs = <<>> \/ Len(b.inputs) > MaxPriceObservations
     \/ b.fit_end # b.fitted_through \/ ~SeasonalBaselineOk(b)
  THEN "InvalidInput" ELSE "Ok"

\* The square of the adjusted volatility: the variance over the factor squared.
ComputeSeasonal(prices, closing, tracker, b) ==
  IF \/ prices.entity # Asset(b.asset) \/ b.fitted_through > prices.window.start
     \/ b.as_known_at > prices.window.start
  THEN Fail("FutureKnowledge")
  ELSE IF HourOfWeek(prices.window.start) # b.hour THEN Fail("InvalidParameter")
  ELSE Then(MeasureResult("RealizedVolatility", prices, closing), LAMBDA volatility :
         Then(map_measure_error(
                seasonality_adjusted_volatility(volatility, [b EXCEPT !.factor = @ * @],
                                                prices.window.start)),
              LAMBDA value :
                WithClosing("SeasonalityAdjustedVolatility", prices, closing, tracker,
                            Present(value), [as_known_at |-> b.as_known_at, quality |-> b.quality,
                                             inputs |-> <<"baseline", b.inputs,
                                                          [as_known_at |-> b.as_known_at]>>])))

-----------------------------------------------------------------------------
(* Recipes over emitted realized-volatility observations.  Their values are    *)
(* left symbolic: the tuple of the inputs.                                     *)

\* realized_volatility_observation
RealizedVolatilityError(o) ==
  LET registry == CatalogueRegistry({"RealizedVolatility"})
  IN FirstError(<<
       <<ValidateError(registry, o) # "Ok", "UntrustedInput">>,
       <<o.finality # "Final" \/ o.watermark = NoTime
         \/ coverage_millionths(o.coverage) < MaxScore, "UntrustedInput">>,
       <<o.entity.scope # "Asset", "MixedEntity">>,
       <<~o.datum.present, "InsufficientHistory">> >>)

\* FinalizedVolatilitySeries::try_new
SeriesEvidence(window, observations) ==
  LET extent == window.end - window.start
      first == Head(observations)
      \* The loop over the observations stops at the first one it refuses.
      Fault(o) == IF RealizedVolatilityError(o) # "Ok" THEN RealizedVolatilityError(o)
                  ELSE IF o.entity # first.entity \/ o.coverage # first.coverage
                  THEN "EligibleUniverseChanged" ELSE "Ok"
      faults == FirstError([i \in DOMAIN observations |->
                  Failing(Fault(observations[i]))])
      All(F(_)) == {F(observations[i]) : i \in DOMAIN observations}
  IN Checked(<<
       <<Len(observations) < 2, "InsufficientHistory">>,
       <<Len(observations) > MaxPriceObservations, "CapacityExceeded">>,
       <<extent % Minute # 0 \/ extent \div Minute # Len(observations), "SequenceGap">>,
       <<\E i \in 1..(Len(observations) - 1) :
           \/ observations[i].end >= observations[i + 1].end
           \/ observations[i].watermark > observations[i + 1].watermark, "NonMonotonicTime">>,
       <<\E i \in DOMAIN observations : observations[i].end # window.start + i * Minute,
         "SequenceGap">>,
       Failing(faults) >>,
       [window |-> window, entity |-> first.entity,
        as_of |-> Max(All(LAMBDA o : o.as_known_at)),
        inputs |-> [i \in DOMAIN observations |-> observations[i].lineage],
        watermark |-> Last(observations).watermark,
        finality_as_known_at |-> Max(All(LAMBDA o : o.finality_as_known_at)),
        coverage |-> first.coverage, quality |-> Min(All(LAMBDA o : o.quality)),
        values |-> [i \in DOMAIN observations |-> observations[i].datum.value]])

\* compute_volatility_of_volatility
ComputeVolOfVol(series) == Derived("VolatilityOfVolatility", series, <<"stdev", series.values>>)

\* compute_volatility_term_ratio
TermPairs == {<<Rolling["rolling_5m"], Rolling["rolling_15m"]>>,
              <<Rolling["rolling_15m"], Rolling["rolling_1h"]>>}

ComputeTermRatio(short, long) ==
  LET checks == <<
        Failing(RealizedVolatilityError(short)),
        Failing(RealizedVolatilityError(long)),
        <<short.entity # long.entity, "MixedEntity">>,
        <<short.end # long.end, "NonMonotonicTime">>,
        <<<<short.end - short.start, long.end - long.start>> \notin TermPairs,
          "InvalidParameter">> >>
  IN IF FirstError(checks) # "Ok" THEN Fail(FirstError(checks))
     ELSE Then(merge_source_coverage(short.coverage, long.coverage), LAMBDA coverage :
            IF ~FPositive(long.datum.value) THEN Fail("InvalidParameter")
            ELSE Derived("VolatilityTermRatio",
              [window |-> [start |-> long.start, end |-> long.end], entity |-> short.entity,
               as_of |-> Max({short.as_known_at, long.as_known_at}),
               inputs |-> <<short.lineage, long.lineage>>,
               watermark |-> Min({short.watermark, long.watermark}),
               finality_as_known_at |-> Max({short.finality_as_known_at,
                                             long.finality_as_known_at}),
               coverage |-> coverage, quality |-> Min({short.quality, long.quality})],
              <<"ratio", short.datum.value, long.datum.value>>))

\* VolatilityForecastEvidence::try_new and compute_volatility_forecast_residual
ForecastError(f) ==
  FirstError(<< <<f.generated_at <= 0 \/ f.generated_at > f.as_known_at
                  \/ f.as_known_at > f.window.start, "FutureKnowledge">>,
                <<f.forecast < 0 \/ f.package = "", "InvalidInput">> >>)

ComputeForecastResidual(o, f) ==
  LET checks == <<
        Failing(RealizedVolatilityError(o)),
        <<o.entity # Asset(f.asset), "MixedEntity">>,
        <<o.start # f.window.start \/ o.end # f.window.end, "InvalidParameter">> >>
  IN IF FirstError(checks) # "Ok" THEN Fail(FirstError(checks))
     ELSE Derived("VolatilityForecastResidual",
            [window |-> f.window, entity |-> o.entity,
             as_of |-> Max({o.as_known_at, f.as_known_at}),
             inputs |-> <<o.lineage, <<f.package, f.generated_at, f.as_known_at>>>>,
             watermark |-> o.watermark, finality_as_known_at |-> o.finality_as_known_at,
             coverage |-> o.coverage, quality |-> Min({o.quality, f.quality})],
            <<"residual", o.datum.value, f.forecast>>)

-----------------------------------------------------------------------------
(* Emission                                                                    *)

\* registered_window_matches: the window the definition names holds its own last nanosecond.
registered_window_matches(definition, id, window) ==
  \E w \in WindowsNamed(definition, id) :
    \/ w.kind = "ExponentiallyWeighted"
    \/ /\ SpecError(w) = "Ok"
       /\ windows_for(w, window.end - 1).ok
       /\ \E i \in DOMAIN windows_for(w, window.end - 1).value :
            windows_for(w, window.end - 1).value[i] = window

\* The observation emit_float_feature builds; feature_lineage_hash covers all of it.
ObservationOf(definition, computed, computed_at, revision) ==
  [id |-> computed.id, version |-> computed.version, entity |-> computed.entity,
   window_id |-> computed.window_id, resolution |-> definition.output_resolution,
   datum |-> IF computed.analytical.present
             THEN [present |-> TRUE, type |-> "Float64", value |-> computed.analytical.value]
             ELSE [present |-> FALSE, reason |-> computed.analytical.reason],
   value_type |-> "Float64", start |-> computed.window.start, end |-> computed.window.end,
   as_known_at |-> computed.as_of, computed_at |-> computed_at, watermark |-> computed.watermark,
   finality_as_known_at |-> computed.finality_as_known_at,
   finality |-> IF computed.analytical.present THEN computed.finality ELSE "Invalid",
   revision |-> revision, coverage |-> computed.coverage, quality |-> computed.quality,
   normalization |-> definition.normalization, formula_hash |-> definition.formula_hash,
   lineage |-> computed.lineage]

\* emit_float_feature
emit_float_feature(registry, computed, computed_at, revision) ==
  IF ~Registered(registry, computed.id, computed.version) THEN Fail("UnknownDefinition")
  ELSE LET definition == registry.definitions[<<computed.id, computed.version>>]
           o == ObservationOf(definition, computed, computed_at, revision)
       IN Checked(<<
            <<definition.value_type # "Float64", "WrongValueType">>,
            <<definition.formula_hash # computed.formula_hash, "FormulaMismatch">>,
            <<~registered_window_matches(definition, computed.window_id, computed.window),
              "WindowMismatch">>,
            Failing(ObservationError(o)),
            Failing(ValidateError(registry, o)) >>, o)
=============================================================================
