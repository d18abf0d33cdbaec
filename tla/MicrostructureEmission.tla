------------------------ MODULE MicrostructureEmission ------------------------
(***************************************************************************)
(* crates/feature-engine/src/features/microstructure_{catalog,emission}.rs:  *)
(* the closed catalogue of microstructure recipes, and how one authenticated  *)
(* book or trade window becomes a set of registered observations.            *)
(* The unit of price is fine enough for a midpoint to be a whole number, as   *)
(* the decimal division by two is exact.                                     *)
(***************************************************************************)
EXTENDS FeatureEmission, OrderFlow

CONSTANTS
  OneSecond,            \* ONE_SECOND, the snapshot window and the output resolution
  OneMinute,            \* ONE_MINUTE, the flow window
  FifteenMinutes        \* FIFTEEN_MINUTES, the recovery window

BOOK_SHAPE_LEVEL_COUNT_V1 == 3

Instrument(i) == [scope |-> "Instrument", of |-> <<i>>]

-----------------------------------------------------------------------------
(* The catalogue: id -> [type, inputs, window]                                 *)

Recipes(ids, type, inputs, window) ==
  [id \in ids |-> [type |-> type, inputs |-> inputs, window |-> window]]

BidDepths == {"bid_depth_1bps", "bid_depth_2bps", "bid_depth_5bps", "bid_depth_10bps",
              "bid_depth_25bps", "bid_depth_50bps", "bid_depth_100bps"}
AskDepths == {"ask_depth_1bps", "ask_depth_2bps", "ask_depth_5bps", "ask_depth_10bps",
              "ask_depth_25bps", "ask_depth_50bps", "ask_depth_100bps"}
BookImbalances == {"book_imbalance_1bps", "book_imbalance_2bps", "book_imbalance_5bps",
                   "book_imbalance_10bps", "book_imbalance_25bps", "book_imbalance_50bps",
                   "book_imbalance_100bps"}

\* What the book alone determines.
BookRecipes ==
  Recipes({"absolute_spread"} \cup BidDepths \cup AskDepths, "FixedDecimal", "BOOK_INPUTS", "Snapshot")
  @@ Recipes({"relative_spread", "weighted_midpoint", "microprice", "bid_book_slope",
              "ask_book_slope", "bid_book_convexity", "ask_book_convexity",
              "bid_price_level_gap_density", "ask_price_level_gap_density", "local_book_entropy",
              "depth_concentration_by_level"} \cup BookImbalances,
             "Float64", "BOOK_INPUTS", "Snapshot")
  @@ Recipes({"book_quote_age_ms", "bid_active_price_levels", "ask_active_price_levels"},
             "Integer", "BOOK_INPUTS", "Snapshot")

\* What also needs a conversion, a policy, or the book's history.
BookPolicyRecipes ==
  Recipes({"bid_liquidity_wall_distance", "ask_liquidity_wall_distance"}, "Float64",
          "BOOK_POLICY_INPUTS", "Snapshot")
  @@ Recipes({"expected_buy_sweep_cost_usd_10000", "expected_sell_sweep_cost_usd_10000"}, "Float64",
             "BOOK_USD_INPUTS", "Snapshot")
  @@ Recipes({"maximum_executable_buy_quote_notional", "maximum_executable_sell_quote_notional"},
             "FixedDecimal", "BOOK_POLICY_INPUTS", "Snapshot")
  @@ Recipes({"bid_stale_side_duration_ns", "ask_stale_side_duration_ns"}, "Integer",
             "BOOK_HISTORY_INPUTS", "Flow")
  @@ Recipes({"bid_depth_change", "ask_depth_change", "absolute_spread_change", "top_of_book_ofi"},
             "FixedDecimal", "BOOK_HISTORY_INPUTS", "Flow")
  @@ Recipes({"displayed_depth_replenishment_fraction"}, "Float64", "BOOK_FLOW_POLICY_INPUTS",
             "Recovery")
  @@ Recipes({"displayed_depth_recovery_time_ns", "book_half_life_ns"}, "Integer",
             "BOOK_FLOW_POLICY_INPUTS", "Recovery")

FlowRecipes ==
  Recipes({"aggressive_buy_count", "aggressive_sell_count"}, "Integer", "FLOW_INPUTS", "Flow")
  @@ Recipes({"aggressive_buy_quantity", "aggressive_sell_quantity", "aggressive_buy_notional",
              "aggressive_sell_notional"}, "FixedDecimal", "FLOW_INPUTS", "Flow")
  @@ Recipes({"signed_trade_count_imbalance", "signed_trade_quantity_imbalance",
              "signed_trade_notional_imbalance", "trade_intensity_per_second",
              "trade_interarrival_coefficient_of_variation"}, "Float64", "FLOW_INPUTS", "Flow")
  @@ Recipes({"signed_volume_at_price"}, "FixedDecimalMap", "FLOW_INPUTS", "Flow")

FlowPolicyRecipes ==
  Recipes({"placement_rate_per_second", "cancellation_rate_per_second",
           "modification_rate_per_second", "cancellation_to_trade_ratio", "quote_to_trade_ratio"},
          "Float64", "LIFECYCLE_INPUTS", "Flow")
  @@ Recipes({"trade_shock_midprice_impact", "trade_effective_spread", "trade_realized_spread",
              "trade_adverse_selection_proxy"}, "Float64", "BOOK_FLOW_POLICY_INPUTS", "Flow")
  @@ Recipes({"trade_print_sweep_direction", "large_trade_cluster_activity_rate"}, "Float64",
             "FLOW_POLICY_INPUTS", "Flow")
  @@ Recipes({"large_trade_cluster_count", "clustered_large_trade_count"}, "Integer",
             "FLOW_POLICY_INPUTS", "Flow")
  @@ Recipes({"clustered_large_trade_notional"}, "FixedDecimal", "FLOW_POLICY_INPUTS", "Flow")

task_five_recipes == BookRecipes @@ BookPolicyRecipes @@ FlowRecipes @@ FlowPolicyRecipes

\* RecipeWindow::definition
RecipeWindow(window) ==
  CASE window = "Snapshot" ->
         [id |-> "tumbling_1s", kind |-> "Tumbling", extent |-> OneSecond, advance |-> 0, anchor |-> 0]
    [] window = "Flow" ->
         [id |-> "rolling_1m", kind |-> "Sliding", extent |-> OneMinute, advance |-> OneSecond,
          anchor |-> 0]
    [] window = "Recovery" ->
         [id |-> "rolling_15m", kind |-> "Sliding", extent |-> FifteenMinutes, advance |-> OneSecond,
          anchor |-> 0]

RecipeVersion == [major |-> 1, plain |-> TRUE, length |-> 5]

\* Task5FeatureRecipe::definition; the formula hash covers the whole recipe.
RecipeDefinition(id) ==
  LET recipe == task_five_recipes[id]
  IN [id |-> id, version |-> RecipeVersion, role |-> "ModelEligible", value_type |-> recipe.type,
      scope |-> "Instrument", documented |-> TRUE, inputs |-> <<recipe.inputs>>,
      windows |-> <<RecipeWindow(recipe.window)>>, output_resolution |-> OneSecond,
      allowed_lateness |-> Lateness, time_to_live |-> Day, normalization |-> RecipeVersion,
      formula_hash |-> <<id, RecipeVersion, recipe>>,
      gate |-> [minimum_score |-> (MaxScore * 9) \div 10, minimum_coverage |-> MaxScore,
                states |-> {"Healthy"}]]

TaskFiveRegistry ==
  [capacity |-> MaxDefinitions,
   definitions |-> [key \in {<<id, RecipeVersion>> : id \in DOMAIN task_five_recipes} |->
                     RecipeDefinition(key[1])]]

-----------------------------------------------------------------------------
(* Data                                                                        *)

Datum(type, value) == [present |-> TRUE, type |-> type, value |-> value]

computation_missing(error) ==
  IF missingness_reason(error) = NoReason THEN Fail(error) ELSE Done(Missing(missingness_reason(error)))

\* analytical_datum, and the match arms that do the same for other types
DatumOf(type, result) ==
  IF result.ok THEN Done(Datum(type, result.value)) ELSE computation_missing(result.error)

\* A field of a computed record, or the record's error.
Field(result, F(_)) == Then(result, LAMBDA r : Done(F(r)))

exact_midpoint(book) == (best_bid(book).price + best_ask(book).price) \div 2

BANDS == <<[bid |-> "bid_depth_1bps", ask |-> "ask_depth_1bps", imbalance |-> "book_imbalance_1bps", bps |-> 1],
           [bid |-> "bid_depth_2bps", ask |-> "ask_depth_2bps", imbalance |-> "book_imbalance_2bps", bps |-> 2],
           [bid |-> "bid_depth_5bps", ask |-> "ask_depth_5bps", imbalance |-> "book_imbalance_5bps", bps |-> 5],
           [bid |-> "bid_depth_10bps", ask |-> "ask_depth_10bps", imbalance |-> "book_imbalance_10bps", bps |-> 10],
           [bid |-> "bid_depth_25bps", ask |-> "ask_depth_25bps", imbalance |-> "book_imbalance_25bps", bps |-> 25],
           [bid |-> "bid_depth_50bps", ask |-> "ask_depth_50bps", imbalance |-> "book_imbalance_50bps", bps |-> 50],
           [bid |-> "bid_depth_100bps", ask |-> "ask_depth_100bps", imbalance |-> "book_imbalance_100bps", bps |-> 100]>>

\* Mutant: the imbalance is emitted although one side of the band is not fully observed.
BandImbalanceUnchecked(book, reference, band, depth) ==
  LET imbalance == normalized_imbalance(book, reference, band.bps)
  IN IF ~imbalance.ok /\ imbalance.error = "ZeroDenominator"
     THEN Done(Missing("BelowLiquidityThreshold")) ELSE DatumOf("Float64", imbalance)

\* An imbalance needs both sides of the band; an empty band has too little liquidity.
BandImbalance(book, reference, band, depth) ==
  LET imbalance == normalized_imbalance(book, reference, band.bps)
  IN IF ~(depth.bid.ok /\ depth.ask.ok) THEN Done(Missing("InsufficientHistory"))
     ELSE IF ~imbalance.ok /\ imbalance.error = "ZeroDenominator"
     THEN Done(Missing("BelowLiquidityThreshold")) ELSE DatumOf("Float64", imbalance)

BandInputs(book, band) ==
  LET reference == exact_midpoint(book)
      depth == fully_observed_depth_within_band(book, reference, band.bps)
  IN IF depth.ok
     THEN << <<band.bid, DatumOf("FixedDecimal", depth.value.bid)>>,
             <<band.ask, DatumOf("FixedDecimal", depth.value.ask)>>,
             <<band.imbalance, BandImbalance(book, reference, band, depth.value)>> >>
     ELSE << <<band.bid, computation_missing(depth.error)>>,
             <<band.ask, computation_missing(depth.error)>>,
             <<band.imbalance, computation_missing(depth.error)>> >>

SpreadInputs(book) ==
  << <<"absolute_spread", Field(spread(book), LAMBDA s : Datum("FixedDecimal", s.absolute))>>,
     <<"relative_spread", Field(spread(book), LAMBDA s : Datum("Float64", s.relative))>> >>

BookCoreInputs(book) ==
  LET bids == bid_book_shape_quadratic(book, book.price_tick, BOOK_SHAPE_LEVEL_COUNT_V1)
      asks == ask_book_shape_quadratic(book, book.price_tick, BOOK_SHAPE_LEVEL_COUNT_V1)
      counts == active_level_counts(book)
      distribution == book_distribution(book)
  IN SpreadInputs(book)
     \o FlattenSeq([i \in DOMAIN BANDS |-> BandInputs(book, BANDS[i])])
     \o << <<"weighted_midpoint", DatumOf("Float64", weighted_midpoint(book))>>,
           <<"microprice", DatumOf("Float64", microprice(book))>>,
           <<"bid_book_slope", DatumOf("Float64", Field(bids, LAMBDA s : s.slope_at_inside))>>,
           <<"bid_book_convexity", DatumOf("Float64", Field(bids, LAMBDA s : s.convexity))>>,
           <<"ask_book_slope", DatumOf("Float64", Field(asks, LAMBDA s : s.slope_at_inside))>>,
           <<"ask_book_convexity", DatumOf("Float64", Field(asks, LAMBDA s : s.convexity))>>,
           <<"bid_price_level_gap_density", DatumOf("Float64", bid_level_gap_density(book, book.price_tick))>>,
           <<"ask_price_level_gap_density", DatumOf("Float64", ask_level_gap_density(book, book.price_tick))>>,
           <<"expected_buy_sweep_cost_usd_10000", Done(Missing("SourceNotSupported"))>>,
           <<"expected_sell_sweep_cost_usd_10000", Done(Missing("SourceNotSupported"))>>,
           <<"bid_active_price_levels", DatumOf("Integer", Field(counts, LAMBDA c : c.bid))>>,
           <<"ask_active_price_levels", DatumOf("Integer", Field(counts, LAMBDA c : c.ask))>>,
           <<"local_book_entropy", DatumOf("Float64", Field(distribution, LAMBDA d : d.weights))>>,
           <<"depth_concentration_by_level",
             DatumOf("Float64", Field(distribution, LAMBDA d : d.concentration))>> >>

-----------------------------------------------------------------------------
(* Emission                                                                    *)

\* emit_bound_datum; task_five_lineage_hash covers the tuple of its last argument.
emit_bound_datum(registry, emission, id, datum, entity, known, domain, digest, tracker, d, quality) ==
  LET expected == RecipeDefinition(id)
      window_id == expected.windows[1].id
      coverage == coverage_for_decision(tracker, d)
      o == [id |-> id, version |-> RecipeVersion, entity |-> entity, window_id |-> window_id,
            resolution |-> expected.output_resolution, datum |-> datum,
            value_type |-> expected.value_type, start |-> d.window.start, end |-> d.window.end,
            as_known_at |-> Max({known, d.as_known_at}), computed_at |-> emission.computed_at,
            watermark |-> d.watermark, finality_as_known_at |-> d.as_known_at, finality |-> "Final",
            revision |-> emission.revision, coverage |-> coverage, quality |-> quality,
            normalization |-> expected.normalization, formula_hash |-> expected.formula_hash,
            lineage |-> <<domain, expected.formula_hash, evidence_digest(d), digest, emission, datum>>]
  IN IF id \notin DOMAIN task_five_recipes \/ ~Registered(registry, id, RecipeVersion)
     THEN Fail("UnknownDefinition")
     ELSE Checked(<<
       <<\/ registry.definitions[<<id, RecipeVersion>>] # expected
         \/ datum.present /\ datum.type # expected.value_type
         \/ ~registered_window_matches(expected, window_id, d.window), "DefinitionMismatch">>,
       <<coverage = NoCoverage, "UntrustedInput">>,
       Failing(ObservationError(o)),
       Failing(ValidateError(registry, o)) >>, o)

\* Collecting results: the first error, or the sequence of values.
CollectResults(results) ==
  LET failed == {i \in DOMAIN results : ~results[i].ok}
  IN IF failed # {} THEN results[Min(failed)] ELSE Done([i \in DOMAIN results |-> results[i].value])

\* Every datum is computed before any is emitted.
EmitAll(inputs, Emit(_, _)) ==
  Then(CollectResults([i \in DOMAIN inputs |-> inputs[i][2]]), LAMBDA data :
    CollectResults([i \in DOMAIN inputs |-> Emit(inputs[i][1], data[i])]))

book_input_digest(evidence) ==
  <<evidence.lineage, evidence.instrument_definition_lineage, evidence.state_digest, evidence.source>>

\* Mutant: the book need not be the one the evidence was built from.
BookEmissionErrorUnmatched(book, evidence, tracker, d) ==
  LET entity == Instrument(book.instrument)
  IN FirstError(<<
       <<evidence.instrument_definition_lineage = <<>>, "UntrustedInput">>,
       <<\/ ~validates_decision(tracker, d, entity) \/ d.state # "Final"
         \/ evidence.event_time \notin d.window.start .. d.window.end - 1, "WindowNotFinal">>,
       <<coverage_for_decision(tracker, d) = NoCoverage, "UntrustedInput">>,
       <<coverage_for_decision(tracker, d).expected # {evidence.source}, "EligibleUniverseChanged">> >>)

\* validate_book_snapshot_emission
BookEmissionError(book, evidence, tracker, d) ==
  LET entity == Instrument(book.instrument)
  IN FirstError(<<
       <<~evidence_matches(evidence, book), "UntrustedInput">>,
       <<evidence.instrument_definition_lineage = <<>>, "UntrustedInput">>,
       <<\/ ~validates_decision(tracker, d, entity) \/ d.state # "Final"
         \/ evidence.event_time \notin d.window.start .. d.window.end - 1, "WindowNotFinal">>,
       <<coverage_for_decision(tracker, d) = NoCoverage, "UntrustedInput">>,
       <<coverage_for_decision(tracker, d).expected # {evidence.source}, "EligibleUniverseChanged">> >>)

EmitBook(registry, emission, book, evidence, tracker, d, inputs) ==
  EmitAll(inputs, LAMBDA id, datum :
    emit_bound_datum(registry, emission, id, datum, Instrument(book.instrument),
                     evidence.as_known_at, "book", book_input_digest(evidence), tracker, d,
                     evidence.quality))

emit_book_spread_features(registry, emission, book, evidence, tracker, d) ==
  LET error == BookEmissionError(book, evidence, tracker, d)
  IN IF error # "Ok" THEN Fail(error)
     ELSE EmitBook(registry, emission, book, evidence, tracker, d, SpreadInputs(book))

emit_book_snapshot_core_features(registry, emission, book, evidence, tracker, d) ==
  LET error == BookEmissionError(book, evidence, tracker, d)
  IN IF error # "Ok" THEN Fail(error)
     ELSE IF book.bids = <<>> \/ book.asks = <<>> THEN Fail("UntrustedInput")
     ELSE EmitBook(registry, emission, book, evidence, tracker, d, BookCoreInputs(book))

FlowEmissionError(window, tracker, d) ==
  LET coverage == coverage_for_decision(tracker, d)
  IN FirstError(<<
       <<~window_is_authenticated(window), "UntrustedInput">>,
       <<\/ ~validates_decision(tracker, d, Instrument(window.instrument)) \/ d.state # "Final"
         \/ d.window # [start |-> window.start, end |-> window.end], "WindowNotFinal">>,
       <<coverage = NoCoverage, "UntrustedInput">>,
       <<window_sources(window) # coverage.expected, "EligibleUniverseChanged">>,
       <<\E a \in window.authorities : a.inferred, "SourceNotSupported">> >>)

\* A window without volume on either side has no imbalance; other errors end the emission.
ImbalanceDatum(result, F(_)) ==
  IF result.ok THEN Done(Datum("Float64", F(result.value)))
  ELSE IF result.error = "ZeroDenominator" THEN Done(Missing("InsufficientHistory")) ELSE result

FlowCoreInputs(window) ==
  LET sums == aggressive_trade_sums(window)
      imbalances == aggressive_trade_imbalances(window)
      Sum(type, F(_)) == Field(sums, LAMBDA s : Datum(type, F(s)))
  IN << <<"aggressive_buy_count", Sum("Integer", LAMBDA s : s.buy_count)>>,
        <<"aggressive_sell_count", Sum("Integer", LAMBDA s : s.sell_count)>>,
        <<"aggressive_buy_quantity", Sum("FixedDecimal", LAMBDA s : s.buy_quantity)>>,
        <<"aggressive_sell_quantity", Sum("FixedDecimal", LAMBDA s : s.sell_quantity)>>,
        <<"aggressive_buy_notional", Sum("FixedDecimal", LAMBDA s : s.buy_notional)>>,
        <<"aggressive_sell_notional", Sum("FixedDecimal", LAMBDA s : s.sell_notional)>>,
        <<"signed_trade_count_imbalance", ImbalanceDatum(imbalances, LAMBDA i : i.count)>>,
        <<"signed_trade_quantity_imbalance", ImbalanceDatum(imbalances, LAMBDA i : i.quantity)>>,
        <<"signed_trade_notional_imbalance", ImbalanceDatum(imbalances, LAMBDA i : i.notional)>>,
        <<"trade_intensity_per_second",
          Field(trade_intensity_per_second(window), LAMBDA v : Datum("Float64", v))>>,
        <<"trade_interarrival_coefficient_of_variation",
          DatumOf("Float64", interarrival_coefficient_of_variation(window))>>,
        <<"signed_volume_at_price", Done(Datum("FixedDecimalMap", signed_volume_at_price(window)))>> >>

emit_trade_flow_core_features(registry, emission, window, tracker, d) ==
  LET error == FlowEmissionError(window, tracker, d)
  IN IF error # "Ok" THEN Fail(error)
     ELSE EmitAll(FlowCoreInputs(window), LAMBDA id, datum :
            emit_bound_datum(registry, emission, id, datum, Instrument(window.instrument),
                             maximum_as_known_at(window)[1], "flow",
                             canonical_evidence_digest(window).value, tracker, d,
                             minimum_quality_score_ppm(window)[1]))
=============================================================================
