----------------------------- MODULE MCAnalytics -----------------------------
(***************************************************************************)
(* The analytic components, which share nothing: a behaviour exercises one *)
(* part of one of them while the others are idle.                          *)
(***************************************************************************)
EXTENDS FastState, CuspEngine, MicrostructureEmission, EventEnvelope

-----------------------------------------------------------------------------
(* Small instances of the microstructure features.  microPart picks, in        *)
(* MicroInit, what a behaviour does: one evaluation of the trade statistics,   *)
(* the book metrics, the response to a shock or the recovery of depth on an    *)
(* enumerated input; or the emission of observations while the watermark       *)
(* tracker moves.                                                              *)

VARIABLES
  microPart,
  input,        \* what is evaluated
  result,       \* its result, as an Option
  tracker,      \* the watermark tracker of the instrument
  held,         \* the decision taken from it, as an Option
  emitted       \* the observations emitted, with what they were emitted from

microVars == <<microPart, input, result, tracker, held, emitted>>

MCRolling == [rolling_5m |-> 2, rolling_15m |-> 3, rolling_1h |-> 4]

SpotPair == [venue |-> "v", product |-> "Spot"]
Perpetual == [venue |-> "v", product |-> "Perpetual"]
Venue == [kind |-> "Exchange", name |-> "v"]

-----------------------------------------------------------------------------
(* Trades: side, price and gap to the previous one, in every order              *)

TradeKinds == [side : {"Buy", "Sell"}, price : {1, 2}, gap : {1, 3}]
Authority == [rule_id |-> "r", rule_version |-> 1, inferred |-> FALSE]
TradesOf(kinds) ==
  [i \in DOMAIN kinds |->
     LET time == SumOf(Prefix(kinds, i), LAMBDA k : k.gap)
     IN [instrument |-> SpotPair, event_time |-> time, as_known_at |-> time + 1, lineage |-> i,
         price |-> kinds[i].price, quantity |-> 1, side |-> kinds[i].side, authority |-> Authority,
         authenticated |-> TRUE, source |-> <<Venue>>, quality_score_ppm |-> 10 - i]]
FlowInputs == UNION {[1 .. n -> TradeKinds] : n \in 1 .. 4}

Gap == 1
Large == 2
FlowEnd == 14

EvaluateFlow ==
  /\ microPart = "flow" /\ result = <<>>
  /\ LET window == TradeFlowWindow(TradesOf(input), 8, 1, FlowEnd, FlowEnd + 1).value
     IN result' = <<[window |-> window,
                     clusters |-> trade_cluster_statistics(window, Large, Gap).value,
                     activity |-> large_trade_cluster_activity(window, Large, Gap, 2).value,
                     sweeps |-> trade_print_sweep_direction(window, Gap, 2, 2, 3, "Allow"),
                     sums |-> aggressive_trade_totals(window).value,
                     volume |-> signed_volume_at_price(window),
                     shocks |-> [v \in 1 .. 4 |-> ShockFromPrefix(window, [kind |-> "QuoteNotional", value |-> v])]]>>
  /\ UNCHANGED <<microPart, input, tracker, held, emitted>>

\* Reference definitions over the intervals of a window.
Intervals(s) == {i \in (DOMAIN s) \X (DOMAIN s) : i[1] <= i[2]}
SameSide(s, i) == \A k \in i[1] .. i[2] : s[k].side = s[i[1]].side
Longest(is) == Max({0} \cup {i[2] - i[1] + 1 : i \in is})
LargeTrades(s) == SelectSeq(s, LAMBDA t : Notional(t) >= Large)
Linked(s, i) == \A k \in i[1] + 1 .. i[2] : s[k].event_time - s[k - 1].event_time <= Gap
Maximal(is) == {i \in is : \A j \in is : (j[1] <= i[1] /\ i[2] <= j[2]) => j = i}
Clusters(s) == Maximal({i \in Intervals(LargeTrades(s)) : Linked(LargeTrades(s), i)})
Ascends(s, i) == \A k \in i[1] + 1 .. i[2] :
                   IF s[i[1]].side = "Buy" THEN s[k].price >= s[k - 1].price
                   ELSE s[k].price <= s[k - 1].price
SweepRuns(s) == Maximal({i \in Intervals(s) : SameSide(s, i) /\ Linked(s, i)})
Sweeps(s, side) ==
  {i \in SweepRuns(s) : /\ s[i[1]].side = side /\ i[2] > i[1] /\ Ascends(s, i)
                        /\ s[i[1]].price # s[i[2]].price
                        /\ SumOf(SubSeq(s, i[1], i[2]), Notional) >= 3}

FlowExact ==
  (microPart = "flow" /\ result # <<>>) =>
    LET r == result[1]
        s == r.window.observations
        large == Cardinality({k \in DOMAIN s : Notional(s[k]) >= Large})
        qualified == {c \in Clusters(s) : c[2] > c[1]}
        buys == Cardinality(Sweeps(s, "Buy"))
        sells == Cardinality(Sweeps(s, "Sell"))
    IN /\ r.window = TradeFlowWindow(Reverse(TradesOf(input)), 8, 1, FlowEnd, FlowEnd + 1).value
       /\ r.clusters.longest_same_side_run = Longest({i \in Intervals(s) : SameSide(s, i)})
       /\ r.clusters.largest_cluster = Longest(Clusters(s))
       /\ r.clusters.large_trade_count = large
       /\ r.activity.cluster_count = Cardinality(qualified)
       /\ r.activity.clustered_count = MapThenSumSet(LAMBDA c : c[2] - c[1] + 1, qualified)
       /\ IF buys + sells = 0 THEN ~r.sweeps.ok
          ELSE r.sweeps.value.buy_episodes = buys /\ r.sweeps.value.sell_episodes = sells
       /\ SumFunction(r.volume) = r.sums.sums.buy_quantity - r.sums.sums.sell_quantity
       /\ \A v \in 1 .. 4 :
            LET reaching == {k \in DOMAIN s : /\ SameSide(s, <<1, k>>)
                                              /\ SumOf(Prefix(s, k), Notional) >= v}
            IN IF reaching = {} THEN ~r.shocks[v].ok
               ELSE /\ Len(r.shocks[v].value.observations) = Min(reaching)
                    /\ r.shocks[v].value.availability_at = Max({s[k].as_known_at : k \in 1 .. Min(reaching)})

-----------------------------------------------------------------------------
(* Books: three levels a side, of which a source may show fewer                  *)

Levels(prices, quantities) == [i \in 1 .. 3 |-> [price |-> prices[i], quantity |-> quantities[i]]]
BookOf(bids, asks) ==
  [instrument |-> SpotPair, price_tick |-> 1, quantity_step |-> 1,
   session |-> [connection_epoch |-> 1, subscription_epoch |-> 1], last_source_sequence |-> 5,
   updated_monotonic_ns |-> 1, classification |-> "Normal", bids |-> bids, asks |-> asks,
   quality |-> [health_state |-> "Synchronized", last_update_age_ms |-> 0, quality_score_ppm |-> 10]]
Sizes == [1 .. 3 -> {1, 2}]
BookInputs ==
  [bids : {Levels(<<199, 198, 196>>, q) : q \in Sizes},
   asks : {Levels(<<201, 202, 203>>, q) : q \in Sizes}, shown : {<<1, 2>>, <<2, 3>>, <<3, 1>>, <<3, 3>>}]
Limits == {50, 100, 200}
Reference == 200

EvaluateBook ==
  /\ microPart = "book" /\ result = <<>>
  /\ LET book == BookOf(Prefix(input.bids, input.shown[1]), Prefix(input.asks, input.shown[2]))
     IN result' = <<[book |-> book,
                     depth |-> [b \in Limits |-> fully_observed_depth_within_band(book, Reference, b).value],
                     microprice |-> microprice(book).value,
                     weighted_midpoint |-> weighted_midpoint(book).value,
                     shape |-> ask_book_shape_quadratic(book, 1, 3),
                     gaps |-> bid_level_gap_density(book, 1),
                     maximum |-> [b \in Limits |-> [side \in {"Buy", "Sell"} |->
                                   maximum_executable_quote_notional(book, side, b, Reference).value]]]>>
  /\ UNCHANGED <<microPart, input, tracker, held, emitted>>

Within(levels, bps) ==
  SelectSeq(levels, LAMBDA l : Abs(l.price - Reference) * BASIS_POINTS_DENOMINATOR <= Reference * bps)

BookExact ==
  (microPart = "book" /\ result # <<>>) =>
    LET r == result[1]
        b == r.book
        x == [i \in DOMAIN b.asks |-> b.asks[i].price - b.asks[1].price]
        y == CumulativeDepth(b.asks)
        At(f, i) == FAdd(FMul(f.slope_at_inside, Whole(x[i])),
                         FMul(FDiv(f.convexity, Whole(2)), Whole(x[i] * x[i])))
    IN /\ \A bps \in Limits :
            /\ r.depth[bps].bid.ok => r.depth[bps].bid.value = Quantities(Within(input.bids, bps))
            /\ r.depth[bps].ask.ok => r.depth[bps].ask.value = Quantities(Within(input.asks, bps))
       /\ FAdd(r.microprice, r.weighted_midpoint) = Whole(best_bid(b).price + best_ask(b).price)
       /\ r.shape.ok => \A i \in 2 .. 3 : At(r.shape.value, i) = Whole(y[i] - y[1])
       /\ r.gaps.ok => r.gaps.value = Frac(b.bids[1].price - Last(b.bids).price - (Len(b.bids) - 1),
                                           b.bids[1].price - Last(b.bids).price)
       /\ \A bps \in Limits, side \in {"Buy", "Sell"}, share \in {1, 2, 3} :
            LET most == r.maximum[bps][side]
                sweep == expected_sweep_cost(b, side, (most * share) \div 3, Reference)
            IN most > 0 => /\ sweep.ok
                           /\ ~FLess(Frac(bps, BASIS_POINTS_DENOMINATOR), sweep.value.relative_cost)
       /\ \A side \in {"Buy", "Sell"} :
            ~expected_sweep_cost(b, side, Notionals(SweptLevels(b, side)) + 1, Reference).ok

-----------------------------------------------------------------------------
(* Quotes around a shock of two buys at 3 and 4, known at 6                      *)

Quote(i, time, known, mid, size) ==
  [instrument |-> SpotPair, session |-> 1, policy |-> 1, last_source_sequence |-> i,
   event_time |-> time, as_known_at |-> known, lineage |-> 100 + i,
   bid |-> [price |-> mid - 1, quantity |-> size], ask |-> [price |-> mid + 1, quantity |-> 1],
   authenticated |-> TRUE]
QuoteKinds == [known : {0, 4}, mid : {4, 5}, size : {1, 2}]
QuotesOf(kinds, times) ==
  [i \in DOMAIN kinds |-> Quote(i, times[i], Max({times[j] + kinds[j].known : j \in 1 .. i}),
                                kinds[i].mid, kinds[i].size)]
ShockInputs == [kinds : [1 .. 3 -> QuoteKinds], times : {<<1, 2, 6>>, <<2, 3, 6>>, <<2, 6, 7>>}]
ShockTrade(i, time, known) ==
  [instrument |-> SpotPair, event_time |-> time, as_known_at |-> known, lineage |-> i, price |-> 6,
   quantity |-> 1, side |-> "Buy", authority |-> Authority, authenticated |-> TRUE,
   source |-> <<Venue>>, quality_score_ppm |-> 10]
TheShock ==
  ShockFromPrefix(TradeFlowWindow(<<ShockTrade(1, 3, 4), ShockTrade(2, 4, 5)>>, 8, 1, 6, 12).value,
                  [kind |-> "BaseQuantity", value |-> 2]).value
Response(quotes) == trade_shock_response(TheShock, quotes, 3, 2, 1, "BaseQuantity")

Mirror(quote) ==
  [quote EXCEPT !.bid = [price |-> 20 - quote.ask.price, quantity |-> quote.ask.quantity],
                !.ask = [price |-> 20 - quote.bid.price, quantity |-> quote.bid.quantity]]
OnQuotes(window, F(_)) ==
  [window EXCEPT !.observations = [i \in DOMAIN window.observations |-> F(window.observations[i])]]

EvaluateShock ==
  /\ microPart = "shock" /\ result = <<>>
  /\ LET window == TopOfBookWindow(QuotesOf(input.kinds, input.times), 8, 12).value
     IN result' = <<[window |-> window, response |-> Response(window), ofi |-> top_of_book_ofi(window),
                     stale |-> top_of_book_side_staleness(window, 9, 1)]>>
  /\ UNCHANGED <<microPart, input, tracker, held, emitted>>

\* A quote that was not known when the shock was, moved by one.
Moved(quote) ==
  IF quote.as_known_at > TheShock.availability_at /\ quote.event_time < TheShock.end + 2
  THEN [quote EXCEPT !.bid.price = @ + 1, !.ask.price = @ + 1] ELSE quote

ShockExact ==
  (microPart = "shock" /\ result # <<>>) =>
    LET r == result[1]
    IN /\ top_of_book_ofi(OnQuotes(r.window, Mirror)) = -r.ofi
       /\ Response(OnQuotes(r.window, Moved)) = r.response
       /\ r.response.ok => /\ r.response.value.adverse_selection_proxy
                                 = FMul(Whole(2), r.response.value.signed_impact)
                           /\ r.response.value.effective_spread
                                = FAdd(r.response.value.realized_spread,
                                       FMul(Whole(2), r.response.value.signed_impact))
       /\ r.stale.ok => r.stale.value.bid.stale_duration = Max({0, r.stale.value.bid.quote_age - 1})

-----------------------------------------------------------------------------
(* Depth after a trade: three later observations of the depth it consumed        *)

DepthAt(i, time, depth) ==
  [instrument |-> SpotPair, session |-> 1, policy |-> 1, last_source_sequence |-> i, event_time |-> time,
   as_known_at |-> time, lineage |-> 100 + i, reference_price |-> 200, band_bps |-> 50,
   bid_quantity |-> depth, ask_quantity |-> 1, absolute_spread |-> 2, authenticated |-> TRUE]
RecoveryInputs == [depths : [1 .. 3 -> 0 .. 5], late : BOOLEAN]
Episode ==
  RecoveryEpisode(DepthAt(1, 1, 5), DepthAt(2, 3, 1),
                  [ShockTrade(7, 2, 2) EXCEPT !.side = "Sell"], 20, 2).value
CandidatesOf(i) == [k \in 1 .. 3 |-> DepthAt(k + 2, IF i.late /\ k = 3 THEN 12 ELSE k + 3, i.depths[k])]
Fractions == {<<1, 2>>, <<3, 4>>, <<1, 1>>}

EvaluateRecovery ==
  /\ microPart = "recovery" /\ result = <<>>
  /\ result' = <<[f \in Fractions |-> time_to_fraction_ns(Episode, CandidatesOf(input), 8, f[1], f[2], 6)]>>
  /\ UNCHANGED <<microPart, input, tracker, held, emitted>>

\* A fraction of the lost depth is reached no later than a larger one, and at the first
\* observation whose own fraction is large enough.
RecoveryExact ==
  (microPart = "recovery" /\ result # <<>>) =>
    LET r == result[1]
        cs == CandidatesOf(input)
    IN /\ \A f, g \in Fractions :
            (FLess(f, g) /\ r[g].ok) => (r[f].ok /\ r[f].value <= r[g].value)
       /\ \A f \in Fractions :
            r[f].ok <=> \E c \in Range(cs) : /\ c.event_time - 3 <= 6
                                             /\ ~FLess(recovery_fraction(Episode, c).value, f)
       /\ \A f \in Fractions : r[f].ok =>
            \A c \in Range(cs) : c.event_time - 3 < r[f].value =>
                                   FLess(recovery_fraction(Episode, c).value, f)

\* The folds of orderflow.rs over a window equal their declarative meaning (runs, clusters, sweeps,
\* shock prefixes, signed volume, in any order of arrival); a depth that orderbook.rs reports as
\* fully observed is the depth of the untruncated book, a sweep within the executable notional
\* stays within its slippage limit; no response to a shock depends on what was not yet known;
\* recovery times are monotone in the fraction.
MicrostructureExact == FlowExact /\ BookExact /\ ShockExact /\ RecoveryExact

-----------------------------------------------------------------------------
(* Emission: a window [2, 4) of books and [2, 6) of trades                       *)

TheBook == BookOf(Levels(<<199, 198, 196>>, <<1, 2, 1>>), Levels(<<201, 202, 203>>, <<2, 1, 1>>))
NextBook == [TheBook EXCEPT !.bids[1].quantity = 2]
Books == {TheBook, NextBook}

Metadata(known) ==
  [instrument |-> <<SpotPair>>, source |-> Venue, transaction_time |-> <<3>>, exchange_time |-> <<>>,
   normalization_time |-> known, quality_score_ppm |-> 10, connection_epoch |-> 1,
   subscription_epoch |-> 1, sequence_number |-> <<5>>, receive_monotonic_ns |-> 1]
BookEvent(id, book, known) ==
  [verified |-> TRUE, id |-> id, kind |-> "BookSnapshot", metadata |-> Metadata(known),
   bids |-> book.bids, asks |-> book.asks, last_sequence |-> 5]
DefinitionEvent(known) ==
  [verified |-> TRUE, id |-> 9, kind |-> "InstrumentDefinition", metadata |-> Metadata(known),
   definition |-> [id |-> SpotPair, price_tick |-> 1, quantity_step |-> 1, listing_time |-> 1,
                   delisting_time |-> <<>>]]
Events == {BookEvent(1, TheBook, 4), BookEvent(1, TheBook, 8), BookEvent(2, NextBook, 4)}
DefinitionEvents == {DefinitionEvent(3), DefinitionEvent(9)}

TwoTrades(known) == <<ShockTrade(1, 3, 4), ShockTrade(2, 4, known)>>
FlowWindows == {TradeFlowWindow(TwoTrades(known), 8, 2, 6, 9).value : known \in {5, 9}}

Tampered == [TaskFiveRegistry EXCEPT
               !.definitions[<<"microprice", RecipeVersion>>].gate.minimum_score = 0]
EmissionInputs == [sources : {{Venue}, {Venue, [kind |-> "Exchange", name |-> "w"]}}, registry : {"Registered"}]
                  \cup [sources : {{Venue}}, registry : {"Tampered"}]
Registry == IF input.registry = "Registered" THEN TaskFiveRegistry ELSE Tampered
TrackerOf(sources) ==
  NewTracker(SetToSeq({[source |-> s, partition |-> 1, role |-> "Required"] : s \in sources}),
             Lateness, <<"Healthy">>, Instrument(SpotPair))
Now == 12
EmissionInput == [computed_at |-> Now, revision |-> 1]

Advance(s, time, known) ==
  LET key == [source |-> s, partition |-> 1]
      update == [event_time |-> time, as_known_at |-> known, health |-> "Healthy"]
  IN /\ microPart = "emission"
     /\ AdvanceError(tracker, key, update) = "Ok"
     /\ tracker' = advance(tracker, key, update)
     /\ tracker'.update_sequence <= Cardinality(tracker.required) + 1
     /\ UNCHANGED <<microPart, input, result, held, emitted>>

Decide(window) ==
  /\ microPart = "emission" /\ latest_as_known_at(tracker) # NoTime
  /\ held' = <<decision(tracker, window)>>
  /\ UNCHANGED <<microPart, input, result, tracker, emitted>>

Emitted(kind, from, r) ==
  /\ Len(emitted) < 2
  /\ r.ok
  /\ emitted' = Append(emitted, [kind |-> kind, from |-> from, observations |-> r.value,
                                 known |-> latest_as_known_at(tracker)])
  /\ UNCHANGED <<microPart, input, result, tracker, held>>

\* The evidence was taken when the event was applied, from the book it left.
BookEvidence(event, definition) ==
  Then(InstrumentDefinitionEvidence(definition), LAMBDA d :
    try_from_event_with_definition(BookOf(event.bids, event.asks), event, d))

EmitSpread(book, event, definition) ==
  /\ microPart = "emission" /\ held # <<>>
  /\ Emitted("spread", [book |-> book, event |-> event, definition |-> definition],
             Then(BookEvidence(event, definition), LAMBDA e :
               emit_book_spread_features(Registry, EmissionInput, book, e, tracker, held[1])))

EmitCore(book, event, definition) ==
  /\ microPart = "emission" /\ held # <<>>
  /\ Emitted("core", [book |-> book, event |-> event, definition |-> definition],
             Then(BookEvidence(event, definition), LAMBDA e :
               emit_book_snapshot_core_features(Registry, EmissionInput, book, e, tracker, held[1])))

EmitFlow(window) ==
  /\ microPart = "emission" /\ held # <<>>
  /\ Emitted("flow", window,
             emit_trade_flow_core_features(Registry, EmissionInput, window, tracker, held[1]))

\* Everything an emission was computed from was known by its as_known_at; a book is the one its
\* event carries; an observation's lineage hash determines it but for the local receipt time and
\* quality, which event identities leave out; and an emission is
\* whole: the core set is every book recipe that needs no policy and no history.
Knowledge(e) ==
  IF e.kind = "flow" THEN {o.as_known_at : o \in Range(e.from.observations)}
  ELSE {e.from.event.metadata.normalization_time, e.from.definition.metadata.normalization_time}
CoreIds == (DOMAIN BookRecipes \ {"book_quote_age_ms"})
           \cup {"expected_buy_sweep_cost_usd_10000", "expected_sell_sweep_cost_usd_10000"}
EmittedIds(e) == {o.id : o \in Range(e.observations)}
EmissionBound ==
  /\ \A e \in Range(emitted) :
       /\ \A o \in Range(e.observations), known \in Knowledge(e) \cup {e.known} : o.as_known_at >= known
       /\ Cardinality(EmittedIds(e)) = Len(e.observations)
       /\ CASE e.kind = "core" -> EmittedIds(e) = CoreIds
            [] e.kind = "flow" -> EmittedIds(e) = DOMAIN FlowRecipes
            [] e.kind = "spread" -> EmittedIds(e) = {"absolute_spread", "relative_spread"}
       /\ e.kind # "flow" => e.from.book.bids = e.from.event.bids /\ e.from.book.asks = e.from.event.asks
  /\ \A e, f \in Range(emitted) : \A o \in Range(e.observations), p \in Range(f.observations) :
       o.lineage = p.lineage => [o EXCEPT !.as_known_at = 0, !.quality = 0] = [p EXCEPT !.as_known_at = 0, !.quality = 0]

-----------------------------------------------------------------------------

InputsOf(p) == CASE p = "flow" -> FlowInputs [] p = "book" -> BookInputs [] p = "shock" -> ShockInputs
               [] p = "recovery" -> RecoveryInputs [] p = "emission" -> EmissionInputs [] p = "idle" -> {<<>>}

MicroParts == {"flow", "book", "shock", "recovery", "emission"}

MicroInit ==
  /\ microPart \in {"idle"} \cup MicroParts
  /\ input \in InputsOf(microPart)
  /\ result = <<>> /\ held = <<>> /\ emitted = <<>>
  /\ tracker = IF microPart = "emission" THEN TrackerOf(input.sources) ELSE TrackerOf({Venue})

MicroNext ==
  \/ EvaluateFlow \/ EvaluateBook \/ EvaluateShock \/ EvaluateRecovery
  \/ \E s \in tracker.required, u \in {<<5, 5>>, <<7, 8>>} : Advance(s, u[1], u[2])
  \/ \E w \in {[start |-> 2, end |-> 4], [start |-> 2, end |-> 6]} : Decide(w)
  \/ \E b \in Books, e \in Events, d \in DefinitionEvents : EmitSpread(b, e, d) \/ EmitCore(b, e, d)
  \/ \E w \in FlowWindows : EmitFlow(w)

-----------------------------------------------------------------------------
(* Small instances of fast-state.  servingPart picks, in ServingInit, what a   *)
(* behaviour shows: the pipeline of ticks, snapshots and the delivery slot, or *)
(* one aggregation of a trigger record.                                        *)

CONSTANT NotBuilt

VARIABLES servingPart, inputs, record
triggerVars == <<inputs, record>>
servingVars == <<servingPart, fastVars, triggerVars>>

Release == [major |-> 1, plain |-> TRUE, length |-> 5]
Define(id, role, type, scope) ==
  [id |-> id, version |-> Release, role |-> role, value_type |-> type, scope |-> scope,
   documented |-> TRUE, inputs |-> <<"book">>,
   windows |-> <<[id |-> "rolling_5m", kind |-> "Sliding", extent |-> 2, advance |-> 1]>>,
   output_resolution |-> 1, allowed_lateness |-> 0, time_to_live |-> 3,
   normalization |-> Release, formula_hash |-> id,
   gate |-> [minimum_score |-> 0, minimum_coverage |-> 0, states |-> HealthStates]]
Canonical == [id \in TriggerFeatures |->
  LET c == expected_contract(id) IN Define(id, c.role, c.value_type, c.scope)]
MCDefinitions ==
  [capacity |-> 32,
   definitions |-> [k \in (TriggerFeatures \cup {"f", "g"}) \X {Release} |->
     IF k[1] \in TriggerFeatures THEN Canonical[k[1]]
     ELSE Define(k[1], "ModelEligible", "Float64", "Asset")]]

Observe(id, entity, expected, health, datum, end) ==
  LET d == MCDefinitions.definitions[<<id, Release>>]
  IN [id |-> id, version |-> Release, entity |-> entity, window_id |-> "rolling_5m",
      resolution |-> 1, datum |-> datum, value_type |-> d.value_type, start |-> end - 2,
      end |-> end, as_known_at |-> end, computed_at |-> end, watermark |-> end,
      finality_as_known_at |-> end, finality |-> "Final", revision |-> 1,
      coverage |-> [expected |-> expected, health |-> [s \in expected |-> health]],
      quality |-> MaxScore, normalization |-> Release, formula_hash |-> id, lineage |-> <<id, end>>]
ValueOf(id, v) ==
  [present |-> TRUE, type |-> MCDefinitions.definitions[<<id, Release>>].value_type, value |-> v]
NoValue(reason) == [present |-> FALSE, reason |-> reason]
Asset1 == [scope |-> "Asset", of |-> <<1>>]
Instrument1 == [scope |-> "Instrument", of |-> <<"BTC-PERP">>]
Source(s) == [scope |-> "Source", of |-> <<s>>]

-----------------------------------------------------------------------------
(* Snapshots at 4 and 8, of two features each of which may be corrected once.  *)

Feature(id, end) == Observe(id, Asset1, {"alpha"}, "Healthy", ValueOf(id, 1), end)
Corrected(o, known) ==
  [o EXCEPT !.revision = 2, !.finality = "Corrected", !.as_known_at = known,
            !.computed_at = known, !.datum.value = 2]
MCInputsAt == [as_of \in {4, 8} |->
  LET f == Feature("f", as_of)
      g == Feature("g", as_of)
  IN {<<f, g>>, <<g, Corrected(f, as_of + 1)>>, <<Corrected(f, as_of + 5), g>>,
      <<Corrected(f, as_of + 1), Corrected(g, as_of + 5)>>, <<f, f>>}]

-----------------------------------------------------------------------------
(* The inputs of the trigger record at 4: those of the liquidation pressure,   *)
(* with every variant of the evidence that may withdraw it.                    *)

TwoSources == {"alpha", "beta"}
MCTarget == TargetFor(LAMBDA i, t : Done([asset |-> 1, known_at |-> 1]),
                      "BTC-PERP", 4, <<"alpha", "beta">>).value
Maybe(o) == {<<>>, <<o>>}
At4(id, entity, v) == Observe(id, entity, TwoSources, "Healthy", ValueOf(id, v), 4)
FlagOf(s) ==
  {<<>>, <<Observe("liquidation_source_completeness_flag", Source(s), {s}, "Healthy",
                   NoValue("SourceDisconnected"), 4)>>,
   <<[At4("liquidation_source_completeness_flag", Source(s), 1) EXCEPT !.start = -2, !.end = 0]>>}
  \cup {<<At4("liquidation_source_completeness_flag", Source(s), v)>> : v \in {1, 3}}
GateVariants == {<<>>, <<At4("cascade_eligibility_gate", Asset1, TRUE)>>,
                 <<At4("cascade_eligibility_gate", Asset1, FALSE)>>,
                 <<[At4("cascade_eligibility_gate", Asset1, TRUE) EXCEPT !.coverage.expected = {"alpha"}]>>}
OutageVariants == {<<>>, <<At4("source_outage_indicator", Source("alpha"), TRUE)>>,
                   <<At4("source_outage_indicator", Source("beta"), FALSE)>>}
StaleVariants == {<<>>, <<At4("stale_quote_duration_ns", Source("alpha"), 1)>>,
                  <<Observe("stale_quote_duration_ns", Source("beta"), {"beta"}, "Healthy",
                            NoValue("Stale"), 4)>>}
Cores == {<<At4("liquidation_observed_velocity", Instrument1, 2),
            At4("open_interest_relative_change", Instrument1, -1),
            [At4("log_return", Asset1, 3) EXCEPT !.start = e - 2, !.end = e]>> : e \in {3, 4}}
         \cup {<<At4("liquidation_observed_velocity", Instrument1, 2),
                 At4("bid_depth_change", Instrument1, -2), At4("ask_depth_change", Instrument1, 1),
                 Observe("top_of_book_ofi", Instrument1, {"alpha"}, health,
                         ValueOf("top_of_book_ofi", 1), 4)>> : health \in {"Healthy", "Degraded"}}
DispersionVariants ==
  {<<>>} \cup {<<Observe("cross_venue_median_absolute_dispersion", Asset1, TwoSources, "Healthy",
                         ValueOf("cross_venue_median_absolute_dispersion", 3), e),
                 At4("cross_venue_median_absolute_dispersion", Asset1, 1)>> : e \in {3, 4}}

TriggerInputs ==
  {core \o gate \o a \o b \o outage \o stale :
     core \in Cores, gate \in GateVariants, a \in FlagOf("alpha"), b \in FlagOf("beta"),
     outage \in OutageVariants, stale \in StaleVariants}
  \cup {core \o outage \o stale \o dispersion :
          core \in Cores, outage \in OutageVariants, stale \in StaleVariants,
          dispersion \in DispersionVariants}

Aggregate ==
  /\ record = NotBuilt
  /\ record' = BuildTrigger(MCDefinitions, Canonical, MCTarget, 4, 5, inputs)
  /\ UNCHANGED inputs

-----------------------------------------------------------------------------

ServingInit ==
  /\ FastInit /\ record = NotBuilt
  /\ \/ servingPart \in {"idle", "fast"} /\ inputs = <<>>
     \/ servingPart = "trigger" /\ inputs \in TriggerInputs

ServingNext ==
  /\ UNCHANGED servingPart
  /\ \/ servingPart = "fast" /\ FastNext /\ UNCHANGED triggerVars
     \/ servingPart = "trigger" /\ Aggregate /\ UNCHANGED fastVars

\* build in trigger_state.rs: a record claims a confirmed liquidation pressure only when the gate
\* said so and every target source proved its own liquidations complete within the time to live,
\* and claims any market output at all only when no source of it was lost, disconnected, gapped
\* or unhealthy; a stale book takes the depth output away.
TriggerFailsClosed ==
  (record # NotBuilt /\ record.ok) =>
    LET outputs == record.value.outputs
        Fresh(o) == 4 - o.end <= 3
        Says(id, Value(_)) == {o \in ToSet(inputs) :
                                o.id = id /\ Fresh(o) /\ o.datum.present /\ Value(o.datum.value)}
        lost == \/ Says("source_outage_indicator", LAMBDA v : v) # {}
                \/ \E o \in ToSet(inputs) : \E s \in DOMAIN o.coverage.health :
                     o.coverage.health[s] # "Healthy"
                \/ \E o \in ToSet(inputs) : /\ o.entity.scope = "Source" /\ Fresh(o)
                     /\ ~o.datum.present /\ o.datum.reason \in {"SourceDisconnected", "SequenceGap"}
        market == DOMAIN outputs \ {"FeatureAge"}
    IN /\ lost => /\ record.value.health = "Unavailable"
                  /\ \A f \in market : outputs[f] = Absent
       /\ (\E o \in ToSet(inputs) : o.id = "stale_quote_duration_ns")
            => outputs.DepthDisappearance = Absent
       /\ outputs.LiquidationPressure \notin {Absent, Some(<<"ln_1p", 0>>)} =>
            /\ Says("cascade_eligibility_gate", LAMBDA v : v) # {}
            /\ {o.entity.of[1] : o \in Says("liquidation_source_completeness_flag",
                                            LAMBDA v : v \in {1, 2})} = TwoSources
       /\ record.value.health = "Healthy" => record.value.missingness = {}

-----------------------------------------------------------------------------
(***************************************************************************)
(* Small instances of the cusp model and of the service that publishes it.    *)
(* cuspPart picks, in CuspInit, what a behaviour shows: one control point, one           *)
(* evaluation of the control map, one ablation report, the online engine over      *)
(* successive points, or the snapshot store with a client that pages back.          *)
(***************************************************************************)

CONSTANTS MaxUpdates, MaxPublished, NotChosen

VARIABLES cuspPart,
          subject,                       \* the input of a pure cuspPart
          engine, snapshot, followed, outcome, updates,     \* the engine
          store, servedGates, page, published               \* the store and its client
engineVars == <<engine, snapshot, followed, outcome, updates>>
storeVars == <<store, servedGates, page, published>>
cuspVars == <<cuspPart, subject, engineVars, storeVars>>

-----------------------------------------------------------------------------
(* Control points, and the fitted map: feature "a" drives alpha and may not be  *)
(* missing, "b" drives beta and may be.                                          *)

Points == {c \in {Controls(a, b) : a \in -20..20, b \in -3..13} : IntegerRooted(c)}

Schema(signA) ==
  [version |-> 1,
   groups |-> << [key |-> "g", penalty |-> 0, sign |-> [Alpha |-> signA, Beta |-> "Any"]] >>,
   features |-> << [key |-> "a", required |-> TRUE, group |-> "g", targets |-> {"Alpha"},
                    center |-> 1, scale |-> 1],
                   [key |-> "b", required |-> FALSE, group |-> "g", targets |-> {"Beta"},
                    center |-> 1, scale |-> 2] >>]
Coefficient(k, c) == [key |-> k, coefficient |-> c]
Linear(intercept, shared, own) ==
  [intercept |-> intercept, shared |-> shared, by_asset |-> own]
Map(signA, alpha, beta) ==
  [version |-> 1, schema |-> Schema(signA), alpha |-> alpha, beta |-> beta,
   normalization_hash |-> 1,
   residual |-> [alpha |-> Whole(1), cross |-> Whole(0), beta |-> Whole(1)]]
Maps ==
  {Map(sign, Linear(0, <<Coefficient("a", c)>>, own), Linear(-1, shared, <<>>)) :
     sign \in {"Any", "NonNegative"}, c \in {-2, 2},
     own \in {<<>>, << [key |-> "BTC", coefficients |-> <<Coefficient("a", -2)>>] >>,
              << [key |-> "BTC", coefficients |-> <<Coefficient("b", 1)>>] >>},
     shared \in {<<Coefficient("b", 4)>>, <<Coefficient("b", 4), Coefficient("b", 2)>>}}
Given(v) == [present |-> TRUE, value |-> v]
Lacking == [present |-> FALSE]
Values(a, b) == << [key |-> "a", datum |-> a], [key |-> "b", datum |-> b] >>
Vectors == {Values(a, b) : a \in {Given(0), Given(1), Given(2), Lacking},
                           b \in {Given(0), Given(1), Given(2), Lacking}}
Matrices == {<<>>, << [order |-> <<"a", "b">>, matrix |-> << <<1, 0>>, <<0, 1>> >>] >>,
             << [order |-> <<"b", "a">>, matrix |-> << <<1, 0>>, <<0, 1>> >>] >>}

-----------------------------------------------------------------------------
(* Ablation reports of three folds, two of which are fixed.                     *)

Fold(i, regime, candidate, baseline, slope, alert) ==
  [id |-> i, named |-> TRUE, regime |-> regime, start |-> 2 * i, end |-> 2 * i + 1,
   observations |-> i, positives |-> 1, episodes |-> 1, candidate |-> candidate,
   baseline |-> baseline, slope |-> slope, intercept |-> 0, calibration_error |-> 0,
   alert_delta |-> alert]
Reports ==
  {[schema_version |-> 1, dataset |-> 1, candidate_model |-> m, baseline_model |-> 2,
    baselines |-> baselines, drift |-> 0, sign_scaling_parity |-> parity,
    numerical_failures |-> 0, attempted_variants |-> 1,
    folds |-> <<Fold(1, "calm", c1, 4, 10, 5), Fold(2, r2, c2, b2, s2, 1),
                Fold(3, "calm", c3, 4, 10, a3)>>] :
     m \in {1, 2}, parity \in BOOLEAN, r2 \in {"calm", "storm"},
     baselines \in {SetToSeq(RequiredBaselines), <<"volatility">>},
     c1 \in {3, 4}, c2 \in {2, 3, 4}, b2 \in {4, 8}, s2 \in {8, 13}, c3 \in {3, 4, 5}, a3 \in {-2, 1}}

-----------------------------------------------------------------------------
(* Engine inputs.                                                              *)

MCFit == [converged |-> TRUE, dataset |-> 1, fold |-> 1, parameters |-> <<2, 4>>,
          map |-> Map("Any", Linear(0, <<Coefficient("a", 2)>>, <<>>),
                      Linear(1, <<Coefficient("b", 4)>>, <<>>))]
MCParameters == [count |-> 2, dataset |-> 1, fold |-> 1, mode |-> <<2, 4>>,
                 quality |-> "ProductionCandidate", digest |-> 1, laplace |-> 1]
MCProduction == [score |-> 2, coverage |-> 2, states |-> {"healthy"}]
MCResearch == [score |-> 1, coverage |-> 1, states |-> {"healthy", "degraded"}]
MCPolicy == [improved_fraction_minimum |-> 7, positive_events_minimum |-> 2,
             episodes_minimum |-> 2, regimes_minimum |-> 2, slope_minimum |-> 8,
             slope_maximum |-> 12, intercept_maximum |-> 1, calibration_error_maximum |-> 1,
             drift_maximum |-> 20, recent_skill_minimum |-> -1]
MCTransition == <<1, 8>>
MCSwitch == <<3, 4>>

Quality(score, state) == [score |-> score, coverage |-> score, state |-> state]
Good == Quality(2, "healthy")
Drawn == {<<Controls(0, 1), Controls(0, 1)>>, <<Controls(2, -1), Controls(2, -1)>>,
          <<Controls(-2, -1), Controls(-2, -1)>>, <<Controls(0, -1), Controls(0, 0)>>,
          <<Controls(2, 3), Controls(0, 1)>>, <<Controls(-2, 3), Controls(2, -1)>>}
Likelihoods == {[Lower |-> Whole(1), Upper |-> Whole(4)],
                [Lower |-> Whole(9), Upper |-> Whole(1)]}
Input(as_of, quality, values, covariance, drawn, likelihood) ==
  [as_of |-> as_of, asset |-> "BTC", quality |-> quality, values |-> values,
   covariance |-> covariance, drawn |-> drawn, likelihood |-> likelihood]
Identity == << [order |-> <<"a", "b">>, matrix |-> << <<1, 0>>, <<0, 1>> >>] >>
Whole2 == Values(Given(1), Given(1))
EngineInputsAt(as_of) ==
       {Input(as_of, Good, Whole2, Identity, d, l) : d \in Drawn, l \in Likelihoods}
  \cup {Input(as_of, q, v, <<>>, <<Controls(0, 1), Controls(0, 1)>>,
              [Lower |-> Whole(1), Upper |-> Whole(4)]) :
          q \in {Quality(1, "degraded"), Quality(1, "unhealthy")},
          v \in {Whole2, Values(Given(1), Lacking), Values(Lacking, Given(1))}}
EngineTimes == {5, 7, 10, 15}

Update(given) ==
  /\ updates < MaxUpdates
  /\ \E answer \in {EngineUpdate(engine, given)} :
     /\ updates' = updates + 1
     /\ IF answer.ok
        THEN /\ engine' = answer.value.engine
             /\ snapshot' = answer.value.snapshot
             /\ followed' = IF snapshot'.branch = NoBranch THEN followed ELSE snapshot'.branch
             /\ outcome' = "Ok"
        ELSE /\ outcome' = answer.error
             /\ UNCHANGED <<engine, snapshot, followed>>
     /\ UNCHANGED <<cuspPart, subject, storeVars>>

-----------------------------------------------------------------------------
(* The store: two assets with room for three records, two models, and a client  *)
(* that pages back through asset 1.                                              *)

Snapshots ==
       {[asset |-> a, as_of |-> t, model |-> m, evidence |-> 100 * a + 10 * t + m, state |-> "healthy",
    availability |-> "ResearchAvailable", reason |-> "none", structural |-> TRUE,
    lower |-> Frac(1, 16), full_coverage |-> TRUE,
    missing_optional |-> FALSE, uncertainty |-> "ProductionCandidate"] :
     a \in {1, 2}, t \in 1..4, m \in {1, 2}}
  \cup {[asset |-> 1, as_of |-> 4, model |-> 1, evidence |-> 1, state |-> "quarantined",
         availability |-> "Unavailable", reason |-> "quality_rejected", structural |-> FALSE,
         lower |-> <<>>, full_coverage |-> FALSE, missing_optional |-> FALSE,
         uncertainty |-> "Experimental"]}
Gates == {[candidate_model |-> m, evidence |-> e,
           decision |-> IF e = 1 THEN "EligibleForProductionWeight" ELSE "ResearchOnly"] :
            m \in {1, 2}, e \in {1, 2}}

NoPage == [cursor |-> 0, seen |-> <<>>, newest |-> 0, done |-> FALSE]

PublishSnapshot(s, gate) ==
  /\ published < MaxPublished
  /\ \E answer \in {Publish(store, s, gate)} :
     /\ answer.ok
     /\ store' = answer.value
     /\ servedGates' = servedGates \union {<<s.model, gate.evidence>>}
     /\ published' = published + 1
     /\ UNCHANGED <<cuspPart, subject, page, engineVars>>

\* The client asks for the page before the oldest record it has.
FetchPage(limit) ==
  LET records == history_records(store, 1, limit, page.cursor).value
      times == [i \in DOMAIN records |-> records[i].as_of]
  IN /\ ~page.done
     /\ page' = IF records = <<>> THEN [page EXCEPT !.done = TRUE]
                ELSE [cursor |-> times[1], seen |-> times \o page.seen, done |-> FALSE,
                      newest |-> IF page.newest = 0 THEN Last(times) ELSE page.newest]
     /\ UNCHANGED <<cuspPart, subject, store, servedGates, published, engineVars>>

-----------------------------------------------------------------------------

SubjectsOf(p) ==
  CASE p = "point" -> Points
    [] p = "map" -> {[map |-> m, asset |-> a, values |-> v, covariance |-> c] :
                       m \in Maps, a \in {"BTC", "ETH"}, v \in Vectors, c \in Matrices}
    [] p = "report" -> Reports
    [] OTHER -> {NotChosen}

CuspParts == {"point", "map", "report", "engine", "store"}

CuspInit ==
  /\ ConfigOk /\ EngineError = "Ok"
  /\ cuspPart \in {"idle"} \cup CuspParts
  /\ subject \in SubjectsOf(cuspPart)
  /\ engine \in IF cuspPart = "engine" THEN {NewEngine(b) : b \in {"Lower", NoBranch}}
                ELSE {NewEngine(NoBranch)}
  /\ snapshot = [posterior |-> engine.tracker, as_of |-> 0]
  /\ followed = engine.tracker.most_likely
  /\ outcome = "Ok" /\ updates = 0
  /\ store = EmptyStore /\ servedGates = {} /\ page = NoPage /\ published = 0

CuspNext ==
  \/ cuspPart = "engine" /\ \E t \in EngineTimes : \E i \in EngineInputsAt(t) : Update(i)
  \/ cuspPart = "store" /\ \E s \in Snapshots, g \in Gates : PublishSnapshot(s, g)
  \/ cuspPart = "store" /\ \E limit \in {1, 2} : FetchPage(limit)

-----------------------------------------------------------------------------
(* Properties.                                                                 *)

\* Structure, map and gate compute what they stand for.  Every control point has the
\* topology of its discriminant, barriers that are differences of the potential although they
\* are computed from root gaps (barrier.rs), and a branch observation the tracker accepts.  A
\* validated map gives an asset only coefficients its features permit, whichever list they come
\* from, and reads a missing optional feature as its training centre (controls.rs).  An
\* eligible model beats the baseline on the whole test set and in the required share of folds
\* and regimes exactly, whatever the rounding to parts per million does (ablation.rs).
PointExact(c) ==
  LET e == analyze_equilibria(c).value
  IN /\ analyze_equilibria(c).ok
     /\ (e.topology = "ThreeBranches") = inside_cusp(c)
     /\ (e.topology \in {"Fold", "Critical"}) = (\E s \in -3..3 : c = fold_point(s))
     /\ \A i \in DOMAIN e.barriers :
          /\ e.barriers[i].height = Potential4(e.barriers[i].unstable, c)
                                    - Potential4(e.barriers[i].stable, c)
          /\ e.barriers[i].height > 0
     /\ branch_observation(e).ok
     /\ \A b \in Branches : Cardinality({s \in branch_states(e, NoBranch) : s.branch = b}) <= 1

ControlsOf(answer) == <<answer.value.alpha, answer.value.beta>>
Filled(case) ==
  [i \in DOMAIN case.values |->
     IF case.values[i].datum.present THEN case.values[i]
     ELSE [case.values[i] EXCEPT !.datum = Given(case.map.schema.features[i].center)]]
AnswerExact(case, answer) ==
  answer.ok => ControlsOf(answer) = ControlsOf(evaluate_detailed(case.map, case.asset, Filled(case), <<>>))
MapExact(case) ==
  MapError(case.map) = "Ok" =>
    /\ \A i \in DOMAIN case.map.schema.features :
         LET f == case.map.schema.features[i]
             c == coefficient(case.map.alpha, case.asset, f.key)
         IN /\ c # 0 => "Alpha" \in f.targets
            /\ SignPermits(case.map.schema.groups[1].sign["Alpha"], c)
    /\ AnswerExact(case, evaluate_detailed(case.map, case.asset, case.values, case.covariance))

GateExact(report) ==
  LET folds == report.folds
      better == SelectSeq(folds, improved)
  IN (AblationReport(report).ok
        /\ EvaluateGate(report).decision = "EligibleForProductionWeight") =>
       /\ FoldTotal(folds, LAMBDA f : f.candidate * f.observations)
            < FoldTotal(folds, LAMBDA f : f.baseline * f.observations)
       /\ Len(better) * PartsPer >= Len(folds) * Policy.improved_fraction_minimum
       /\ Cardinality({f.regime : f \in Range(better)}) >= Policy.regimes_minimum
       /\ FoldTotal(folds, LAMBDA f : f.alert_delta * f.observations) > 0

CuspAlgorithmsExact ==
  CASE cuspPart = "point" -> PointExact(subject)
    [] cuspPart = "map" -> MapExact(subject)
    [] cuspPart = "report" -> GateExact(subject)
    [] OTHER -> TRUE

\* Online, the filter never runs out of branches: as long as a branch may be left, whatever
\* roots the samples show, an update is refused only for its time.  And the snapshots of one
\* engine form a chain: strictly later on the cadence, each starting from the tracker the one
\* before ended with, through unavailable points and refused updates, and announcing a jump
\* exactly when the branch differs from the last one followed (online.rs, branch_tracker.rs).
EngineFollows ==
  [][/\ outcome' \in {"Ok", "Cadence"}
     /\ snapshot' # snapshot =>
          /\ snapshot'.prior = snapshot.posterior
          /\ snapshot'.as_of > snapshot.as_of /\ snapshot'.as_of % Cadence = 0
          /\ snapshot'.branch # NoBranch =>
               /\ FAdd(snapshot'.probability["Lower"], snapshot'.probability["Upper"]) = Whole(1)
               /\ FPositive(snapshot'.probability[snapshot'.branch])
               /\ (snapshot'.hysteresis \in {"JumpedLowerToUpper", "JumpedUpperToLower"})
                    = (followed \notin {NoBranch, snapshot'.branch})]_engineVars

\* A model is served under one gate evidence, also after its records are evicted; histories
\* stay within every capacity and strictly increasing, and the two wire probabilities add up.
\* A client that pages back while snapshots are published and evicted sees no record twice,
\* and at the end has seen every record older than where it started that is still kept
\* (cusp_service.rs).
ServedConsistently ==
  /\ \A g, h \in servedGates : g[1] = h[1] => g = h
  /\ TotalRecords(store) <= RecordCapacity
  /\ \A a \in DOMAIN store.records :
       LET history == store.records[a]
       IN /\ Len(history) \in 1..CapacityPerAsset
          /\ \A i \in 1..(Len(history) - 1) : history[i].as_of < history[i + 1].as_of
          /\ \A i \in DOMAIN history :
               LET p == history[i].state.branch_probabilities
               IN p # <<>> => p[1] + p[2] = PartsPerUnit
          /\ \A r \in Range(history) : r.as_of <= current_record(store, a).as_of
  /\ \A i \in 1..(Len(page.seen) - 1) : page.seen[i] < page.seen[i + 1]
  /\ page.done => \A r \in Range(HistoryOf(store, 1)) :
                    r.as_of <= page.newest => r.as_of \in Range(page.seen)

-----------------------------------------------------------------------------
(***************************************************************************)
(* The platform's pure computations on bounded inputs.  A behaviour picks a   *)
(* platformPart and a sample, and evaluates it once.                                   *)
(***************************************************************************)

VARIABLES platformPart, sample, evaluated

platformVars == <<platformPart, sample, evaluated>>

-----------------------------------------------------------------------------
(* Events: samples are generated from the layouts.                             *)

FieldsOf(layout) == {layout[i][1] : i \in DOMAIN layout}
TypeOf(layout, f) == layout[CHOOSE i \in DOMAIN layout : layout[i][1] = f][2]

RECURSIVE BaseOf(_)
BaseOf(type) ==
  CASE type[1] \in {"fixed", "decimal"} -> 1
    [] type[1] = "text" -> <<97>>
    [] type[1] \in {"optional", "sequence"} -> <<BaseOf(type[2])>>
    [] type[1] = "record" -> [f \in FieldsOf(type[2]) |-> BaseOf(TypeOf(type[2], f))]

RECURSIVE ValuesOf(_)
ValuesOf(type) ==
  CASE type[1] = "fixed" -> {0, 1, 2}
    [] type[1] = "decimal" -> {0, 1, 12}
    [] type[1] = "text" -> {<<97>>, <<97, 1>>}
    [] type[1] = "optional" -> {<<>>} \cup {<<v>> : v \in ValuesOf(type[2])}
    [] type[1] = "sequence" ->
         LET b == BaseOf(type[2]) IN {<<>>} \cup {<<v>> : v \in ValuesOf(type[2])} \cup {<<b, b>>}
    [] type[1] = "record" ->
         UNION {{[BaseOf(type) EXCEPT ![f] = v] : v \in ValuesOf(TypeOf(type[2], f))} :
                  f \in FieldsOf(type[2])}

\* The values of a layout that differ from the base in at most two adjacent fields.
Adjacent(layout) ==
  UNION {{[BaseOf(RecordOf(layout)) EXCEPT ![layout[i][1]] = v, ![layout[i + 1][1]] = w] :
            v \in ValuesOf(layout[i][2]), w \in ValuesOf(layout[i + 1][2])} :
         i \in 1 .. Len(layout) - 1}

Kinds == DOMAIN Layouts

\* The payloads of a kind.
PayloadsOf == [kind \in Kinds |->
  IF kind = "InstrumentDefinition"
  THEN {[kind |-> kind, definition |-> d] : d \in Adjacent(DefinitionLayout)}
  ELSE {[kind |-> kind] @@ p : p \in Adjacent(Layouts[kind][2])}]

SnapshotKindOf(kind) ==
  CASE kind = "BookSnapshot" -> "Snapshot" [] kind = "BookDelta" -> "Delta" [] OTHER -> "NotApplicable"

\* Metadata that fits a payload, received at time 2 of a session that began at 1.
MetadataFor(version, p) ==
  [schema_version |-> version, source |-> BaseOf(SourceType), venue |-> << <<97>> >>,
   instrument |-> IF p.kind = "InstrumentDefinition" THEN <<InstrumentOf(p.definition)>>
                  ELSE <<[venue |-> <<97>>, venue_symbol |-> <<98>>, generation |-> 1,
                          product_type |-> IF version < 3 THEN Spot ELSE 1]>>,
   exchange_timestamp |-> <<1>>, transaction_timestamp |-> <<>>, receive_wall |-> 2,
   normalization |-> 2, connection_started |-> 1, sequence |-> <<1>>, previous |-> <<0>>,
   connection_epoch |-> 1, subscription_epoch |-> 1, snapshot_kind |-> SnapshotKindOf(p.kind),
   source_checksum |-> <<>>, raw_payload_hash |-> 1, parser_version |-> <<98>>,
   normalizer_version |-> <<98>>, ingestion_instance |-> <<98>>, quality_score |-> MaxPpm]

\* What the documentation of canonical_event_id_unchecked says an identity includes.
SourceEvent(m, p) ==
  [version |-> m.schema_version, source |-> m.source, venue |-> m.venue,
   instrument |-> IF m.schema_version >= 3 THEN m.instrument
                  ELSE [i \in DOMAIN m.instrument |-> [m.instrument[i] EXCEPT !.product_type = Spot]],
   event_time |-> m.exchange_timestamp, transaction_time |-> m.transaction_timestamp,
   sequence |-> m.sequence, previous |-> IF m.schema_version >= 2 THEN m.previous ELSE <<>>,
   payload |-> p]

\* The same event recorded at another time, by another release, or with other evidence.
LocalChanges(m) ==
  {[m EXCEPT !.receive_wall = 3, !.normalization = 4], [m EXCEPT !.normalization = 1],
   [m EXCEPT !.connection_epoch = 2], [m EXCEPT !.parser_version = <<99>>],
   [m EXCEPT !.raw_payload_hash = 2], [m EXCEPT !.quality_score = 0]}

\* Another event of the source.
SourceChanges(m) ==
  {[m EXCEPT !.source.generation = 2], [m EXCEPT !.exchange_timestamp = <<>>],
   [m EXCEPT !.exchange_timestamp = <<>>, !.transaction_timestamp = <<1>>],
   [m EXCEPT !.sequence = <<2>>], [m EXCEPT !.previous = <<>>], [m EXCEPT !.schema_version = 2],
   [m EXCEPT !.instrument = [i \in DOMAIN @ |-> [@[i] EXCEPT !.product_type = 2]]]}

\* The events the identity platformPart compares: every pair of adjacent fields of one kind, and every
\* change of the metadata.
EventsOf(kind, version) ==
  LET payloads == PayloadsOf[kind]
      one == CHOOSE p \in payloads : EventError(MetadataFor(version, p), p) = "Ok"
  IN {<<MetadataFor(version, p), p>> : p \in payloads}
     \cup {<<m, one>> : m \in SourceChanges(MetadataFor(version, one))
                              \cup LocalChanges(MetadataFor(version, one))}

\* The records a reader may be handed for an event: as written, with another type or identity, or
\* with the metadata or the payload of another event.
WiresOf(envelope) ==
  {envelope, [envelope EXCEPT !.event_type = "Unknown"], [envelope EXCEPT !.id = <<0>>]}
  \cup {[envelope EXCEPT !.metadata = m] : m \in LocalChanges(envelope.metadata)
                                              \cup SourceChanges(envelope.metadata)}
  \cup {[envelope EXCEPT !.payload = q] : q \in PayloadsOf[envelope.payload.kind]}

ValidEvents(kind, version) ==
  {p \in PayloadsOf[kind] : EventError(MetadataFor(version, p), p) = "Ok"}

IdentityInit ==
  /\ platformPart = "identity"
  /\ \E kind \in Kinds, version \in 1 .. 3 :
       /\ kind = "InstrumentDefinition" => version = 3
       /\ sample = [kind |-> kind, version |-> version]
  /\ evaluated = <<>>

\* Count the identities and the source events.
EvaluateIdentity ==
  /\ platformPart = "identity" /\ evaluated = <<>>
  /\ \E events \in {EventsOf(sample.kind, sample.version)} :
       evaluated' = <<[ids |-> Cardinality({canonical_event_id_unchecked(e[1], e[2]) : e \in events}),
                       events |-> Cardinality({SourceEvent(e[1], e[2]) : e \in events})]>>
  /\ UNCHANGED <<platformPart, sample>>

WireInit ==
  /\ platformPart = "wire"
  /\ \E kind \in Kinds, version \in {1, 3} :
       /\ kind = "InstrumentDefinition" => version = 3
       /\ \E p \in {CHOOSE p \in ValidEvents(kind, version) : TRUE} :
          \E new \in {NewEnvelope(MetadataFor(version, p), p)} :
          \E wire \in WiresOf(new.value) : sample = [envelope |-> new.value, wire |-> wire]
  /\ evaluated = <<>>

EvaluateWire ==
  /\ platformPart = "wire" /\ evaluated = <<>>
  /\ evaluated' = <<from_json_slice(sample.wire)>>
  /\ UNCHANGED <<platformPart, sample>>

-----------------------------------------------------------------------------
PlatformInit ==
  \/ platformPart = "idle" /\ sample = <<>> /\ evaluated = <<>>
  \/ IdentityInit \/ WireInit
PlatformNext == EvaluateIdentity \/ EvaluateWire

-----------------------------------------------------------------------------

\* Two events have the same canonical identity only when they are the same source event: no two
\* values of neighbouring fields, of any of the 22 kinds, encode to the same bytes.
IdentitiesDistinct ==
  platformPart = "identity" /\ evaluated # <<>> => evaluated[1].ids = evaluated[1].events

\* A stored record is read back exactly when it is valid and still is the source event it was
\* written as, with whatever local evidence; a changed identity, type or source field is refused.
WireExact ==
  (platformPart = "wire" /\ evaluated # <<>>) =>
    LET written == sample.envelope  wire == sample.wire
        valid == EventError(wire.metadata, wire.payload) = "Ok"
                 /\ WireSize(wire.metadata, wire.payload) <= MaxWire
        same == /\ SourceEvent(wire.metadata, wire.payload) = SourceEvent(written.metadata, written.payload)
                /\ wire.id = written.id /\ wire.event_type = written.event_type
    IN /\ evaluated[1].ok <=> (valid /\ same)
       /\ evaluated[1].ok => evaluated[1].value = wire /\ verify(evaluated[1].value)

\* The identity that event-envelope gives an event and the one it checks when the event is read
\* back agree on what an event is: the source event, with nothing of it left out.
EventIdentityExact == IdentitiesDistinct /\ WireExact

-----------------------------------------------------------------------------
vars == <<servingVars, cuspVars, microVars, platformVars>>

Init ==
  /\ \/ servingPart \in {"fast", "trigger"} /\ cuspPart = "idle" /\ microPart = "idle" /\ platformPart = "idle"
     \/ servingPart = "idle" /\ cuspPart \in CuspParts /\ microPart = "idle" /\ platformPart = "idle"
     \/ servingPart = "idle" /\ cuspPart = "idle" /\ microPart \in MicroParts /\ platformPart = "idle"
     \/ servingPart = "idle" /\ cuspPart = "idle" /\ microPart = "idle" /\ platformPart \in {"identity", "wire"}
  /\ ServingInit /\ CuspInit /\ MicroInit /\ PlatformInit

Next ==
  \/ ServingNext /\ UNCHANGED <<cuspVars, microVars, platformVars>>
  \/ CuspNext /\ UNCHANGED <<servingVars, microVars, platformVars>>
  \/ MicroNext /\ UNCHANGED <<servingVars, cuspVars, platformVars>>
  \/ PlatformNext /\ UNCHANGED <<servingVars, cuspVars, microVars>>

Spec == Init /\ [][Next]_vars

\* The pure computations agree with their reference definitions: the cusp's structure, control map
\* and gate, the microstructure statistics, and the identity and wire form of events.
AlgorithmsExact == CuspAlgorithmsExact /\ MicrostructureExact /\ EventIdentityExact

\* What is served is what was computed: the ticks of the fast state, the latest snapshot forward
\* only, triggers that fail closed, and pages of cusp snapshots that agree with each other.
ServingExact == TicksExact /\ DeliveredForward /\ TriggerFailsClosed /\ ServedConsistently
=============================================================================
