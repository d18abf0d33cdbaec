----------------------------- MODULE BookMetrics -----------------------------
(***************************************************************************)
(* crates/feature-engine/src/features/orderbook.rs: the evidence that binds  *)
(* a book to the event it came from, and the analytical features of a        *)
(* trusted book.  A Price or Quantity is an integer count of units, an        *)
(* Option<T> is <<>> or <<t>>, a digest is the value that is hashed.          *)
(***************************************************************************)
EXTENDS Results, FiniteSets, FiniteSetsExt

BASIS_POINTS_DENOMINATOR == 10000
MAX_DEPTH_BAND_BPS == 10000
MAX_BOOK_SHAPE_LEVELS == 256
MAX_RECOVERY_OBSERVATIONS == 4096
L2_UNAVAILABLE_AFTER_MS == 3000

\* Sums over a sequence of integers, and the running state of an early-exit loop.
Total(s) == FoldLeft(LAMBDA x, y : x + y, 0, s)
SumOf(s, F(_)) == Total([i \in DOMAIN s |-> F(s[i])])
Prefix(s, n) == SubSeq(s, 1, n)

\* The first index whose element satisfies P, as an Option.
FirstIndex(s, P(_)) == LET hits == {i \in DOMAIN s : P(s[i])} IN IF hits = {} THEN <<>> ELSE <<Min(hits)>>
LastIndex(s, P(_)) == LET hits == {i \in DOMAIN s : P(s[i])} IN IF hits = {} THEN <<>> ELSE <<Max(hits)>>

-----------------------------------------------------------------------------
(* Evidence                                                                    *)

valid_policy_id(id) == id # ""

\* The exchange's own time of an event: the transaction time, else the message time.
EventTime(metadata) ==
  IF metadata.transaction_time # <<>> THEN metadata.transaction_time ELSE metadata.exchange_time

FromVenue(source, instrument) == source.kind = "Exchange" /\ source.name = instrument.venue

\* Every value of a snapshot view is hashed: the digest is the view itself.
book_state_digest(book) == book

InstrumentDefinitionEvidence(event) ==
  LET m == event.metadata  time == EventTime(m)
  IN Checked(<< <<~event.verified, "UntrustedInput">>,
                <<event.kind # "InstrumentDefinition", "InvalidInput">>,
                <<m.instrument # <<event.definition.id>> \/ ~FromVenue(m.source, event.definition.id),
                  "UntrustedInput">>,
                <<time = <<>>, "InvalidInput">>,
                <<time # <<>> /\ m.normalization_time < Head(time \o <<0>>), "FutureKnowledge">> >>,
             [definition |-> event.definition, source |-> m.source,
              as_known_at |-> m.normalization_time, lineage |-> event.id,
              quality |-> m.quality_score_ppm])

definition_matches(evidence, book, book_event_time) ==
  /\ evidence.definition.id = book.instrument
  /\ evidence.definition.price_tick = book.price_tick
  /\ evidence.definition.quantity_step = book.quantity_step
  /\ evidence.definition.listing_time <= book_event_time
  /\ \A delisting \in Range(evidence.definition.delisting_time) : book_event_time < delisting

\* Mutant: the levels of a snapshot event are not compared with the book.
BookMismatchIgnored(book, event) == FALSE

SnapshotMismatch(book, event) == event.bids # book.bids \/ event.asks # book.asks

try_from_authenticated_state(book, event, applied_event_receipt) ==
  LET m == event.metadata  time == EventTime(m)
  IN Checked(<< <<~event.verified, "UntrustedInput">>,
                <<m.instrument # <<book.instrument>>, "MixedEntity">>,
                <<~FromVenue(m.source, book.instrument), "UntrustedInput">>,
                <<event.kind = "BookSnapshot" /\ SnapshotMismatch(book, event), "UntrustedInput">>,
                <<event.kind = "BookDelta" /\ ~applied_event_receipt, "SourceNotSupported">>,
                <<event.kind \notin {"BookSnapshot", "BookDelta"}, "InvalidInput">>,
                <<\/ m.connection_epoch # book.session.connection_epoch
                  \/ m.subscription_epoch # book.session.subscription_epoch
                  \/ m.sequence_number # <<book.last_source_sequence>>
                  \/ event.last_sequence # book.last_source_sequence, "SequenceGap">>,
                <<m.receive_monotonic_ns # book.updated_monotonic_ns, "UntrustedInput">>,
                <<time = <<>>, "InvalidInput">>,
                <<time # <<>> /\ m.normalization_time < Head(time \o <<0>>), "FutureKnowledge">> >>,
             [source |-> m.source, session |-> book.session,
              last_source_sequence |-> book.last_source_sequence, event_time |-> Head(time \o <<0>>),
              as_known_at |-> m.normalization_time, lineage |-> event.id,
              instrument_definition_lineage |-> <<>>,
              quality |-> Min({m.quality_score_ppm, book.quality.quality_score_ppm}),
              state_digest |-> book_state_digest(book)])

try_from_event(book, event) == try_from_authenticated_state(book, event, FALSE)

try_from_apply_receipt(receipt, event) ==
  IF receipt.event_id # event.id THEN Fail("UntrustedInput")
  ELSE try_from_authenticated_state(receipt.snapshot, event, TRUE)

with_instrument_definition(evidence, definition, book) ==
  IF \/ definition.source # evidence.source
     \/ definition.lineage = evidence.lineage
     \/ ~definition_matches(definition, book, evidence.event_time)
  THEN Fail("UntrustedInput")
  ELSE Done([evidence EXCEPT !.as_known_at = Max({@, definition.as_known_at}),
                             !.quality = Min({@, definition.quality}),
                             !.instrument_definition_lineage = <<definition.lineage>>])

try_from_event_with_definition(book, event, definition) ==
  Then(try_from_event(book, event), LAMBDA e : with_instrument_definition(e, definition, book))

try_from_apply_receipt_with_definition(receipt, event, definition) ==
  Then(try_from_apply_receipt(receipt, event),
       LAMBDA e : with_instrument_definition(e, definition, receipt.snapshot))

evidence_matches(evidence, book) ==
  /\ evidence.session = book.session
  /\ evidence.last_source_sequence = book.last_source_sequence
  /\ evidence.state_digest = book_state_digest(book)

BookEvidencePolicy(price_tick, quality, ordering, reference) ==
  IF \E p \in {quality, ordering, reference} : p.version = 0 \/ ~valid_policy_id(p.id)
  THEN Fail("InvalidParameter")
  ELSE Done([price_tick |-> price_tick, quality |-> quality, ordering |-> ordering,
             reference |-> reference])

-----------------------------------------------------------------------------
(* Guards and bounds                                                           *)

require_normal_book(book) ==
  Checked(<< <<\/ book.quality.health_state # "Synchronized"
               \/ book.classification # "Normal", "UntrustedInput">>,
             <<book.quality.last_update_age_ms > L2_UNAVAILABLE_AFTER_MS, "Stale">> >>, book)

require_spot_quote_notional(instrument) ==
  IF instrument.product = "Spot" THEN Done(instrument) ELSE Fail("SourceNotSupported")

NormalSpotBook(book) ==
  Then(require_normal_book(book), LAMBDA b : require_spot_quote_notional(b.instrument))

scaled_price_bounds(reference_price, band_bps) ==
  IF band_bps > MAX_DEPTH_BAND_BPS THEN Fail("InvalidParameter")
  ELSE Done([lower |-> reference_price * (BASIS_POINTS_DENOMINATOR - band_bps),
             upper |-> reference_price * (BASIS_POINTS_DENOMINATOR + band_bps)])

scaled_band_bounds(reference_price, band_bps) ==
  IF band_bps = 0 THEN Fail("InvalidParameter")
  ELSE scaled_price_bounds(reference_price, band_bps)

level_notional(level) == level.price * level.quantity
Scaled(level) == level.price * BASIS_POINTS_DENOMINATOR

-----------------------------------------------------------------------------
(* Spread, depth, imbalance, microprice                                        *)

best_bid(book) == book.bids[1]
best_ask(book) == book.asks[1]

spread(book) ==
  Then(require_normal_book(book),
       LAMBDA b : LET absolute == best_ask(b).price - best_bid(b).price
                  IN Done([absolute |-> absolute,
                           relative |-> Frac(2 * absolute, best_ask(b).price + best_bid(b).price)]))

book_quote_age_ms(book) ==
  Then(require_normal_book(book), LAMBDA b : Done(b.quality.last_update_age_ms))

\* The levels summed by a loop that breaks beyond the outer bound and skips before the inner one.
BidsInBand(levels, bounds) ==
  LET out == FirstIndex(levels, LAMBDA l : Scaled(l) < bounds.lower)
      seen == IF out = <<>> THEN levels ELSE Prefix(levels, out[1] - 1)
  IN SelectSeq(seen, LAMBDA l : Scaled(l) <= bounds.upper)

AsksInBand(levels, bounds) ==
  LET out == FirstIndex(levels, LAMBDA l : Scaled(l) > bounds.upper)
      seen == IF out = <<>> THEN levels ELSE Prefix(levels, out[1] - 1)
  IN SelectSeq(seen, LAMBDA l : Scaled(l) >= bounds.lower)

Quantities(levels) == SumOf(levels, LAMBDA l : l.quantity)
Notionals(levels) == SumOf(levels, level_notional)

depth_within_band(book, reference_price, band_bps) ==
  Then(NormalSpotBook(book), LAMBDA i :
    Then(scaled_band_bounds(reference_price, band_bps), LAMBDA bounds :
      LET bids == BidsInBand(book.bids, bounds)
          asks == AsksInBand(book.asks, bounds)
      IN Done([bid_quantity |-> Quantities(bids), ask_quantity |-> Quantities(asks),
               bid_notional |-> Notionals(bids), ask_notional |-> Notionals(asks)])))

\* Mutant: a side that stops inside the band is taken for complete.
fully_observed_shallow(book, reference_price, band_bps) ==
  Then(depth_within_band(book, reference_price, band_bps), LAMBDA depth :
    Done([bid |-> Done(depth.bid_quantity), ask |-> Done(depth.ask_quantity)]))

\* Each side is a result of its own: known only when the book reaches the edge of the band.
fully_observed_depth_within_band(book, reference_price, band_bps) ==
  Then(depth_within_band(book, reference_price, band_bps), LAMBDA depth :
    LET bounds == scaled_band_bounds(reference_price, band_bps).value
    IN Done([bid |-> IF Scaled(Last(book.bids)) <= bounds.lower THEN Done(depth.bid_quantity)
                     ELSE Fail("InsufficientHistory"),
             ask |-> IF Scaled(Last(book.asks)) >= bounds.upper THEN Done(depth.ask_quantity)
                     ELSE Fail("InsufficientHistory")]))

normalized_imbalance(book, reference_price, band_bps) ==
  Then(depth_within_band(book, reference_price, band_bps), LAMBDA d :
    IF d.bid_quantity + d.ask_quantity = 0 THEN Fail("ZeroDenominator")
    ELSE Done(Frac(d.bid_quantity - d.ask_quantity, d.bid_quantity + d.ask_quantity)))

\* The price of each side weighted by a quantity.
InsideAverage(book, bid_weight, ask_weight) ==
  IF bid_weight + ask_weight = 0 THEN Fail("ZeroDenominator")
  ELSE Done(Frac(best_bid(book).price * bid_weight + best_ask(book).price * ask_weight,
                 bid_weight + ask_weight))

microprice(book) ==
  Then(require_normal_book(book), LAMBDA b :
    InsideAverage(b, best_ask(b).quantity, best_bid(b).quantity))

weighted_midpoint(book) ==
  Then(require_normal_book(book), LAMBDA b :
    InsideAverage(b, best_bid(b).quantity, best_ask(b).quantity))

-----------------------------------------------------------------------------
(* Distribution and shape                                                      *)

active_level_counts(book) ==
  Then(require_normal_book(book), LAMBDA b : Done([bid |-> Len(b.bids), ask |-> Len(b.asks)]))

\* The entropy is a function of the weights and of their number; the weights stand for it.
book_distribution(book) ==
  Then(require_normal_book(book), LAMBDA b :
    LET levels == b.bids \o b.asks
        weights == [i \in DOMAIN levels |-> Frac(levels[i].quantity, Quantities(levels))]
    IN IF Len(levels) < 2 THEN Fail("InsufficientHistory")
       ELSE IF Quantities(levels) = 0 THEN Fail("ZeroDenominator")
       ELSE IF \E i \in DOMAIN weights : ~FPositive(weights[i]) THEN Fail("InvalidInput")
       ELSE Done([weights |-> weights, concentration |-> Dot(weights, weights)]))

require_book_shape_level_count(level_count) ==
  IF level_count \in 3 .. MAX_BOOK_SHAPE_LEVELS THEN Done(level_count) ELSE Fail("InvalidParameter")

determinant_3x3(a, b, c, d, e, f, g, h, i) ==
  a * (e * i - f * h) - b * (d * i - f * g) + c * (d * h - e * g)

Ticks(levels, i, descending) ==
  IF descending THEN levels[1].price - levels[i].price ELSE levels[i].price - levels[1].price

CumulativeDepth(levels) == [i \in DOMAIN levels |-> Quantities(Prefix(levels, i))]

\* Least squares of cumulative depth against ticks from the inside, solved by determinants.
fit_side_shape(levels, price_tick, descending) ==
  LET aligned == \A i \in DOMAIN levels :
                   /\ Ticks(levels, i, descending) >= 0
                   /\ Ticks(levels, i, descending) % price_tick = 0
      x == [i \in DOMAIN levels |-> Ticks(levels, i, descending) \div price_tick]
      y == CumulativeDepth(levels)
      Power(n, p) == IF p = 0 THEN 1 ELSE n^p
      S(p, q) == Total([i \in DOMAIN levels |-> Power(x[i], p) * Power(y[i], q)])
      determinant == determinant_3x3(Len(levels), S(1, 0), S(2, 0), S(1, 0), S(2, 0), S(3, 0),
                                     S(2, 0), S(3, 0), S(4, 0))
      slope == determinant_3x3(Len(levels), S(0, 1), S(2, 0), S(1, 0), S(1, 1), S(3, 0),
                               S(2, 0), S(2, 1), S(4, 0))
      quadratic == determinant_3x3(Len(levels), S(1, 0), S(0, 1), S(1, 0), S(2, 0), S(1, 1),
                                   S(2, 0), S(3, 0), S(2, 1))
  IN IF ~aligned THEN Fail("InvalidInput")
     ELSE IF determinant = 0 THEN Fail("ZeroDenominator")
     ELSE Done([slope_at_inside |-> Frac(slope, determinant),
                convexity |-> Frac(2 * quadratic, determinant)])

SideShape(book, levels, price_tick, level_count, descending) ==
  Then(require_normal_book(book), LAMBDA b :
    Then(require_book_shape_level_count(level_count), LAMBDA n :
      IF Len(levels) < n THEN Fail("InsufficientHistory")
      ELSE fit_side_shape(Prefix(levels, n), price_tick, descending)))

bid_book_shape_quadratic(book, price_tick, level_count) ==
  SideShape(book, book.bids, price_tick, level_count, TRUE)
ask_book_shape_quadratic(book, price_tick, level_count) ==
  SideShape(book, book.asks, price_tick, level_count, FALSE)

\* The share of tick intervals between the first and the last level that hold no level.
side_gap_density(levels, price_tick, descending) ==
  LET Distance(i) == IF descending THEN levels[i].price - levels[i + 1].price
                     ELSE levels[i + 1].price - levels[i].price
      pairs == 1 .. Len(levels) - 1
      ticks == [i \in pairs |-> Distance(i) \div price_tick]
  IN IF Len(levels) < 2 THEN Fail("InsufficientHistory")
     ELSE IF \E i \in pairs : Distance(i) % price_tick # 0 \/ Distance(i) <= 0
          THEN Fail("InvalidParameter")
     ELSE Done(Frac(Total([i \in pairs |-> ticks[i] - 1]), Total(ticks)))

bid_level_gap_density(book, price_tick) ==
  Then(require_normal_book(book), LAMBDA b : side_gap_density(b.bids, price_tick, TRUE))
ask_level_gap_density(book, price_tick) ==
  Then(require_normal_book(book), LAMBDA b : side_gap_density(b.asks, price_tick, FALSE))

-----------------------------------------------------------------------------
(* Walls and sweeps                                                            *)

nearest_material_wall(levels, reference_price, material_quote_notional) ==
  LET wall == FirstIndex(levels, LAMBDA l : level_notional(l) >= material_quote_notional)
  IN IF wall = <<>> THEN <<>>
     ELSE <<Frac(Abs(levels[wall[1]].price - reference_price) * BASIS_POINTS_DENOMINATOR,
                 reference_price)>>

liquidity_wall_distance_bps(book, reference_price, material_quote_notional) ==
  Then(NormalSpotBook(book), LAMBDA i :
    IF material_quote_notional <= 0 THEN Fail("InvalidParameter")
    ELSE Done([bid |-> nearest_material_wall(book.bids, reference_price, material_quote_notional),
               ask |-> nearest_material_wall(book.asks, reference_price, material_quote_notional)]))

SweptLevels(book, side) == IF side = "Buy" THEN book.asks ELSE book.bids

\* Mutant: a level the remainder does not exhaust is filled whole in base quantity.
FillLevelWhole(acc, level) ==
  LET quote == Min({acc.remaining, level_notional(level)})
  IN [remaining |-> acc.remaining - quote, base |-> FAdd(acc.base, Whole(level.quantity))]

FillLevel(acc, level) ==
  LET available == level_notional(level)
  IN IF acc.remaining = 0 THEN acc
     ELSE IF acc.remaining >= available
     THEN [remaining |-> acc.remaining - available, base |-> FAdd(acc.base, Whole(level.quantity))]
     ELSE [remaining |-> 0, base |-> FAdd(acc.base, Frac(acc.remaining, level.price))]

expected_sweep_cost(book, side, requested_quote_notional, reference_price) ==
  Then(NormalSpotBook(book), LAMBDA i :
    LET filled == FoldLeft(FillLevel, [remaining |-> requested_quote_notional, base |-> Whole(0)],
                           SweptLevels(book, side))
        average == FDiv(Whole(requested_quote_notional), filled.base)
        ratio == FDiv(average, Whole(reference_price))
    IN IF requested_quote_notional <= 0 THEN Fail("InvalidParameter")
       ELSE IF filled.remaining # 0 THEN Fail("BelowLiquidityThreshold")
       ELSE Done([executed |-> requested_quote_notional, base |-> filled.base,
                  average |-> average,
                  relative_cost |-> IF side = "Buy" THEN FSub(ratio, Whole(1))
                                    ELSE FSub(Whole(1), ratio)]))

maximum_executable_quote_notional(book, side, slippage_limit_bps, reference_price) ==
  Then(NormalSpotBook(book), LAMBDA i :
    Then(scaled_price_bounds(reference_price, slippage_limit_bps), LAMBDA bounds :
      LET levels == SweptLevels(book, side)
          out == FirstIndex(levels, LAMBDA l : IF side = "Buy" THEN Scaled(l) > bounds.upper
                                               ELSE Scaled(l) < bounds.lower)
      IN Done(Notionals(IF out = <<>> THEN levels ELSE Prefix(levels, out[1] - 1)))))

-----------------------------------------------------------------------------
(* Depth observations and recovery after a trade                               *)

metric_from_snapshot(book, policy, reference_price, band_bps, event_time, as_known_at, lineage) ==
  IF as_known_at < event_time \/ lineage = 0 THEN Fail("InvalidInput")
  ELSE Then(depth_within_band(book, reference_price, band_bps), LAMBDA depth :
         Then(spread(book), LAMBDA s :
           Done([instrument |-> book.instrument, session |-> book.session, policy |-> policy,
                 last_source_sequence |-> book.last_source_sequence, event_time |-> event_time,
                 as_known_at |-> as_known_at, lineage |-> lineage,
                 reference_price |-> reference_price, band_bps |-> band_bps,
                 bid_quantity |-> depth.bid_quantity, ask_quantity |-> depth.ask_quantity,
                 absolute_spread |-> s.absolute, authenticated |-> FALSE])))

metric_from_authenticated(book, policy, reference_price, band_bps, evidence) ==
  IF ~evidence_matches(evidence, book) THEN Fail("UntrustedInput")
  ELSE Then(metric_from_snapshot(book, policy, reference_price, band_bps, evidence.event_time,
                                 evidence.as_known_at, evidence.lineage),
            LAMBDA o : Done([o EXCEPT !.authenticated = TRUE]))

PairError(previous, current) ==
  FirstError(<< <<previous.instrument # current.instrument, "MixedEntity">>,
                <<\/ previous.session # current.session
                  \/ previous.policy # current.policy
                  \/ previous.reference_price # current.reference_price
                  \/ previous.band_bps # current.band_bps, "SourceHealthChanged">>,
                <<\/ current.last_source_sequence <= previous.last_source_sequence
                  \/ current.event_time < previous.event_time
                  \/ current.as_known_at < previous.as_known_at, "NonMonotonicTime">>,
                <<current.lineage = previous.lineage, "DuplicateLineage">> >>)

book_depth_and_spread_change(previous, current) ==
  IF PairError(previous, current) # "Ok" THEN Fail(PairError(previous, current))
  ELSE Done([bid_quantity |-> current.bid_quantity - previous.bid_quantity,
             ask_quantity |-> current.ask_quantity - previous.ask_quantity,
             absolute_spread |-> current.absolute_spread - previous.absolute_spread])

\* The side of the book an aggressor consumes.
passive_depth(observation, side) ==
  IF side = "Buy" THEN observation.ask_quantity ELSE observation.bid_quantity

RecoveryEpisode(pre, post, trade, evaluation_time, max_anchor_lag_ns) ==
  LET loss == passive_depth(pre, trade.side) - passive_depth(post, trade.side)
  IN Checked(<< <<max_anchor_lag_ns = 0, "InvalidParameter">>,
                Failing(PairError(pre, post)),
                <<trade.instrument # pre.instrument, "MixedEntity">>,
                <<pre.event_time > trade.event_time \/ trade.event_time > post.event_time,
                  "NonMonotonicTime">>,
                <<\E o \in {pre, post} : o.as_known_at > evaluation_time, "FutureKnowledge">>,
                <<trade.as_known_at > evaluation_time, "FutureKnowledge">>,
                <<trade.lineage \in {pre.lineage, post.lineage}, "DuplicateLineage">>,
                <<\/ trade.event_time - pre.event_time > max_anchor_lag_ns
                  \/ post.event_time - trade.event_time > max_anchor_lag_ns, "OutsideWindow">>,
                <<loss <= 0, "ModelNotApplicable">> >>,
             [pre |-> pre, post |-> post, trade |-> trade, evaluation_time |-> evaluation_time,
              post_depth |-> passive_depth(post, trade.side), loss |-> loss])

EpisodeLineages(episode) == {episode.pre.lineage, episode.post.lineage, episode.trade.lineage}

recovery_fraction(episode, later) ==
  Then(Checked(<< Failing(PairError(episode.post, later)),
                  <<later.as_known_at > episode.evaluation_time, "FutureKnowledge">>,
                  <<later.lineage \in EpisodeLineages(episode), "DuplicateLineage">> >>, later),
       LAMBDA o : Done(Frac(passive_depth(o, episode.trade.side) - episode.post_depth, episode.loss)))

\* The outcome of one turn of the candidate loop: "Next" goes on with the following candidate.
CandidateTurn(episode, candidates, i, numerator, denominator, max_recovery_ns) ==
  LET c == candidates[i]
      previous == IF i = 1 THEN episode.post ELSE candidates[i - 1]
      elapsed == c.event_time - episode.post.event_time
      recovered == passive_depth(c, episode.trade.side) - episode.post_depth
      error == FirstError(<< Failing(PairError(previous, c)),
                             <<c.as_known_at > episode.evaluation_time, "FutureKnowledge">>,
                             <<\/ c.lineage \in EpisodeLineages(episode)
                               \/ \E j \in 1 .. i - 1 : candidates[j].lineage = c.lineage,
                               "DuplicateLineage">> >>)
  IN IF error # "Ok" THEN error
     ELSE IF elapsed > max_recovery_ns THEN "InsufficientHistory"
     ELSE IF recovered * denominator >= episode.loss * numerator THEN "Reached"
     ELSE "Next"

time_to_fraction_ns(episode, candidates, capacity, numerator, denominator, max_recovery_ns) ==
  LET Turn(i) == CandidateTurn(episode, candidates, i, numerator, denominator, max_recovery_ns)
      stops == {i \in DOMAIN candidates : Turn(i) # "Next"}
  IN Then(Checked(<< <<\/ capacity \notin 1 .. MAX_RECOVERY_OBSERVATIONS
                       \/ numerator = 0 \/ denominator = 0 \/ numerator > denominator
                       \/ max_recovery_ns = 0, "InvalidParameter">>,
                     <<candidates = <<>>, "InsufficientHistory">>,
                     <<Len(candidates) > capacity, "CapacityExceeded">> >>, candidates),
          LAMBDA cs : IF stops = {} THEN Fail("InsufficientHistory")
                      ELSE IF Turn(Min(stops)) = "Reached"
                      THEN Done(cs[Min(stops)].event_time - episode.post.event_time)
                      ELSE Fail(Turn(Min(stops))))
=============================================================================
