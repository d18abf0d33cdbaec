------------------------------ MODULE OrderFlow ------------------------------
(***************************************************************************)
(* crates/feature-engine/src/features/orderflow.rs: windows of trades, order *)
(* lifecycle events and quotes that refuse what was not known at the         *)
(* evaluation time, and the flow statistics computed from them.  Time is in   *)
(* model units, Second of them to a second.                                   *)
(***************************************************************************)
EXTENDS BookMetrics

MAX_FLOW_TRADES == 100000
Second == 2

-----------------------------------------------------------------------------
(* Observations                                                                *)

require_order_lifecycle_semantics(semantics) ==
  CASE semantics = "AggregateL2" -> Fail("SourceNotSupported")
    [] semantics = "CertifiedL3" -> Done(semantics)
    [] semantics = "LicenseRestrictedL3" -> Fail("PrivacyOrLicenseRestriction")

LifecycleCapability(schema, certification, license) ==
  IF \E p \in {schema, certification, license} : p.version = 0 \/ ~valid_policy_id(p.id)
  THEN Fail("InvalidParameter")
  ELSE Done([schema |-> schema, certification |-> certification, license |-> license])

LifecycleObservation(input) ==
  IF \/ input.source_sequence = 0
     \/ ~valid_policy_id(input.order_id)
     \/ input.as_known_at < input.event_time
     \/ input.lineage = 0
  THEN Fail("InvalidInput")
  ELSE Done(input)

AggressorAuthority(rule_id, rule_version, inferred) ==
  IF rule_version = 0 \/ ~valid_policy_id(rule_id) THEN Fail("InvalidParameter")
  ELSE Done([rule_id |-> rule_id, rule_version |-> rule_version, inferred |-> inferred])

FlowTradeObservation(instrument, event_time, as_known_at, lineage, price, quantity, side, authority) ==
  IF as_known_at < event_time \/ lineage = 0 \/ quantity = 0 THEN Fail("InvalidInput")
  ELSE Done([instrument |-> instrument, event_time |-> event_time, as_known_at |-> as_known_at,
             lineage |-> lineage, price |-> price, quantity |-> quantity, side |-> side,
             authority |-> authority, authenticated |-> FALSE, source |-> <<>>,
             quality_score_ppm |-> 0])

\* A trade observation from a verified event of the instrument's own venue.
trade_from_authenticated_event(event, authority) ==
  LET m == event.metadata
      time == Head(EventTime(m) \o <<0>>)
      checks == << <<~event.verified, "UntrustedInput">>,
                   <<m.instrument = <<>>, "MixedEntity">>,
                   <<m.instrument # <<>> /\ ~FromVenue(m.source, Head(m.instrument \o <<[venue |-> ""]>>)),
                     "UntrustedInput">>,
                   <<event.kind # "Trade", "InvalidInput">>,
                   <<EventTime(m) = <<>>, "InvalidInput">>,
                   <<m.normalization_time < time, "FutureKnowledge">>,
                   <<event.kind = "Trade" /\ event.side = "Unknown", "SourceNotSupported">> >>
  IN IF FirstError(checks) # "Ok" THEN Fail(FirstError(checks))
     ELSE Then(FlowTradeObservation(m.instrument[1], time, m.normalization_time, event.id,
                                    event.price, event.quantity, event.side, authority),
               LAMBDA o : Done([o EXCEPT !.authenticated = TRUE, !.source = <<m.source>>,
                                         !.quality_score_ppm = m.quality_score_ppm]))

try_from_binance_receipt(receipt) ==
  Then(AggressorAuthority("binance-buyer-maker-inversion", 1, FALSE),
       LAMBDA authority : trade_from_authenticated_event(receipt.event, authority))

-----------------------------------------------------------------------------
(* Windows                                                                     *)

WindowError(capacity, start, end, evaluation_time) ==
  FirstError(<< <<capacity \notin 1 .. MAX_FLOW_TRADES \/ start >= end, "InvalidParameter">>,
                <<evaluation_time < end, "WindowNotFinal">> >>)

\* The errors of every turn of a validation loop, in order: the first one is returned.
TurnErrors(s, Checks(_)) == FlattenSeq([i \in DOMAIN s |-> Checks(i)])

SeenBefore(s, i) == \E j \in 1 .. i - 1 : s[j].lineage = s[i].lineage
Decreases(s, i, T(_)) == i > 1 /\ T(s[i]) < T(s[IF i > 1 THEN i - 1 ELSE i])

LifecycleWindow(input, capacity, start, end, evaluation_time) ==
  LET s == SortSeq(input, LAMBDA a, b : a.source_sequence < b.source_sequence)
      Checks(i) == << <<s[i].instrument # s[1].instrument, "MixedEntity">>,
                      <<s[i].session # s[1].session \/ s[i].capability # s[1].capability,
                        "SourceHealthChanged">>,
                      <<s[i].event_time \notin start .. end - 1, "OutsideWindow">>,
                      <<s[i].as_known_at > evaluation_time, "FutureKnowledge">>,
                      <<SeenBefore(s, i), "DuplicateLineage">>,
                      <<Decreases(s, i, LAMBDA o : o.as_known_at), "NonMonotonicTime">>,
                      <<i > 1 /\ s[i].source_sequence # s[IF i > 1 THEN i - 1 ELSE i].source_sequence + 1,
                        "SequenceGap">>,
                      <<Decreases(s, i, LAMBDA o : o.event_time), "NonMonotonicTime">> >>
      bounds == WindowError(capacity, start, end, evaluation_time)
  IN IF bounds # "Ok" THEN Fail(bounds)
     ELSE IF input = <<>> THEN Fail("InsufficientHistory")
     ELSE IF Len(input) > capacity THEN Fail("CapacityExceeded")
     ELSE Checked(TurnErrors(s, Checks),
                  [observations |-> s, instrument |-> s[1].instrument, session |-> s[1].session,
                   capability |-> s[1].capability, start |-> start, end |-> end,
                   evaluation_time |-> evaluation_time])

lifecycle_observed_empty(instrument, session, capability, capacity, start, end, evaluation_time) ==
  LET bounds == WindowError(capacity, start, end, evaluation_time)
  IN IF bounds # "Ok" THEN Fail(bounds)
     ELSE Done([observations |-> <<>>, instrument |-> instrument, session |-> session,
                capability |-> capability, start |-> start, end |-> end,
                evaluation_time |-> evaluation_time])

ByTimeThenLineage(a, b) ==
  a.event_time < b.event_time \/ (a.event_time = b.event_time /\ a.lineage < b.lineage)

TradeFlowWindow(input, capacity, start, end, evaluation_time) ==
  LET s == SortSeq(input, ByTimeThenLineage)
      Checks(i) == << <<s[i].instrument # s[1].instrument, "MixedEntity">>,
                      <<s[i].event_time \notin start .. end - 1, "OutsideWindow">>,
                      <<s[i].as_known_at > evaluation_time, "FutureKnowledge">>,
                      <<SeenBefore(s, i), "DuplicateLineage">>,
                      <<Decreases(s, i, LAMBDA o : o.as_known_at), "NonMonotonicTime">> >>
      bounds == WindowError(capacity, start, end, evaluation_time)
  IN IF bounds # "Ok" THEN Fail(bounds)
     ELSE IF input = <<>> THEN Fail("InsufficientHistory")
     ELSE IF Len(input) > capacity THEN Fail("CapacityExceeded")
     ELSE Checked(TurnErrors(s, Checks),
                  [observations |-> s, instrument |-> s[1].instrument,
                   authorities |-> {s[i].authority : i \in DOMAIN s}, start |-> start, end |-> end,
                   evaluation_time |-> evaluation_time])

trade_observed_empty(instrument, capacity, start, end, evaluation_time) ==
  LET bounds == WindowError(capacity, start, end, evaluation_time)
  IN IF bounds # "Ok" THEN Fail(bounds)
     ELSE Done([observations |-> <<>>, instrument |-> instrument, authorities |-> {},
                start |-> start, end |-> end, evaluation_time |-> evaluation_time])

window_is_authenticated(window) ==
  /\ window.observations # <<>>
  /\ \A i \in DOMAIN window.observations : window.observations[i].authenticated

window_sources(window) ==
  UNION {Range(window.observations[i].source) : i \in DOMAIN window.observations}

minimum_quality_score_ppm(window) ==
  IF window.observations = <<>> THEN <<>>
  ELSE <<Min({o.quality_score_ppm : o \in Range(window.observations)})>>

maximum_as_known_at(window) ==
  IF window.observations = <<>> THEN <<>>
  ELSE <<Max({o.as_known_at : o \in Range(window.observations)})>>

canonical_evidence_digest(window) ==
  IF ~window_is_authenticated(window) THEN Fail("UntrustedInput")
  ELSE Done(<<window.start, window.end, window.evaluation_time, window.observations>>)

Duration(window) == window.end - window.start
PerSecond(count, window) == Frac(count * Second, Duration(window))

-----------------------------------------------------------------------------
(* Order lifecycle                                                             *)

ActionCount(lifecycle, action) ==
  Len(SelectSeq(lifecycle.observations, LAMBDA o : o.action = action))

certified_lifecycle_rates(lifecycle) ==
  Done([placement |-> PerSecond(ActionCount(lifecycle, "Place"), lifecycle),
        cancellation |-> PerSecond(ActionCount(lifecycle, "Cancel"), lifecycle),
        modification |-> PerSecond(ActionCount(lifecycle, "Modify"), lifecycle)])

\* One message may not be counted both as an order event and as a trade.
validate_lifecycle_trade_pair(lifecycle, trades) ==
  LET s == trades.observations
      orders == {o.lineage : o \in Range(lifecycle.observations)}
      Checks(i) == << <<s[i].instrument # lifecycle.instrument, "MixedEntity">>,
                      <<s[i].event_time \notin lifecycle.start .. lifecycle.end - 1, "OutsideWindow">>,
                      <<s[i].lineage \in orders \/ SeenBefore(s, i), "DuplicateLineage">> >>
  IN FirstError(<< <<lifecycle.evaluation_time # trades.evaluation_time, "SourceHealthChanged">>,
                   <<lifecycle.instrument # trades.instrument, "MixedEntity">>,
                   <<lifecycle.start # trades.start \/ lifecycle.end # trades.end, "OutsideWindow">>
                 >> \o TurnErrors(s, Checks))

certified_lifecycle_ratios(lifecycle, trades) ==
  LET error == validate_lifecycle_trade_pair(lifecycle, trades)
      count == Len(trades.observations)
  IN IF error # "Ok" THEN Fail(error)
     ELSE IF count = 0 THEN Fail("ZeroDenominator")
     ELSE Done([cancellation_to_trade |-> Frac(ActionCount(lifecycle, "Cancel"), count),
                quote_to_trade |-> Frac(Len(lifecycle.observations), count)])

certified_lifecycle_metrics(lifecycle, trades) ==
  Then(certified_lifecycle_rates(lifecycle), LAMBDA rates :
    Then(certified_lifecycle_ratios(lifecycle, trades), LAMBDA ratios :
      Done([rates |-> rates, ratios |-> ratios])))

-----------------------------------------------------------------------------
(* Top of book                                                                 *)

top_from_snapshot(book, policy, event_time, as_known_at, lineage) ==
  Then(require_normal_book(book), LAMBDA b :
    IF as_known_at < event_time \/ lineage = 0 THEN Fail("InvalidInput")
    ELSE Done([instrument |-> b.instrument, session |-> b.session, policy |-> policy,
               last_source_sequence |-> b.last_source_sequence, event_time |-> event_time,
               as_known_at |-> as_known_at, lineage |-> lineage, bid |-> best_bid(b),
               ask |-> best_ask(b), authenticated |-> FALSE]))

top_from_authenticated_snapshot(book, policy, evidence) ==
  IF ~evidence_matches(evidence, book) THEN Fail("UntrustedInput")
  ELSE Then(top_from_snapshot(book, policy, evidence.event_time, evidence.as_known_at,
                              evidence.lineage),
            LAMBDA o : Done([o EXCEPT !.authenticated = TRUE]))

TopOfBookWindow(input, capacity, evaluation_time) ==
  LET s == SortSeq(input, ByTimeThenLineage)
      Checks(i) == << <<s[i].instrument # s[1].instrument, "MixedEntity">>,
                      <<s[i].session # s[1].session \/ s[i].policy # s[1].policy,
                        "SourceHealthChanged">>,
                      <<s[i].as_known_at > evaluation_time, "FutureKnowledge">>,
                      <<SeenBefore(s, i), "DuplicateLineage">>,
                      <<\/ i > 1 /\ s[i].last_source_sequence
                                      <= s[IF i > 1 THEN i - 1 ELSE i].last_source_sequence
                        \/ Decreases(s, i, LAMBDA o : o.as_known_at), "NonMonotonicTime">> >>
  IN IF capacity \notin 1 .. MAX_FLOW_TRADES THEN Fail("InvalidParameter")
     ELSE IF Len(input) < 2 THEN Fail("InsufficientHistory")
     ELSE IF Len(input) > capacity THEN Fail("CapacityExceeded")
     ELSE Checked(TurnErrors(s, Checks), [observations |-> s, evaluation_time |-> evaluation_time])

QuoteOf(observation, side) == IF side = "Bid" THEN observation.bid ELSE observation.ask

top_of_book_staleness_for_side(window, side, as_of_event_time, stale_after_ns) ==
  LET s == window.observations
      changes == {i \in 2 .. Len(s) : QuoteOf(s[i], side) # QuoteOf(s[i - 1], side)}
      age == as_of_event_time - s[Max(changes)].event_time
  IN IF stale_after_ns = 0 THEN Fail("InvalidParameter")
     ELSE IF as_of_event_time \notin Last(s).event_time .. window.evaluation_time
          THEN Fail("FutureKnowledge")
     ELSE IF changes = {} THEN Fail("InsufficientHistory")
     ELSE Done([quote_age |-> age, stale_duration |-> Max({0, age - stale_after_ns})])

top_of_book_side_staleness(window, as_of_event_time, stale_after_ns) ==
  Then(top_of_book_staleness_for_side(window, "Bid", as_of_event_time, stale_after_ns), LAMBDA bid :
    Then(top_of_book_staleness_for_side(window, "Ask", as_of_event_time, stale_after_ns), LAMBDA ask :
      Done([bid |-> bid, ask |-> ask])))

\* Mutant: an unchanged bid adds its whole size instead of the difference.
OfiIncrementUnnetted(previous, current) ==
  (IF current.bid.price >= previous.bid.price THEN current.bid.quantity ELSE 0)
  - (IF current.bid.price < previous.bid.price THEN previous.bid.quantity ELSE 0)
  - (IF current.ask.price <= previous.ask.price THEN current.ask.quantity ELSE 0)
  + (IF current.ask.price >= previous.ask.price THEN previous.ask.quantity ELSE 0)

OfiIncrement(previous, current) ==
  (IF current.bid.price >= previous.bid.price THEN current.bid.quantity ELSE 0)
  - (IF current.bid.price <= previous.bid.price THEN previous.bid.quantity ELSE 0)
  - (IF current.ask.price <= previous.ask.price THEN current.ask.quantity ELSE 0)
  + (IF current.ask.price >= previous.ask.price THEN previous.ask.quantity ELSE 0)

top_of_book_ofi(window) ==
  Total([i \in 1 .. Len(window.observations) - 1 |->
           OfiIncrement(window.observations[i], window.observations[i + 1])])

-----------------------------------------------------------------------------
(***************************************************************************)
(* The statistics of crates/feature-engine/src/features/orderflow.rs over an *)
(* admitted trade window: sums, signed volume, runs, clusters, sweeps, and    *)
(* the response of quotes to a trade shock.                                   *)
(***************************************************************************)

Notional(trade) == trade.price * trade.quantity

OfSide(window, side) == SelectSeq(window.observations, LAMBDA o : o.side = side)

-----------------------------------------------------------------------------
(* Sums                                                                        *)

aggressive_trade_sums(window) ==
  Then(require_spot_quote_notional(window.instrument), LAMBDA i :
    LET buys == OfSide(window, "Buy")  sells == OfSide(window, "Sell")
    IN Done([buy_count |-> Len(buys), sell_count |-> Len(sells),
             buy_quantity |-> Quantities(buys), sell_quantity |-> Quantities(sells),
             buy_notional |-> SumOf(buys, Notional), sell_notional |-> SumOf(sells, Notional),
             inferred_count |-> Len(SelectSeq(window.observations, LAMBDA o : o.authority.inferred))]))

Imbalance(buy, sell) == Frac(buy - sell, buy + sell)

aggressive_trade_imbalances(window) ==
  Then(aggressive_trade_sums(window), LAMBDA s :
    IF \/ s.buy_count + s.sell_count = 0
       \/ s.buy_quantity + s.sell_quantity = 0
       \/ s.buy_notional + s.sell_notional = 0
    THEN Fail("ZeroDenominator")
    ELSE Done([count |-> Imbalance(s.buy_count, s.sell_count),
               quantity |-> Imbalance(s.buy_quantity, s.sell_quantity),
               notional |-> Imbalance(s.buy_notional, s.sell_notional)]))

aggressive_trade_totals(window) ==
  Then(aggressive_trade_sums(window), LAMBDA sums :
    Then(aggressive_trade_imbalances(window), LAMBDA imbalances :
      Done([sums |-> sums, imbalances |-> imbalances])))

trade_intensity_per_second(window) ==
  IF Duration(window) <= 0 THEN Fail("InvalidParameter")
  ELSE Done(PerSecond(Len(window.observations), window))

\* The coefficient of variation is a square root: its square is computed here.
interarrival_coefficient_of_variation(window) ==
  LET s == window.observations
      gaps == [i \in 1 .. Len(s) - 1 |-> Whole(s[i + 1].event_time - s[i].event_time)]
      variance == FDiv(Dot(Centred(gaps), Centred(gaps)), Whole(Len(gaps)))
  IN IF Len(s) < 3 THEN Fail("InsufficientHistory")
     ELSE IF ~FPositive(Mean(gaps)) THEN Fail("ZeroDenominator")
     ELSE Done(FDiv(variance, FSquare(Mean(gaps))))

SignedQuantity(trade) == IF trade.side = "Buy" THEN trade.quantity ELSE -trade.quantity

signed_volume_at_price(window) ==
  LET prices == {o.price : o \in Range(window.observations)}
  IN [p \in prices |-> SumOf(SelectSeq(window.observations, LAMBDA o : o.price = p), SignedQuantity)]

-----------------------------------------------------------------------------
(* Runs and clusters                                                           *)

Joins(acc, trade, gap) ==
  \A previous \in Range(acc.previous_large) : trade.event_time - previous <= gap

\* Mutant: a run that ends is not reset.
RunOf(acc, trade) == IF acc.previous_side \in {<<>>, <<trade.side>>} THEN acc.run + 1 ELSE acc.run

CurrentRun(acc, trade) == IF acc.previous_side = <<trade.side>> THEN acc.run + 1 ELSE 1

ClusterTurn(acc, trade, threshold, gap) ==
  LET run == CurrentRun(acc, trade)
      large == Notional(trade) >= threshold
      cluster == IF acc.previous_large # <<>> /\ Joins(acc, trade, gap) THEN acc.cluster + 1 ELSE 1
      sided == [acc EXCEPT !.run = run, !.previous_side = <<trade.side>>,
                           !.longest = Max({@, run})]
  IN IF ~large THEN sided
     ELSE [sided EXCEPT !.large_count = @ + 1, !.cluster = cluster,
                        !.largest = Max({@, cluster}), !.previous_large = <<trade.event_time>>]

trade_cluster_statistics(window, threshold, gap) ==
  Then(require_spot_quote_notional(window.instrument), LAMBDA i :
    IF threshold <= 0 \/ gap = 0 THEN Fail("InvalidParameter")
    ELSE LET final == FoldLeft(LAMBDA acc, t : ClusterTurn(acc, t, threshold, gap),
                               [run |-> 0, previous_side |-> <<>>, longest |-> 0, large_count |-> 0,
                                cluster |-> 0, largest |-> 0, previous_large |-> <<>>],
                               window.observations)
         IN Done([longest_same_side_run |-> final.longest, largest_cluster |-> final.largest,
                  large_trade_count |-> final.large_count]))

\* Mutant: the cluster that is open when the window ends is dropped.
FinalizeMidway(acc, min_cluster) == acc

finalize_large_cluster(acc, min_cluster) ==
  IF acc.count < min_cluster THEN acc
  ELSE [acc EXCEPT !.cluster_count = @ + 1, !.clustered_count = @ + acc.count,
                   !.clustered_notional = @ + acc.notional]

ActivityTurn(acc, trade, threshold, gap, min_cluster) ==
  LET joins == acc.previous_large # <<>> /\ Joins(acc, trade, gap)
      closed == IF ~joins /\ acc.count > 0
                THEN [finalize_large_cluster(acc, min_cluster) EXCEPT !.count = 0, !.notional = 0]
                ELSE acc
  IN IF Notional(trade) < threshold THEN acc
     ELSE [closed EXCEPT !.count = @ + 1, !.notional = @ + Notional(trade),
                         !.previous_large = <<trade.event_time>>]

large_trade_cluster_activity(window, threshold, gap, min_cluster) ==
  Then(require_spot_quote_notional(window.instrument), LAMBDA i :
    IF threshold <= 0 \/ gap = 0 \/ min_cluster \notin 2 .. MAX_FLOW_TRADES
    THEN Fail("InvalidParameter")
    ELSE LET last == FoldLeft(LAMBDA acc, t : ActivityTurn(acc, t, threshold, gap, min_cluster),
                              [count |-> 0, notional |-> 0, previous_large |-> <<>>,
                               cluster_count |-> 0, clustered_count |-> 0, clustered_notional |-> 0],
                              window.observations)
             final == IF last.count > 0 THEN finalize_large_cluster(last, min_cluster) ELSE last
         IN Done([cluster_count |-> final.cluster_count, clustered_count |-> final.clustered_count,
                  clustered_notional |-> final.clustered_notional,
                  rate |-> PerSecond(final.cluster_count, window)]))

-----------------------------------------------------------------------------
(* Sweeps                                                                      *)

qualifies_trade_print_sweep(episode, min_count, min_distinct, min_notional, equal_price) ==
  /\ Len(episode) >= min_count
  /\ Cardinality({t.price : t \in Range(episode)}) >= min_distinct
  /\ SumOf(episode, Notional) >= min_notional
  /\ \A i \in 1 .. Len(episode) - 1 :
       LET ahead == IF episode[i].side = "Buy" THEN episode[i + 1].price - episode[i].price
                    ELSE episode[i].price - episode[i + 1].price
       IN IF equal_price = "Allow" THEN ahead >= 0 ELSE ahead > 0

SweepContinues(s, index, gap) ==
  /\ index < Len(s)
  /\ s[index + 1].side = s[index].side
  /\ s[index + 1].event_time - s[index].event_time <= gap

\* One turn of the loop: index trades have been seen, the episode began after start.
SweepTurn(acc, s, index, gap, Qualifies(_)) ==
  LET episode == SubSeq(s, acc.start + 1, index)
      counted == Qualifies(episode)
  IN IF SweepContinues(s, index, gap) THEN acc
     ELSE [start |-> index,
           buy |-> acc.buy + IF counted /\ episode[1].side = "Buy" THEN 1 ELSE 0,
           sell |-> acc.sell + IF counted /\ episode[1].side = "Sell" THEN 1 ELSE 0]

trade_print_sweep_direction(window, gap, min_count, min_distinct, min_notional, equal_price) ==
  Then(require_spot_quote_notional(window.instrument), LAMBDA i :
    LET s == window.observations
        Qualifies(e) == qualifies_trade_print_sweep(e, min_count, min_distinct, min_notional, equal_price)
        final == FoldLeft(LAMBDA acc, index : SweepTurn(acc, s, index, gap, Qualifies),
                          [start |-> 0, buy |-> 0, sell |-> 0], [k \in 1 .. Len(s) |-> k])
    IN IF \/ gap = 0 \/ min_notional <= 0
          \/ min_count \notin 2 .. MAX_FLOW_TRADES \/ min_distinct \notin 2 .. MAX_FLOW_TRADES
       THEN Fail("InvalidParameter")
       ELSE IF final.buy + final.sell = 0 THEN Fail("InsufficientHistory")
       ELSE Done([buy_episodes |-> final.buy, sell_episodes |-> final.sell,
                  direction |-> Imbalance(final.buy, final.sell)]))

-----------------------------------------------------------------------------
(* Trade shocks                                                                *)

Realized(trades, threshold) ==
  IF threshold.kind = "QuoteNotional" THEN SumOf(trades, Notional) ELSE Quantities(trades)

\* The shortest same-side prefix that realizes the threshold.
ShockFromPrefix(window, threshold) ==
  Then(require_spot_quote_notional(window.instrument), LAMBDA i :
    LET s == window.observations
        turn == FirstIndex(s, LAMBDA t : t.side # s[1].side)
        run == IF turn = <<>> THEN s ELSE Prefix(s, turn[1] - 1)
        reached == {n \in DOMAIN run : Realized(Prefix(run, n), threshold) >= threshold.value}
        trades == Prefix(run, Min(reached))
    IN IF threshold.value <= 0 THEN Fail("InvalidParameter")
       ELSE IF s = <<>> THEN Fail("InsufficientHistory")
       ELSE IF reached = {} THEN Fail("BelowLiquidityThreshold")
       ELSE Done([instrument |-> s[1].instrument, side |-> s[1].side, threshold |-> threshold,
                  observations |-> trades, start |-> s[1].event_time,
                  end |-> Last(trades).event_time, availability_at |-> Last(trades).as_known_at,
                  evaluation_time |-> window.evaluation_time,
                  base_quantity |-> Quantities(trades), quote_notional |-> SumOf(trades, Notional)]))

midpoint_numerator(observation) == observation.bid.price + observation.ask.price
apply_side_sign(value, side) == IF side = "Buy" THEN value ELSE -value

\* Mutant: the quote before the shock need not have been known when the shock was.
PreEligibleUnknown(quote, shock, max_pre_age) ==
  quote.event_time <= shock.start /\ shock.start - quote.event_time <= max_pre_age

PreEligible(quote, shock, max_pre_age) ==
  /\ quote.event_time <= shock.start
  /\ quote.as_known_at <= shock.availability_at
  /\ shock.start - quote.event_time <= max_pre_age

trade_shock_response(shock, quotes, max_pre_age, horizon, tolerance, weighting) ==
  LET s == quotes.observations
      pre == LastIndex(s, LAMBDA q : PreEligible(q, shock, max_pre_age))
      response == FirstIndex(s, LAMBDA q : q.event_time \in shock.end + horizon .. shock.end + horizon + tolerance)
      before == midpoint_numerator(s[pre[1]])
      after == midpoint_numerator(s[response[1]])
      Weight(t) == IF weighting = "BaseQuantity" THEN t.quantity ELSE Notional(t)
      SpreadTo(midpoint) ==
        SumOf(shock.observations,
              LAMBDA t : apply_side_sign((2 * t.price - midpoint) * 2, shock.side) * Weight(t))
      denominator == before * SumOf(shock.observations, Weight)
      effective == Frac(SpreadTo(before), denominator)
      realized == Frac(SpreadTo(after), denominator)
  IN IF max_pre_age = 0 \/ quotes.evaluation_time # shock.evaluation_time THEN Fail("InvalidParameter")
     ELSE IF s[1].instrument # shock.instrument THEN Fail("MixedEntity")
     ELSE IF \E q \in Range(s), t \in Range(shock.observations) : q.lineage = t.lineage
          THEN Fail("DuplicateLineage")
     ELSE IF pre = <<>> \/ response = <<>> THEN Fail("InsufficientHistory")
     ELSE IF denominator = 0 THEN Fail("ZeroDenominator")
     ELSE Done([signed_impact |-> Frac(apply_side_sign(after - before, shock.side), before),
                effective_spread |-> effective, realized_spread |-> realized,
                adverse_selection_proxy |-> FSub(effective, realized)])
=============================================================================
