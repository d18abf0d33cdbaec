------------------------------ MODULE PriceMath ------------------------------
(***************************************************************************)
(* The arithmetic of crates/feature-engine/src/features/price.rs and of     *)
(* crates/volatility/src/measures.rs in exact fractions.  Prices are powers *)
(* of two and logarithms are to the base 2, so that a log return is an       *)
(* integer.  A root is left out: an operator whose code ends in sqrt returns *)
(* the argument of it, and correlation the square with its sign.             *)
(***************************************************************************)
EXTENDS Results

CONSTANTS
  MaxPriceObservations,     \* MAX_PRICE_OBSERVATIONS and MAX_MEASURE_OBSERVATIONS
  MaxHorizons               \* MAX_HORIZONS

PiHalf == <<355, 226>>
Ln2 == <<61, 88>>

\* analytical_price and ln: a Price is positive and finite.
Log2(price) == CHOOSE k \in 0..30 : 2^k = price

validate_finite_history(values, minimum) ==
  FirstError(<< <<Len(values) > MaxPriceObservations, "CapacityExceeded">>,
                <<Len(values) < minimum, "InsufficientHistory">> >>)

\* A value computed from a history of at least minimum entries.
WithHistory(values, minimum, value) ==
  Checked(<< <<validate_finite_history(values, minimum) # "Ok",
               validate_finite_history(values, minimum)>> >>, value)

-----------------------------------------------------------------------------
(* Price paths                                                                 *)

log_return(current, previous) == Log2(current) - Log2(previous)

relative_distance(value, reference) == FSub(Frac(value, reference), Whole(1))

cumulative_return(prices) ==
  IF Len(prices) < 2 THEN Fail("InsufficientHistory")
  ELSE Done(relative_distance(Last(prices), Head(prices)))

high_low_range(prices) ==
  LET Highest(acc, p) == IF p > acc THEN p ELSE acc
      Lowest(acc, p) == IF p < acc THEN p ELSE acc
  IN IF Len(prices) < 2 THEN Fail("InsufficientHistory")
     ELSE Done(relative_distance(FoldLeft(Highest, Head(prices), Tail(prices)),
                                 FoldLeft(Lowest, Head(prices), Tail(prices))))

\* vwap_distance: a trade of size zero is skipped.
vwap_distance(value, trades) ==
  LET notional == FoldLeft(LAMBDA acc, t : acc + t.price * t.quantity, 0, trades)
      quantity == FoldLeft(LAMBDA acc, t : acc + t.quantity, 0, trades)
  IN IF trades = <<>> THEN Fail("InsufficientHistory")
     ELSE IF Len(trades) > MaxPriceObservations THEN Fail("CapacityExceeded")
     ELSE IF quantity = 0 THEN Fail("ZeroDenominator")
     ELSE Done(FSub(FDiv(Whole(value), Frac(notional, quantity)), Whole(1)))

\* consecutive_log_returns, complete_log_returns
consecutive_log_returns(prices) ==
  [i \in 1..(Len(prices) - 1) |-> log_return(prices[i + 1], prices[i])]

multi_horizon_log_returns(prices, horizons) ==
  IF horizons = <<>> \/ Len(horizons) > MaxHorizons THEN Fail("InvalidParameter")
  ELSE IF \E i \in DOMAIN horizons : horizons[i] = 0 \/ horizons[i] >= Len(prices)
  THEN Fail("InsufficientHistory")
  ELSE Done([i \in DOMAIN horizons |->
              log_return(Last(prices), prices[Len(prices) - horizons[i]])])

\* maximum_drawdown: one pass with the running peak.
maximum_drawdown(prices) ==
  LET Step(acc, value) ==
        LET peak == IF value > acc.peak THEN value ELSE acc.peak
        IN [peak |-> peak, maximum |-> FMax(acc.maximum, Frac(peak - value, peak))]
      start == [peak |-> Head(prices), maximum |-> Whole(0)]
  IN WithHistory(prices, 2, FoldLeft(Step, start, Tail(prices)).maximum)

maximum_run_up(prices) ==
  LET Step(acc, value) ==
        LET trough == IF value < acc.trough THEN value ELSE acc.trough
        IN [trough |-> trough, maximum |-> FMax(acc.maximum, Frac(value - trough, trough))]
      start == [trough |-> Head(prices), maximum |-> Whole(0)]
  IN WithHistory(prices, 2, FoldLeft(Step, start, Tail(prices)).maximum)

\* The slope of centred values.
Slope(x, y, squares) ==
  IF ~FPositive(squares) THEN Fail("ZeroDenominator") ELSE Done(FDiv(Dot(x, y), squares))
CentredSlope(x, y) == Slope(x, y, Dot(x, x))

\* regression_slope over sequences of fractions.
regression_slope(x, y) ==
  IF Len(x) # Len(y) THEN Fail("LengthMismatch")
  ELSE IF validate_finite_history(x, 2) # "Ok" THEN Fail(validate_finite_history(x, 2))
  ELSE CentredSlope(Centred(x), Centred(y))

\* trend_slope: the regression on the index.
trend_slope(values) ==
  regression_slope([i \in DOMAIN values |-> Whole(i - 1)], values)

\* time_weighted_trend_slope and complete_time_weighted_trend_slope
time_weighted_trend_slope(times, prices) ==
  regression_slope([i \in DOMAIN times |-> Whole(times[i] - times[1])],
                   [i \in DOMAIN prices |-> Whole(prices[i])])

\* The slopes of the intervals against their midpoints; a midpoint is rounded down.
time_weighted_trend_acceleration(times, prices) ==
  LET intervals == 1..(Len(times) - 1)
      Elapsed(i) == times[i + 1] - times[i]
      midpoints == [i \in intervals |-> Whole(times[i] - times[1] + Elapsed(i) \div 2)]
      slopes == [i \in intervals |-> Frac(prices[i + 1] - prices[i], Elapsed(i))]
  IN IF Len(prices) < 3 THEN Fail("InsufficientHistory")
     ELSE IF \E i \in intervals : Elapsed(i) <= 0 THEN Fail("NonMonotonicTime")
     ELSE regression_slope(midpoints, slopes)

trend_acceleration(values) ==
  LET Second(i) == FAdd(FSub(values[i + 2], FMul(Whole(2), values[i + 1])), values[i])
  IN WithHistory(values, 3, FDiv(FSum([i \in 1..(Len(values) - 2) |-> Second(i)]),
                                 Whole(Len(values) - 2)))

-----------------------------------------------------------------------------
(* Return distributions: returns are sequences of fractions                    *)

SumSquares(values) == Dot(values, values)
population_variance(values) == FDiv(SumSquares(Centred(values)), Whole(Len(values)))

\* value * |value| / scale: the square, with its sign, of a ratio to a root.
SignedSquare(value, scale, error) ==
  IF ~FPositive(scale) THEN Fail(error)
  ELSE Done(FDiv(FMul(value, Frac(Abs(value[1]), value[2])), scale))
Cosine(left, right, error) ==
  SignedSquare(Dot(left, right), FMul(SumSquares(left), SumSquares(right)), error)

\* correlation: cov * |cov| / (var * var), the signed square.
correlation(left, right) ==
  IF Len(left) # Len(right) THEN Fail("LengthMismatch")
  ELSE IF validate_finite_history(left, 2) # "Ok" THEN Fail(validate_finite_history(left, 2))
  ELSE Cosine(Centred(left), Centred(right), "ZeroDenominator")

return_autocorrelation(returns, lag) ==
  IF validate_finite_history(returns, 3) # "Ok" THEN Fail(validate_finite_history(returns, 3))
  ELSE IF lag = 0 \/ lag >= Len(returns) - 1 THEN Fail("InvalidParameter")
  ELSE correlation(SubSeq(returns, 1, Len(returns) - lag), SubSeq(returns, lag + 1, Len(returns)))

RollingSums(returns, horizon) ==
  FoldLeft(LAMBDA acc, i : Append(acc, FAdd(Last(acc), FSub(returns[i], returns[i - horizon]))),
           <<FSum(SubSeq(returns, 1, horizon))>>, [k \in 1..(Len(returns) - horizon) |-> horizon + k])
VarianceOver(one_period, returns, horizon) ==
  IF ~FPositive(one_period) THEN Fail("ZeroDenominator")
  ELSE Done(FDiv(population_variance(RollingSums(returns, horizon)), FMul(Whole(horizon), one_period)))

\* variance_ratio: the aggregated returns by a rolling sum.
variance_ratio(returns, horizon) ==
  IF validate_finite_history(returns, 3) # "Ok" THEN Fail(validate_finite_history(returns, 3))
  ELSE IF horizon < 2 \/ horizon >= Len(returns) THEN Fail("InvalidParameter")
  ELSE VarianceOver(population_variance(returns), returns, horizon)

\* The mean of the p-th powers of the centred values.
Moment(values, p) ==
  LET Power(x) == IF p = 3 THEN FMul(x, FSquare(x)) ELSE FSquare(FSquare(x))
      Powers(centred) == [i \in DOMAIN centred |-> Power(centred[i])]
  IN Mean(Powers(Centred(values)))

\* rolling_skewness: third |third| / variance^3, the signed square.
rolling_skewness(values) ==
  LET Cubed(variance) == FMul(variance, FSquare(variance))
  IN IF validate_finite_history(values, 3) # "Ok" THEN Fail(validate_finite_history(values, 3))
     ELSE SignedSquare(Moment(values, 3), Cubed(population_variance(values)), "ZeroDenominator")

Kurtosis(variance, values) ==
  IF ~FPositive(variance) THEN Fail("ZeroDenominator")
  ELSE Done(FSub(FDiv(Moment(values, 4), FSquare(variance)), Whole(3)))
rolling_excess_kurtosis(values) ==
  IF validate_finite_history(values, 4) # "Ok" THEN Fail(validate_finite_history(values, 4))
  ELSE Kurtosis(population_variance(values), values)

\* return_reversal: the mean of -signum(r[i]) r[i+1] over the returns that reach the threshold.
return_reversal(returns, threshold) ==
  LET Sign(x) == IF x[1] < 0 THEN Whole(-1) ELSE Whole(1)
      Large(i) == ~FLess(Frac(Abs(returns[i][1]), returns[i][2]), threshold)
      large == SelectSeq([i \in 1..(Len(returns) - 1) |-> i], Large)
      terms == [k \in DOMAIN large |->
                 FMul(FMul(Whole(-1), Sign(returns[large[k]])), returns[large[k] + 1])]
  IN IF validate_finite_history(returns, 2) # "Ok" THEN Fail(validate_finite_history(returns, 2))
     ELSE IF ~FPositive(threshold) THEN Fail("InvalidParameter")
     ELSE IF large = <<>> THEN Fail("InsufficientHistory")
     ELSE Done(Mean(terms))

-----------------------------------------------------------------------------
(* Measures of volatility                                                      *)

\* checked_sum_squares, realized_variance, and realized_volatility before its root
realized_variance(returns) == WithHistory(returns, 1, Dot(returns, returns))

\* checked_semivariance with the sign it includes
semivariance(returns, sign) ==
  LET included == SelectSeq(returns, LAMBDA r : r[1] * sign > 0)
  IN WithHistory(returns, 1, Dot(included, included))

bipower_variation(returns) ==
  LET Magnitude(r) == Frac(Abs(r[1]), r[2])
      products == [i \in 1..(Len(returns) - 1) |->
                    FMul(Magnitude(returns[i]), Magnitude(returns[i + 1]))]
  IN WithHistory(returns, 2, FMul(PiHalf, FSum(products)))

jump_variation(returns) ==
  Then(bipower_variation(returns),
       LAMBDA bipower : Done(FMax(FSub(Dot(returns, returns), bipower), Whole(0))))

\* OhlcBar::try_new and PriceOhlcBar::try_new
OhlcError(bar) ==
  IF \/ bar.high < bar.open \/ bar.high < bar.close
     \/ bar.low > bar.open \/ bar.low > bar.close \/ bar.low > bar.high
  THEN "InvalidOhlc" ELSE "Ok"

parkinson_variance(bars) ==
  LET Range2(bar) == Whole(log_return(bar.high, bar.low)^2)
  IN WithHistory(bars, 1, FDiv(FSum([i \in DOMAIN bars |-> Range2(bars[i])]),
                               FMul(Whole(4 * Len(bars)), Ln2)))

garman_klass_variance(bars) ==
  LET coefficient == FSub(FMul(Whole(2), Ln2), Whole(1))
      Term(bar) == FSub(Frac(log_return(bar.high, bar.low)^2, 2),
                        FMul(coefficient, Whole(log_return(bar.close, bar.open)^2)))
      Signed(mean) == IF mean[1] < 0 THEN Fail("InvalidInput") ELSE Done(mean)
  IN IF bars = <<>> THEN Fail("InsufficientHistory")
     ELSE Signed(Mean([i \in DOMAIN bars |-> Term(bars[i])]))

sample_covariance(left, right) ==
  IF Len(left) # Len(right) THEN Fail("LengthMismatch")
  ELSE WithHistory(left, 2, FDiv(Dot(Centred(left), Centred(right)), Whole(Len(left) - 1)))

\* sample_correlation: the signed square.
sample_correlation(left, right) ==
  LET Mapped(result) == IF result.ok THEN result ELSE Fail("ZeroVariance")
  IN IF Len(left) # Len(right) THEN Fail("LengthMismatch")
     ELSE IF validate_finite_history(left, 2) # "Ok" THEN Fail(validate_finite_history(left, 2))
     ELSE Mapped(correlation(left, right))

realized_covariance(left, right) ==
  IF Len(left) # Len(right) THEN Fail("LengthMismatch")
  ELSE WithHistory(left, 2, Dot(left, right))

\* realized_correlation: the signed square.
realized_correlation(left, right) ==
  Then(realized_covariance(left, right), LAMBDA c : Cosine(left, right, "ZeroVariance"))

\* volatility_of_volatility before its root
volatility_of_volatility(values) == sample_covariance(values, values)

volatility_term_ratio(short, long) ==
  IF short[1] < 0 \/ long[1] <= 0 THEN Fail("InvalidParameter") ELSE Done(FDiv(short, long))

forecast_residual(realized, forecast) ==
  IF realized[1] < 0 \/ forecast[1] < 0 THEN Fail("InvalidParameter")
  ELSE Done(FSub(realized, forecast))

SeasonalBaselineOk(b) == b.factor > 0 /\ b.fitted_through > 0 /\ b.as_known_at >= b.fitted_through

seasonality_adjusted_volatility(volatility, b, start) ==
  IF start <= 0 \/ b.fitted_through > start \/ b.as_known_at > start
  THEN Fail("InvalidParameter") ELSE Done(FDiv(volatility, Whole(b.factor)))
=============================================================================
