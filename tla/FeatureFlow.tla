----------------------------- MODULE FeatureFlow -----------------------------
(***************************************************************************)
(* The feature engine in motion.  Watermark trackers advance and issue       *)
(* corrections while decisions already handed out, and the price and trade   *)
(* windows built on them, wait to be turned into observations; beside them   *)
(* one streaming consumer keeps an EWMA, a window lifecycle, counting        *)
(* windows and a timer clock up to date with the same tracker.               *)
(***************************************************************************)
EXTENDS FeatureEmission

CONSTANTS
  Assets,           \* the assets of the feature side
  TimeWindows,      \* the windows being computed
  TrackerOf,        \* [Assets \X TimeWindows -> tracker id]
  ConfigsOf,        \* the partitions of each tracker: [id -> [asset, configs]]
  UpdatesOf,        \* the watermark updates each tracker may receive: [id -> set of [key, update]]
  PricesOf,         \* [asset, window] -> set of [observations, closing]
  TradesOf,         \* [asset, window] -> set of trade sequences
  Kinds,            \* the features the run emits
  Baseline,         \* the fitted seasonal baseline
  Now,              \* the processing time of an emission
  MaxUpdates,       \* bound: updates and corrections of a tracker
  MaxEmissions      \* bound: observations emitted

VARIABLES
  trackers,         \* [tracker id -> tracker]
  held,             \* [<<asset, window>> -> the decision last handed out, if any]
  priced,           \* [<<asset, window>> -> the price window last built with its close, if any]
  traded,           \* [<<asset, window>> -> the trade window last built, if any]
  emitted           \* the observations emitted, in order

flowVars == <<trackers, held, priced, traded, emitted>>

Cells == Assets \X TimeWindows

FlowInit ==
  /\ trackers = [id \in DOMAIN ConfigsOf |->
       NewTracker(ConfigsOf[id].configs, Lateness, <<"Healthy", "Recovering">>,
                  Asset(ConfigsOf[id].asset))]
  /\ held = [c \in Cells |-> {}] /\ priced = [c \in Cells |-> {}]
  /\ traded = [c \in Cells |-> {}]
  /\ emitted = <<>>

TrackerFor(c) == trackers[TrackerOf[c]]

\* WatermarkTracker::advance
Advance(id, u) ==
  /\ trackers[id].update_sequence < MaxUpdates
  /\ AdvanceError(trackers[id], u.key, u.update) = "Ok"
  /\ trackers' = [trackers EXCEPT ![id] = advance(@, u.key, u.update)]
  /\ UNCHANGED <<held, priced, traded, emitted>>

\* WatermarkTracker::correction
Correct(c, key, time) ==
  /\ TrackerFor(c).update_sequence < MaxUpdates
  /\ CorrectionError(TrackerFor(c), key, c[2], time) = "Ok"
  /\ trackers' = [trackers EXCEPT ![TrackerOf[c]] = correction(@, key, c[2], time).tracker]
  /\ UNCHANGED <<held, priced, traded, emitted>>

\* WatermarkTracker::decision: a caller keeps what it was given.
Decide(c) ==
  /\ held' = [held EXCEPT ![c] = {decision(TrackerFor(c), c[2])}]
  /\ held' # held
  /\ UNCHANGED <<trackers, priced, traded, emitted>>

\* PriceWindow::try_from_finalization on a decision taken earlier
BuildPrices(c, d, input) ==
  LET built == PriceWindowFor(Asset(c[1]), TrackerFor(c), d, input.observations)
  IN /\ built.ok
     /\ priced' = [priced EXCEPT ![c] = {[prices |-> built.value, closing |-> input.closing]}]
     /\ UNCHANGED <<trackers, held, traded, emitted>>

\* FinalizedTradeWindow::try_from_finalization
BuildTrades(c, d, input) ==
  LET built == TradeWindowFor(c[1], TrackerFor(c), d, input)
  IN /\ built.ok
     /\ traded' = [traded EXCEPT ![c] = {built.value}]
     /\ UNCHANGED <<trackers, held, priced, emitted>>

Side(c, p) == [prices |-> p.prices, closing |-> p.closing, tracker |-> TrackerFor(c)]

\* Whatever a recipe computed, through emit_float_feature.
Emit(computed) ==
  LET o == emit_float_feature(CatalogueRegistry(Kinds), computed.value, Now, 1)
  IN /\ Len(emitted) < MaxEmissions
     /\ computed.ok /\ o.ok
     /\ emitted' = Append(emitted, o.value)
     /\ UNCHANGED <<trackers, held, priced, traded>>

EmitFromPrices(c, p, kind) ==
  Emit(ComputeFromPrices(kind, p.prices, p.closing, TrackerFor(c)))

EmitSeasonal(c, p) == Emit(ComputeSeasonal(p.prices, p.closing, TrackerFor(c), Baseline))

EmitVwap(c, p, t, kind) ==
  Emit(ComputeVwapDistance(kind, t, p.prices, p.closing, TrackerFor(c)))

EmitFairPriceDistance(c, p, t) ==
  Emit(ComputeFairPriceDistance(t, p.prices, p.closing, TrackerFor(c)))

EmitGap(before, c, p, q) ==
  Emit(ComputeIntervalGap(Side(before, p), q.prices, TrackerFor(c)))

EmitPair(c, d, p, q, kind) == Emit(ComputePair(kind, Side(c, p), Side(d, q)))

EmitMissing(c, d, kind, error) ==
  Emit(missing_task_four(kind, Asset(c[1]), TrackerFor(c), d, error))

EmitTermRatio(i, j) == Emit(ComputeTermRatio(emitted[i], emitted[j]))

EmitResidual(i, forecast) == Emit(ComputeForecastResidual(emitted[i], forecast))

\* FinalizedVolatilitySeries over two emitted observations
EmitVolOfVol(i, j) ==
  LET window == [start |-> emitted[i].end - Minute, end |-> emitted[j].end]
  IN Emit(Then(SeriesEvidence(window, <<emitted[i], emitted[j]>>), ComputeVolOfVol))

-----------------------------------------------------------------------------
(* Properties                                                                  *)

\* The times at which the evidence named in a lineage became known: of its inputs, and of the
\* decision that finalized them.
EvidenceTimes(e) ==
  IF e = <<>> THEN {}
  ELSE {e[2][i][2] : i \in DOMAIN e[2]} \cup {e[3].as_known_at}

LineageTimes(o) ==
  IF o.lineage[1][1] = "derived" THEN {}
  ELSE EvidenceTimes(o.lineage[1]) \cup EvidenceTimes(o.lineage[2])

\* An observation is never known before the evidence it was computed from: its as_known_at is
\* at or after every price, trade and baseline it used and every finalization it relied on.
EmittedKnowable ==
  \A i \in DOMAIN emitted : \A t \in LineageTimes(emitted[i]) : t <= emitted[i].as_known_at


\* compute_realized_pair_feature: "swapping the caller's left and right inputs produces the same
\* observation".
PairSymmetric ==
  \A c \in Cells, d \in Cells : c[1] # d[1] /\ c[2] = d[2] =>
    \A p \in priced[c], q \in priced[d], kind \in Kinds \cap PairKinds :
      ComputePair(kind, Side(c, p), Side(d, q)) = ComputePair(kind, Side(d, q), Side(c, p))

-----------------------------------------------------------------------------
(***************************************************************************)
(* One streaming consumer of crates/feature-engine: events arrive late and   *)
(* out of order while the watermark tracker moves; it keeps a half-life      *)
(* EWMA, the revisions of a window, event-count and volume windows and a     *)
(* recorded clock with timers.                                               *)
(***************************************************************************)

CONSTANTS
  StreamConfigs,      \* the partitions of the tracker
  StreamLateness,     \* the tracker's allowed lateness
  StreamUpdates,      \* watermark updates: [key, update]
  StreamWindow,       \* the window whose revisions are kept
  EventTimes,         \* event times of samples
  Capacity,           \* capacity of the EWMA
  CountExtent, CountStep,    \* the event-count window
  VolumeThreshold,    \* the volume window
  Timers,             \* timer ids
  MaxStreamUpdates,   \* bound: tracker updates and corrections
  MaxSamples          \* bound: samples offered

VARIABLES
  tracker, ewma,
  accepted,           \* history: the samples the EWMA took, in arrival order
  lifecycle,
  pending,            \* a decision or correction handed out and not yet applied
  counting, closed,   \* the event-count state and the windows it closed
  volume,
  clock,
  fired               \* history: the timers that fired with their deadlines, in order

streamVars == <<tracker, ewma, accepted, lifecycle, pending, counting, closed, volume, clock, fired>>

NoDecision == [kind |-> "none"]

StreamInit ==
  LET fresh == NewTracker(StreamConfigs, StreamLateness, <<"Healthy">>, "asset")
  IN /\ tracker = fresh
     /\ ewma = NewEwma(fresh, Capacity) /\ accepted = <<>>
     /\ lifecycle = NewLifecycle(fresh, 1, MaxRevisions) /\ pending = NoDecision
     /\ counting = NewCount(CountExtent, CountStep) /\ closed = <<>>
     /\ volume = NewThreshold(VolumeThreshold)
     /\ clock = NewClock(1, Cardinality(Timers)) /\ fired = <<>>

StreamAdvance(u) ==
  /\ tracker.update_sequence < MaxStreamUpdates
  /\ AdvanceError(tracker, u.key, u.update) = "Ok"
  /\ tracker' = advance(tracker, u.key, u.update)
  /\ UNCHANGED <<ewma, accepted, lifecycle, pending, counting, closed, volume, clock, fired>>

\* HalfLifeEwmaState::update_at, EventCountState::observe, ThresholdWindowState::observe and
\* RecordedClock::advance on one event.
Event(time, received) ==
  LET counted == observe_event(counting)
      summed == observe_amount(volume, 1)
      moved == RecordedAdvance(clock, "EventTime", [event_time |-> time, receive_time |-> received])
      taken == UpdateAtError(ewma, time) = "Ok"
  IN /\ counting.observed < MaxSamples
     /\ ewma' = IF taken THEN update_at(ewma, time, counting.observed + 1) ELSE ewma
     /\ accepted' = IF taken THEN Append(accepted, [event_time |-> time,
                                                     arrival_sequence |-> Len(accepted),
                                                     value |-> counting.observed + 1])
                    ELSE accepted
     /\ counting' = counted.state /\ closed' = closed \o counted.closed
     /\ volume' = summed.state
     /\ clock' = moved.clock
     /\ fired' = fired \o [i \in DOMAIN moved.due |->
                            [id |-> moved.due[i], deadline |-> clock.deadlines[moved.due[i]]]]
     /\ UNCHANGED <<tracker, lifecycle, pending>>

\* HalfLifeEwmaState::advance_watermark
Compact ==
  /\ AdvanceWatermarkError(ewma, tracker) = "Ok"
  /\ ewma' = advance_watermark(ewma, tracker)
  /\ ewma' # ewma
  /\ UNCHANGED <<tracker, accepted, lifecycle, pending, counting, closed, volume, clock, fired>>

TakeDecision ==
  /\ pending' = [kind |-> "decision", of |-> decision(tracker, StreamWindow)]
  /\ pending' # pending
  /\ UNCHANGED <<tracker, ewma, accepted, lifecycle, counting, closed, volume, clock, fired>>

\* WatermarkTracker::correction
TakeCorrection(key, time) ==
  /\ tracker.update_sequence < MaxStreamUpdates
  /\ CorrectionError(tracker, key, StreamWindow, time) = "Ok"
  /\ tracker' = correction(tracker, key, StreamWindow, time).tracker
  /\ pending' = [kind |-> "correction",
                 of |-> correction(tracker, key, StreamWindow, time).decision]
  /\ UNCHANGED <<ewma, accepted, lifecycle, counting, closed, volume, clock, fired>>

\* WindowLifecycle::apply
Apply ==
  /\ pending.kind = "decision" /\ ApplyError(lifecycle, pending.of) = "Ok"
  /\ lifecycle' = apply(lifecycle, pending.of)
  /\ pending' = NoDecision
  /\ UNCHANGED <<tracker, ewma, accepted, counting, closed, volume, clock, fired>>

\* WindowLifecycle::correct
ApplyCorrection ==
  /\ pending.kind = "correction" /\ CorrectError(lifecycle, pending.of) = "Ok"
  /\ lifecycle' = correct(lifecycle, pending.of)
  /\ pending' = NoDecision
  /\ UNCHANGED <<tracker, ewma, accepted, counting, closed, volume, clock, fired>>

Schedule(id, deadline) ==
  /\ ScheduleError(clock, id, deadline) = "Ok"
  /\ \A i \in DOMAIN fired : fired[i].id # id
  /\ clock' = schedule(clock, id, deadline)
  /\ UNCHANGED <<tracker, ewma, accepted, lifecycle, pending, counting, closed, volume, fired>>

Cancel(id) ==
  /\ id \in DOMAIN clock.deadlines
  /\ clock' = cancel(clock, id)
  /\ UNCHANGED <<tracker, ewma, accepted, lifecycle, pending, counting, closed, volume, fired>>

-----------------------------------------------------------------------------
(* Properties                                                                  *)

\* HalfLifeEwmaState: folding a settled prefix into the checkpoint never changes the average; it
\* is at all times the average of every accepted sample in event-time order, however late the
\* samples came and whenever the watermark advanced in between.
EwmaExact ==
  ewma.value = compute_ewma([event_time |-> NoTime, value |-> NoTerm],
                            SortSeq(accepted, SampleOrder)).value

\* WindowLifecycle over WatermarkTracker: the revisions of a window are numbered from one and
\* carry decisions in the order the tracker took them; a window that was final is never reported
\* provisional or final again, only corrected or invalid.
RevisionsInOrder ==
  \A w \in DOMAIN lifecycle.histories :
    LET h == lifecycle.histories[w]
    IN \A i \in DOMAIN h :
         /\ h[i].revision = i
         /\ \A j \in 1..(i - 1) :
              /\ h[j].decision_sequence < h[i].decision_sequence
              /\ h[j].finality \in {"Final", "Corrected", "Invalid"} =>
                   h[i].finality \in {"Corrected", "Invalid"}

\* LogicalClock under late events: over a whole run the timers fire in the order of their
\* deadlines, none before its deadline, and a count window closes at every step of its extent.
TimersAndCountsInOrder ==
  /\ \A i, j \in DOMAIN fired : i < j => fired[i].deadline <= fired[j].deadline
  /\ \A i \in DOMAIN fired : fired[i].deadline <= clock.now
  /\ \A id \in DOMAIN clock.deadlines : clock.deadlines[id] >= clock.now
  /\ LET step == IF CountStep = 0 THEN CountExtent ELSE CountStep
     IN closed = [i \in 1..(IF counting.observed < CountExtent THEN 0
                            ELSE (counting.observed - CountExtent) \div step + 1) |->
                   [index |-> i - 1, last |-> CountExtent + (i - 1) * step,
                    first |-> (i - 1) * step + 1]]
=============================================================================
