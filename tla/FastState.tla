------------------------------ MODULE FastState ------------------------------
(***************************************************************************)
(* crates/fast-state: the externally clocked tick scheduler, the immutable   *)
(* snapshots frozen at its publication ticks, their corrections, and the     *)
(* capacity-one slot that delivers snapshots to a slow reader.               *)
(***************************************************************************)
EXTENDS FeatureRegistry

CONSTANTS
  InternalInterval,      \* INTERNAL_INTERVAL_NS
  PublishedInterval,     \* PUBLISHED_INTERVAL_NS
  MaxFeatures,           \* MAX_FEATURES
  HealthyScore, DegradedScore   \* HEALTHY_SCORE_MILLIONTHS, DEGRADED_SCORE_MILLIONTHS

-----------------------------------------------------------------------------
(* FastStateScheduler                                                          *)

NewScheduler(start, capacity) ==
  [now |-> start, capacity |-> capacity, pending |-> <<>>, internal |-> 0, published |-> 0,
   last_sequence |-> 0, cancelled |-> FALSE]

due_count(current, target, interval) == target \div interval - current \div interval

deadline_after(current, completed, interval) == (current \div interval + completed + 1) * interval

\* classify_event_time
classify_event_time(scheduler, time) ==
  IF time < 0 THEN "InvalidEventTime"
  ELSE IF time > scheduler.now THEN "EventAheadOfScheduler"
  ELSE IF time = scheduler.now THEN "OnTime" ELSE "Late"

AdvanceSchedulerError(scheduler, target) ==
  LET due == due_count(scheduler.now, target, InternalInterval)
             + due_count(scheduler.now, target, PublishedInterval)
  IN FirstError(<<
       <<scheduler.cancelled, "Cancelled">>,
       <<target < scheduler.now, "ClockRegression">>,
       <<due > scheduler.capacity - Len(scheduler.pending), "TickBacklogCapacity">> >>)

\* The merge loop of advance_to: internal and published deadlines in time order, the internal one
\* first where they coincide.
MergedTicks(scheduler, target) ==
  LET due(interval) == due_count(scheduler.now, target, interval)
      Step(acc, i) ==
        LET internal == deadline_after(scheduler.now, acc.internal, InternalInterval)
            published == deadline_after(scheduler.now, acc.published, PublishedInterval)
            isInternal == /\ acc.internal < due(InternalInterval)
                          /\ acc.published < due(PublishedInterval) => internal <= published
        IN [internal |-> acc.internal + IF isInternal THEN 1 ELSE 0,
            published |-> acc.published + IF isInternal THEN 0 ELSE 1,
            ticks |-> Append(acc.ticks,
              [sequence |-> scheduler.last_sequence + i,
               at |-> IF isInternal THEN internal ELSE published,
               kind |-> IF isInternal THEN "Internal100Ms" ELSE "Published1S"])]
  IN FoldLeft(Step, [internal |-> 0, published |-> 0, ticks |-> <<>>],
              [i \in 1..(due(InternalInterval) + due(PublishedInterval)) |-> i]).ticks

\* Mutant: the deadlines restart from the current time instead of the epoch.
advance_to_unaligned(scheduler, target) ==
  LET due(interval) == (target - scheduler.now) \div interval
      ticks == [i \in 1..due(InternalInterval) |->
                 [sequence |-> scheduler.last_sequence + i,
                  at |-> scheduler.now + i * InternalInterval, kind |-> "Internal100Ms"]]
  IN [scheduler EXCEPT !.pending = @ \o ticks, !.internal = @ + due(InternalInterval),
                       !.last_sequence = @ + Len(ticks), !.now = target]

advance_to_time(scheduler, target) ==
  LET ticks == MergedTicks(scheduler, target)
  IN [scheduler EXCEPT
        !.pending = @ \o ticks, !.last_sequence = @ + Len(ticks), !.now = target,
        !.internal = @ + due_count(scheduler.now, target, InternalInterval),
        !.published = @ + due_count(scheduler.now, target, PublishedInterval)]

drain_ticks(scheduler, maximum) ==
  LET n == Min({maximum, Len(scheduler.pending)})
  IN [ticks |-> SubSeq(scheduler.pending, 1, n),
      scheduler |-> [scheduler EXCEPT !.pending = SubSeq(@, n + 1, Len(@))]]

-----------------------------------------------------------------------------
(* FastStateSnapshot: the sorted observations of a snapshot have distinct keys *)
(* and are kept as a set.                                                      *)

same_feature_key(o, p) == o.id = p.id /\ o.version = p.version /\ o.window_id = p.window_id
same_correction_identity(o, p) ==
  same_feature_key(o, p) /\ o.entity = p.entity /\ o.start = p.start /\ o.end = p.end

minimum_watermark(observations) ==
  LET marks == {o.watermark : o \in observations}
  IN IF NoTime \in marks THEN NoTime ELSE Min(marks)

UnavailableReasons == {"NotListed", "SourceNotSupported", "SourceDisconnected", "SequenceGap",
                       "Stale", "PrivacyOrLicenseRestriction", "Unknown"}

HealthsOf(o) == {o.coverage.health[s] : s \in DOMAIN o.coverage.health}

derive_snapshot_health(observations, expired, coverage, quality) ==
  LET missing == {o \in observations : ~o.datum.present}
      unavailable ==
        \/ minimum_watermark(observations) = NoTime
        \/ \E o \in observations : \/ o.finality = "Invalid"
                                   \/ HealthsOf(o) \cap {"Unhealthy", "Quarantined"} # {}
        \/ missing = observations
        \/ \E o \in missing : o.datum.reason \in UnavailableReasons
        \/ expired
        \/ coverage < DegradedScore \/ quality < DegradedScore
      degraded ==
        \/ missing # {}
        \/ \E o \in observations : HealthsOf(o) \cap {"Degraded", "Recovering"} # {}
        \/ coverage < HealthyScore \/ quality < HealthyScore
  IN IF unavailable THEN "Unavailable" ELSE IF degraded THEN "Degraded" ELSE "Healthy"

ValidateModelInputError(registry, o) ==
  IF ModelInputError(registry, o.id, o.version) # "Ok"
  THEN ModelInputError(registry, o.id, o.version)
  ELSE ValidateError(registry, o)

\* Each observation is validated and dated in key order; which of the two errors of that loop
\* comes first is not kept.
BuildError(registry, as_of, observations) ==
  LET refused == {o \in ToSet(observations) : ValidateModelInputError(registry, o) # "Ok"}
  IN FirstError(<<
       <<as_of <= 0 \/ as_of % InternalInterval # 0, "InvalidSnapshotTime">>,
       <<observations = <<>> \/ Len(observations) > MaxFeatures, "InvalidFeatureCount">>,
       <<\E i, j \in DOMAIN observations :
           i < j /\ same_feature_key(observations[i], observations[j]),
         "DuplicateFeatureObservation">>,
       <<refused # {}, "InvalidFeatureObservation">>,
       <<\E o \in ToSet(observations) : o.end > as_of, "InvalidSnapshotTime">>,
       <<\E o, p \in ToSet(observations) : o.entity # p.entity, "MixedSnapshotEntity">>,
       <<\E o \in ToSet(observations) : o.datum.present /\ o.datum.type # "Float64",
         "UnsupportedFeatureValue">> >>)

\* The digests are what they hash.
calculate_feature_schema_hash(registry, observations) ==
  {<<registry.definitions[<<o.id, o.version>>], o.window_id>> : o \in observations}
calculate_lineage_hash(schema, observations) ==
  <<schema, {<<o.id, o.window_id, o.lineage>> : o \in observations}>>

\* FastStateSnapshot::build
BuildSnapshot(registry, sequence, as_of, input) ==
  LET observations == ToSet(input)
      Definition(o) == registry.definitions[<<o.id, o.version>>]
      expired == \E o \in observations : as_of - o.end > Definition(o).time_to_live
      coverage == Min({coverage_millionths(o.coverage) : o \in observations})
      quality == Min({o.quality : o \in observations})
      schema == calculate_feature_schema_hash(registry, observations)
  IN IF BuildError(registry, as_of, input) # "Ok" THEN Fail(BuildError(registry, as_of, input))
     ELSE Done([publication_sequence |-> sequence,
                entity |-> (CHOOSE o \in observations : TRUE).entity,
                as_of |-> as_of,
                as_known_at |-> Max({o.as_known_at : o \in observations}),
                watermark |-> minimum_watermark(observations),
                observations |-> observations,
                health |-> derive_snapshot_health(observations, expired, coverage, quality),
                schema |-> schema,
                lineage |-> calculate_lineage_hash(schema, observations)])

\* try_for_published_tick
SnapshotForTick(registry, tick, as_of, observations) ==
  IF tick.kind # "Published1S" THEN Fail("PublicationRequiresPublishedTick")
  ELSE IF tick.at # as_of THEN Fail("PublicationTimeMismatch")
  ELSE BuildSnapshot(registry, tick.sequence, as_of, observations)

CorrectedObservation(previous, next) ==
  /\ next.revision = previous.revision + 1 /\ next.finality = "Corrected"
  /\ next.as_known_at >= previous.as_known_at /\ next.computed_at >= previous.computed_at
  /\ next.finality_as_known_at >= previous.finality_as_known_at

\* Observations with equal schemas pair up by their keys.
is_monotonic_correction(previous, next) ==
  LET Of(o) == CHOOSE p \in next.observations : same_feature_key(o, p)
  IN /\ previous.schema = next.schema /\ previous.entity = next.entity
     /\ previous.as_of = next.as_of
     /\ previous.publication_sequence = next.publication_sequence
     /\ next.as_known_at > previous.as_known_at
     /\ \A o \in previous.observations :
          /\ same_correction_identity(o, Of(o))
          /\ Of(o) = o \/ CorrectedObservation(o, Of(o))
     /\ \E o \in previous.observations : Of(o) # o

\* try_correction
CorrectionOf(registry, previous, as_of, observations) ==
  IF as_of # previous.as_of THEN Fail("SnapshotCorrectionMismatch")
  ELSE Then(BuildSnapshot(registry, previous.publication_sequence, as_of, observations),
            LAMBDA next : IF is_monotonic_correction(previous, next) THEN Done(next)
                          ELSE Fail("SnapshotCorrectionMismatch"))

-----------------------------------------------------------------------------
(* CoalescingSnapshotSlot                                                      *)

NoSnapshot == [as_of |-> 0]

NewSlot ==
  [latest |-> NoSnapshot, accepted |-> NoSnapshot, last_sequence |-> 0,
   coalesced_total |-> 0, coalesced |-> 0]

\* Mutant: only the event time is compared with the snapshot accepted last.
SlotErrorByEvent(slot, snapshot) ==
  IF slot.accepted # NoSnapshot /\ snapshot.as_of < slot.accepted.as_of
  THEN "SnapshotRegression" ELSE "Ok"

SlotError(slot, snapshot) ==
  IF slot.accepted = NoSnapshot THEN "Ok"
  ELSE FirstError(<<
         <<snapshot.entity # slot.accepted.entity, "SnapshotEntityMismatch">>,
         <<\/ snapshot.as_of < slot.accepted.as_of
           \/ snapshot.as_known_at <= slot.accepted.as_known_at, "SnapshotRegression">>,
         <<snapshot.as_of = slot.accepted.as_of /\ ~is_monotonic_correction(slot.accepted, snapshot),
           "SnapshotCorrectionMismatch">> >>)

slot_publish(slot, snapshot) ==
  LET replaced == IF slot.latest = NoSnapshot THEN 0 ELSE 1
  IN [latest |-> snapshot, accepted |-> snapshot, last_sequence |-> slot.last_sequence + 1,
      coalesced_total |-> slot.coalesced_total + replaced, coalesced |-> slot.coalesced + replaced]

\* take_latest: what is delivered, and the slot after.
take_latest(slot) ==
  [delivery |-> [sequence |-> slot.last_sequence, coalesced |-> slot.coalesced,
                 snapshot |-> slot.latest],
   slot |-> [slot EXCEPT !.latest = NoSnapshot, !.coalesced = 0]]

-----------------------------------------------------------------------------
(* A pipeline of the four: ticks are drained, publication ticks are turned     *)
(* into snapshots, snapshots are corrected and offered to the slot.            *)

CONSTANTS
  StartTime,        \* when the scheduler starts
  TickCapacity,     \* its pending capacity
  Targets,          \* times the driver advances to
  Definitions,      \* the registry
  InputsAt,         \* [as_of -> sequences of observations a snapshot is built from]
  MaxSnapshots      \* bound: snapshots frozen

VARIABLES
  scheduler,
  drained,          \* every tick drained, in order
  next,             \* the index in drained of the next tick to handle
  snapshots,        \* the snapshots frozen, in order
  slot,
  delivered         \* what the reader took, in order

fastVars == <<scheduler, drained, next, snapshots, slot, delivered>>

FastInit ==
  /\ scheduler = NewScheduler(StartTime, TickCapacity)
  /\ drained = <<>> /\ next = 1 /\ snapshots = <<>> /\ slot = NewSlot /\ delivered = <<>>

AdvanceTo(target) ==
  /\ AdvanceSchedulerError(scheduler, target) = "Ok"
  /\ scheduler' = advance_to_time(scheduler, target)
  /\ scheduler' # scheduler
  /\ UNCHANGED <<drained, next, snapshots, slot, delivered>>

Stop ==
  /\ ~scheduler.cancelled
  /\ scheduler' = [scheduler EXCEPT !.cancelled = TRUE]
  /\ UNCHANGED <<drained, next, snapshots, slot, delivered>>

Drain(maximum) ==
  /\ scheduler.pending # <<>>
  /\ scheduler' = drain_ticks(scheduler, maximum).scheduler
  /\ drained' = drained \o drain_ticks(scheduler, maximum).ticks
  /\ UNCHANGED <<next, snapshots, slot, delivered>>

\* A drained tick is consumed whether or not it becomes a snapshot.
HandleTick(as_of, observations) ==
  /\ next <= Len(drained) /\ Len(snapshots) < MaxSnapshots
  /\ LET tick == drained[next]
         built == SnapshotForTick(Definitions, tick, as_of, observations)
     IN snapshots' = IF built.ok THEN Append(snapshots, built.value) ELSE snapshots
  /\ next' = next + 1
  /\ UNCHANGED <<scheduler, drained, slot, delivered>>

CorrectSnapshot(i, observations) ==
  LET built == CorrectionOf(Definitions, snapshots[i], snapshots[i].as_of, observations)
  IN /\ Len(snapshots) < MaxSnapshots /\ built.ok
     /\ snapshots' = Append(snapshots, built.value)
     /\ UNCHANGED <<scheduler, drained, next, slot, delivered>>

Offer(i) ==
  /\ SlotError(slot, snapshots[i]) = "Ok"
  /\ slot' = slot_publish(slot, snapshots[i])
  /\ UNCHANGED <<scheduler, drained, next, snapshots, delivered>>

Take ==
  /\ slot.latest # NoSnapshot
  /\ slot' = take_latest(slot).slot
  /\ delivered' = Append(delivered, take_latest(slot).delivery)
  /\ UNCHANGED <<scheduler, drained, next, snapshots>>

FastNext ==
  \/ \E target \in Targets : AdvanceTo(target)
  \/ Stop
  \/ \E maximum \in 1..2 : Drain(maximum)
  \/ \E as_of \in DOMAIN InputsAt : \E input \in InputsAt[as_of] : HandleTick(as_of, input)
  \/ \E i \in DOMAIN snapshots : \E input \in InputsAt[snapshots[i].as_of] :
       CorrectSnapshot(i, input)
  \/ \E i \in DOMAIN snapshots : Offer(i)
  \/ Take

-----------------------------------------------------------------------------
(* Properties                                                                  *)

\* Every epoch-aligned boundary passed since the start, with the internal one first.
BoundariesThrough(now) ==
  LET At(t) == (IF t % InternalInterval = 0
                THEN <<[at |-> t, kind |-> "Internal100Ms"]>> ELSE <<>>)
               \o (IF t % PublishedInterval = 0 THEN <<[at |-> t, kind |-> "Published1S"]>> ELSE <<>>)
  IN FlattenSeq([i \in 1..(now - StartTime) |-> At(StartTime + i)])

\* FastStateScheduler: "Every due tick is enqueued or the advance fails before mutation".
\* However the driver cuts its advances, whichever of them the full backlog refuses, and whenever
\* it drains, the ticks handed out and waiting are exactly the boundaries passed, once each, in
\* order and numbered without a hole.
TicksExact ==
  LET all == drained \o scheduler.pending
      expected == BoundariesThrough(scheduler.now)
  IN /\ all = [i \in DOMAIN expected |-> [sequence |-> i] @@ expected[i]]
     /\ scheduler.internal + scheduler.published = Len(all)

\* CoalescingSnapshotSlot: a slow reader loses snapshots but never goes back.  Deliveries advance
\* in event time and in knowledge; one of the same event corrects the one before; and the numbers
\* skipped are those reported as coalesced.
DeliveredForward ==
  \A i \in DOMAIN delivered :
    LET d == delivered[i]
        previous == IF i = 1 THEN [sequence |-> 0] ELSE [sequence |-> delivered[i - 1].sequence]
    IN /\ d.sequence = previous.sequence + d.coalesced + 1
       /\ i > 1 => LET p == delivered[i - 1].snapshot
                   IN /\ d.snapshot.as_of >= p.as_of /\ d.snapshot.as_known_at > p.as_known_at
                      /\ d.snapshot.as_of = p.as_of =>
                           \A o \in p.observations : \E q \in d.snapshot.observations :
                             same_correction_identity(o, q) /\ q.revision >= o.revision

-----------------------------------------------------------------------------
(***************************************************************************)
(* crates/fast-state trigger_state.rs and features.rs: the trigger record    *)
(* of one instrument, aggregated from registry observations of its           *)
(* instrument, its asset and its sources.  Values are integers; a logarithm  *)
(* is the tuple of what it is taken of.                                      *)
(***************************************************************************)

CONSTANTS
  MaxTriggerSources,        \* MAX_TRIGGER_SOURCES
  MaxTriggerObservations,   \* MAX_TRIGGER_OBSERVATIONS
  HealthyQuality            \* HEALTHY_QUALITY_MILLIONTHS

Absent == <<>>
Some(v) == <<v>>

-----------------------------------------------------------------------------
(* The frozen input contract                                                   *)

InstrumentFeatures ==
  {"bid_depth_change", "ask_depth_change", "cancellation_rate_per_second",
   "cancellation_to_trade_ratio", "trade_print_sweep_direction", "top_of_book_ofi",
   "liquidation_observed_velocity", "open_interest_relative_change", "mark_index_divergence"}
ConsolidatedFeatures == {"cross_venue_median_absolute_dispersion", "log_return"}
SourceFeatures == {"liquidation_source_completeness_flag", "feature_age_ns",
                   "stale_quote_duration_ns", "source_outage_indicator"}
TriggerFeatures ==
  InstrumentFeatures \cup ConsolidatedFeatures \cup SourceFeatures \cup {"cascade_eligibility_gate"}

\* expected_contract
expected_contract(id) ==
  [role |-> IF id \in SourceFeatures THEN "UncertaintyOnly"
            ELSE IF id = "cascade_eligibility_gate" THEN "GatingOnly" ELSE "ModelEligible",
   value_type |-> IF id \in {"bid_depth_change", "ask_depth_change", "top_of_book_ofi"}
                  THEN "FixedDecimal"
                  ELSE IF id \in {"source_outage_indicator", "cascade_eligibility_gate"}
                  THEN "Boolean"
                  ELSE IF id \in SourceFeatures THEN "Integer" ELSE "Float64",
   scope |-> IF id \in InstrumentFeatures THEN "Instrument"
             ELSE IF id \in SourceFeatures THEN "Source" ELSE "Asset"]

FirstRelease == [major |-> 1, plain |-> TRUE, length |-> 5]

\* validate_contract; canonical maps a feature to its definition in the catalogues.
ContractError(registry, canonical, o) ==
  LET contract == expected_contract(o.id)
      d == registry.definitions[<<o.id, o.version>>]
  IN IF o.version # FirstRelease THEN "FeatureContractMismatch"
     ELSE IF ~Registered(registry, o.id, o.version) THEN "UnknownDefinition"
     ELSE IF \/ d.role # contract.role \/ d.value_type # contract.value_type
             \/ d.scope # contract.scope \/ d # canonical[o.id]
             \/ o.id = "log_return" /\ o.window_id # "rolling_5m"
     THEN "FeatureContractMismatch"
     ELSE ValidateError(registry, o)

-----------------------------------------------------------------------------
(* TriggerStateTarget: instrument, asset, sources, effective_at, known_at       *)

\* try_from_catalog; Resolve(instrument, time) is CatalogSnapshot::resolve_id of a catalogue whose
\* digest verifies: the definition's asset and when it was known, or an error.
TargetFor(Resolve(_, _), instrument, effective_at, sources) ==
  IF sources = <<>> \/ Len(sources) > MaxTriggerSources THEN Fail("InvalidTargetSources")
  ELSE IF effective_at <= 0 THEN Fail("InvalidInstrumentTarget")
  ELSE IF HasDuplicates(sources) THEN Fail("InvalidTargetSources")
  ELSE LET resolved == Resolve(instrument, effective_at)
       IN IF ~resolved.ok THEN Fail("InvalidInstrumentTarget")
          ELSE Done([instrument |-> instrument, asset |-> resolved.value.asset,
                     sources |-> ToSet(sources), effective_at |-> effective_at,
                     known_at |-> resolved.value.known_at])

\* validate_target
TargetError(target, o) ==
  LET scope == expected_contract(o.id).scope
      matches == CASE scope = "Instrument" -> o.entity = [scope |-> scope, of |-> <<target.instrument>>]
                   [] scope = "Asset" -> o.entity = [scope |-> scope, of |-> <<target.asset>>]
                   [] scope = "Source" -> /\ o.entity.scope = scope
                                          /\ o.entity.of[1] \in target.sources
  IN IF ~matches THEN "ObservationTargetMismatch"
     ELSE IF /\ o.id \in ConsolidatedFeatures \cup {"cascade_eligibility_gate"}
             /\ o.coverage.expected # target.sources
     THEN "SourceUniverseMismatch" ELSE "Ok"

-----------------------------------------------------------------------------
(* features.rs                                                                 *)

depth_disappearance(bid, ask) == Max({-bid, -ask, 0})

cancellation_burst(rate, ratio) == <<"ln_1p", rate * ratio>>

dispersion_acceleration(prior, prior_time, current, current_time) ==
  IF current_time <= prior_time THEN Fail("InvalidFeatureHistory")
  ELSE Done(Frac(current - prior, current_time - prior_time))

open_interest_destruction(price_return, change) == Max({-change, 0}) * Abs(price_return)

completeness_weighted_liquidation_pressure(velocity, completeness, destruction) ==
  <<"ln_1p", velocity * completeness * (1 + destruction)>>

\* The range checks collect_present makes on a present value; One is 1.0.
CONSTANT One

ValueOk(o) ==
  LET v == o.datum.value
  IN CASE o.id \in {"cancellation_rate_per_second", "cancellation_to_trade_ratio",
                    "cross_venue_median_absolute_dispersion", "liquidation_observed_velocity",
                    "feature_age_ns", "stale_quote_duration_ns"} -> v >= 0
       [] o.id = "trade_print_sweep_direction" -> v >= -One /\ v <= One
       [] o.id = "open_interest_relative_change" -> v >= -One
       [] o.id = "mark_index_divergence" -> v > -One
       [] o.id = "liquidation_source_completeness_flag" -> v \in 0..4
       [] OTHER -> TRUE

-----------------------------------------------------------------------------
(* TriggerStateBuilder                                                         *)

BuilderError(target, event_time, known_at, observations) ==
  FirstError(<<
    <<\/ event_time <= 0 \/ known_at < event_time \/ target.effective_at # event_time
      \/ target.known_at > known_at, "InvalidEvaluationTime">>,
    <<observations = <<>> \/ Len(observations) > MaxTriggerObservations,
      "InvalidObservationCount">> >>)

same_observation_slot(o, p) ==
  /\ o.id = p.id /\ o.version = p.version /\ o.entity = p.entity /\ o.window_id = p.window_id
  /\ o.start = p.start /\ o.end = p.end

\* mark_feature_missing
FeatureReason(id) ==
  CASE id \in {"bid_depth_change", "ask_depth_change"} -> {"DepthDisappearance"}
    [] id \in {"cancellation_rate_per_second", "cancellation_to_trade_ratio"} ->
         {"CancellationBurst"}
    [] id = "trade_print_sweep_direction" -> {"SweepDirection"}
    [] id = "top_of_book_ofi" -> {"OrderFlowImbalance"}
    [] id = "cross_venue_median_absolute_dispersion" -> {"CrossVenueDispersionAcceleration"}
    [] id = "liquidation_observed_velocity" -> {"LiquidationVelocity"}
    [] id \in {"open_interest_relative_change", "log_return"} -> {"OpenInterestDestruction"}
    [] id = "mark_index_divergence" -> {"MarkIndexDivergence"}
    [] id = "feature_age_ns" -> {"FeatureAge"}
    [] id \in {"liquidation_source_completeness_flag", "cascade_eligibility_gate"} ->
         {"IncompleteLiquidationCoverage"}
    [] OTHER -> {}

\* mark_reason
MissingReasons(id, reason) ==
  FeatureReason(id) \cup
  CASE reason = "Stale" /\ id = "stale_quote_duration_ns" -> {"StaleBook"}
    [] reason \in {"SourceDisconnected", "SequenceGap"} /\ id \in SourceFeatures -> {"SourceLoss"}
    [] reason \in {"InsufficientHistory", "WindowNotFinal"} -> {"InsufficientHistory"}
    [] OTHER -> {}

\* The checks of one turn of build's loop, after the observations before it were accepted.
TurnError(registry, canonical, target, event_time, known_at, before, o) ==
  LET same == {p \in ToSet(before) : p.id = o.id /\ p.entity = o.entity}
      dispersions == {i \in DOMAIN before : before[i].id = o.id}
      expired == event_time - o.end > registry.definitions[<<o.id, o.version>>].time_to_live
      used == ~expired /\ o.datum.present
      usedBefore == {i \in dispersions : before[i].datum.present /\
                       event_time - before[i].end
                         <= registry.definitions[<<o.id, o.version>>].time_to_live}
  IN IF o.id \notin TriggerFeatures THEN "UnsupportedFeature"
     ELSE IF ContractError(registry, canonical, o) # "Ok"
     THEN ContractError(registry, canonical, o)
     ELSE IF TargetError(target, o) # "Ok" THEN TargetError(target, o)
     ELSE IF o.end > event_time \/ o.as_known_at > known_at \/ o.computed_at > known_at
     THEN "ObservationNotAvailable"
     ELSE IF o.id # "cross_venue_median_absolute_dispersion" /\ same # {}
     THEN "DuplicateFeatureSlot"
     ELSE IF o.id = "cross_venue_median_absolute_dispersion" /\ used /\ Cardinality(usedBefore) = 2
     THEN "DuplicateFeatureSlot"
     ELSE IF used /\ ~ValueOk(o) THEN "InvalidFeatureValue"
     ELSE "Ok"

LoopError(registry, canonical, target, event_time, known_at, observations) ==
  LET Error(i) == TurnError(registry, canonical, target, event_time, known_at,
                            SubSeq(observations, 1, i - 1), observations[i])
      failing == {i \in DOMAIN observations : Error(i) # "Ok"}
  IN IF \E i, j \in DOMAIN observations :
          i < j /\ same_observation_slot(observations[i], observations[j])
     THEN "DuplicateObservation"
     ELSE IF failing = {} THEN "Ok" ELSE Error(Min(failing))

\* Mutant: values survive the loss of a source.
KeptUnlessLostNot(loss, value) == value

\* if source_loss { value = None }
KeptUnlessLost(loss, value) == IF loss THEN Absent ELSE value

\* build, on accepted observations: what the loop collected, then the record.
TriggerRecord(registry, target, event_time, observations) ==
  LET all == ToSet(observations)
      Definition(o) == registry.definitions[<<o.id, o.version>>]
      expired == {o \in all : event_time - o.end > Definition(o).time_to_live}
      missing == {o \in all \ expired : ~o.datum.present}
      used == all \ (expired \cup missing)
      Value(id) == LET mine == {o \in used : o.id = id}
                   IN IF mine = {} THEN Absent ELSE Some((CHOOSE o \in mine : TRUE).datum.value)
      End(id) == (CHOOSE o \in used : o.id = id).end
      Both(a, b, F(_, _)) == IF a = Absent \/ b = Absent THEN Absent ELSE Some(F(a[1], b[1]))
      degraded == \E o \in all : \E s \in DOMAIN o.coverage.health :
                    o.coverage.health[s] # "Healthy"
      outage == \E o \in used : o.id = "source_outage_indicator" /\ o.datum.value
      flags == {o \in used : o.id = "liquidation_source_completeness_flag"}
      looped == UNION {{"ExpiredInput"} \cup FeatureReason(o.id) : o \in expired}
                \cup UNION {MissingReasons(o.id, o.datum.reason) : o \in missing}
                \cup (IF \E o \in flags : o.datum.value \notin {1, 2}
                      THEN {"IncompleteLiquidationCoverage"} ELSE {})
                \cup (IF degraded THEN {"SourceQualityDegraded"} ELSE {})
                \cup (IF \E o \in used : o.id = "stale_quote_duration_ns" /\ o.datum.value > 0
                      THEN {"StaleBook"} ELSE {})
                \cup (IF outage THEN {"SourceLoss"} ELSE {})
      stale == "StaleBook" \in looped
      loss == "SourceLoss" \in looped \/ degraded
      eligible == Value("cascade_eligibility_gate")
      depth == IF stale THEN Absent
               ELSE Both(Value("bid_depth_change"), Value("ask_depth_change"), depth_disappearance)
      cancellation == Both(Value("cancellation_rate_per_second"),
                           Value("cancellation_to_trade_ratio"), cancellation_burst)
      history == SetToSortSeq({o \in used : o.id = "cross_venue_median_absolute_dispersion"},
                              LAMBDA o, p : o.end < p.end)
      dispersion == IF Len(history) # 2 THEN Done(Absent)
                    ELSE Then(dispersion_acceleration(history[1].datum.value, history[1].end,
                                                      history[2].datum.value, history[2].end),
                              LAMBDA v : Done(Some(v)))
      misaligned == /\ Value("open_interest_relative_change") # Absent /\ Value("log_return") # Absent
                    /\ End("open_interest_relative_change") # End("log_return")
      oi == Both(Value("log_return"), Value("open_interest_relative_change"),
                 open_interest_destruction)
      complete == {s \in target.sources : \E o \in flags :
                     o.entity.of[1] = s /\ o.datum.value \in {1, 2}}
      completeness == (Cardinality(complete) * MaxScore) \div Cardinality(target.sources)
      confirmed == IF eligible = Absent THEN Absent ELSE Some(IF eligible[1] THEN 1 ELSE 0)
      velocity == Value("liquidation_observed_velocity")
      pressure == IF confirmed = Absent \/ velocity = Absent \/ oi = Absent THEN Absent
                  ELSE Some(completeness_weighted_liquidation_pressure(velocity[1], confirmed[1], oi[1]))
      ages == {o.datum.value : o \in {o \in used : o.id = "feature_age_ns"}}
      outputs == [DepthDisappearance |-> KeptUnlessLost(loss, depth),
                  CancellationBurst |-> KeptUnlessLost(loss, cancellation),
                  SweepDirection |-> KeptUnlessLost(loss, Value("trade_print_sweep_direction")),
                  OrderFlowImbalance |-> KeptUnlessLost(loss, Value("top_of_book_ofi")),
                  CrossVenueDispersionAcceleration |-> KeptUnlessLost(loss, dispersion.value),
                  LiquidationVelocity |-> KeptUnlessLost(loss, velocity),
                  LiquidationPressure |-> KeptUnlessLost(loss, pressure),
                  OpenInterestDestruction |-> KeptUnlessLost(loss, oi),
                  MarkIndexDivergence |-> KeptUnlessLost(loss, Value("mark_index_divergence")),
                  FeatureAge |-> IF ages = {} THEN Absent ELSE Some(Max(ages))]
      missingness == looped
                     \cup (IF Len(history) # 2 THEN {"InsufficientHistory"} ELSE {})
                     \cup (IF confirmed \in {Absent, Some(0)} THEN {"CascadeIneligible"} ELSE {})
                     \cup {f \in DOMAIN outputs : outputs[f] = Absent}
      quality == Min({o.quality : o \in all})
      coverage == Min({coverage_millionths(o.coverage) : o \in all})
      confirms == eligible # Absent /\ eligible[1]
  IN IF confirms /\ (stale \/ loss) THEN Fail("InconsistentCascadeEligibility")
     ELSE IF ~dispersion.ok \/ misaligned THEN Fail("InvalidFeatureHistory")
     ELSE IF confirms /\ completeness # MaxScore THEN Fail("InconsistentCascadeEligibility")
     ELSE Done([outputs |-> outputs, completeness |-> completeness, missingness |-> missingness,
                quality |-> quality, coverage |-> coverage,
                health |-> IF loss THEN "Unavailable"
                           ELSE IF missingness # {} \/ quality < HealthyQuality
                                   \/ coverage < MaxScore THEN "Degraded" ELSE "Healthy"])

\* TriggerStateBuilder::build
BuildTrigger(registry, canonical, target, event_time, known_at, observations) ==
  LET error == LoopError(registry, canonical, target, event_time, known_at, observations)
  IN IF BuilderError(target, event_time, known_at, observations) # "Ok"
     THEN Fail(BuilderError(target, event_time, known_at, observations))
     ELSE IF error # "Ok" THEN Fail(error)
     ELSE TriggerRecord(registry, target, event_time, observations)
=============================================================================
