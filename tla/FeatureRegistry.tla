--------------------------- MODULE FeatureRegistry ---------------------------
(***************************************************************************)
(* crates/feature-engine/src/watermark.rs: the event-time watermark tracker *)
(* of one entity and the evidence it hands out.  A tracker is a record; a   *)
(* digest is the tuple of what is hashed, so equal digests are equal inputs.*)
(***************************************************************************)
EXTENDS Results, FiniteSetsExt

CONSTANTS
  MaxI64,           \* i64::MAX, scaled down: a sum above it overflows
  MaxPartitions     \* MAX_PARTITIONS

NoTime == -1
NoHealth == "none"

HealthStates == {"Healthy", "Degraded", "Unhealthy", "Quarantined", "Recovering"}

health_severity(state) ==
  CASE state = "Healthy" -> 0 [] state = "Recovering" -> 1 [] state = "Degraded" -> 2
    [] state = "Unhealthy" -> 3 [] state = "Quarantined" -> 4

worse_health(left, right) == IF health_severity(left) >= health_severity(right) THEN left ELSE right

-----------------------------------------------------------------------------
(* Construction.  configs is a sequence of [source, partition, role].          *)

KeyOf(config) == [source |-> config.source, partition |-> config.partition]

\* fingerprint_policy: lateness, keys and roles, allowed health and the entity.
fingerprint_policy(configs, lateness, health, entity) == <<lateness, configs, health, entity>>

\* canonical_required_sources: adjacent keys of one source count once.
canonical_required_sources(partitions) ==
  {key.source : key \in {k \in DOMAIN partitions : partitions[k].role = "Required"}}

\* WatermarkTracker::try_new and try_new_for_entity; health is a sequence.
TrackerError(configs, lateness, health) ==
  IF \/ configs = <<>> \/ Len(configs) > MaxPartitions
     \/ health = <<>> \/ Len(health) > Cardinality(HealthStates)
     \/ lateness > MaxI64
     \/ \A i \in DOMAIN configs : configs[i].role # "Required"
     \/ \E i, j \in DOMAIN health : i < j /\ health[i] = health[j]
  THEN "InvalidTracker"
  ELSE IF \E i, j \in DOMAIN configs : i < j /\ KeyOf(configs[i]) = KeyOf(configs[j])
  THEN "DuplicatePartition"
  ELSE "Ok"

NewTracker(configs, lateness, health, entity) ==
  LET named == {configs[i] : i \in DOMAIN configs}
      allowed == {health[i] : i \in DOMAIN health}
      partitions == [key \in {KeyOf(c) : c \in named} |->
                      [role |-> (CHOOSE c \in named : KeyOf(c) = key).role,
                       watermark |-> NoTime, as_known_at |-> NoTime, health |-> NoHealth]]
  IN [partitions |-> partitions,
      allowed_lateness |-> lateness,
      allowed_health |-> allowed,
      update_sequence |-> 0,
      policy_id |-> fingerprint_policy(named, lateness, allowed, entity),
      entity |-> entity,
      required |-> canonical_required_sources(partitions)]

-----------------------------------------------------------------------------
(* What the tracker says of a window                                           *)

Required(tracker) ==
  {tracker.partitions[k] : k \in {k \in DOMAIN tracker.partitions :
                                    tracker.partitions[k].role = "Required"}}

Allowed(tracker, partition) == partition.health \in tracker.allowed_health

\* evaluate: an unhealthy required partition decides before an incomplete one.
evaluate(tracker, window) ==
  LET threshold == window.end + tracker.allowed_lateness
  IN IF threshold > MaxI64 THEN "Invalid"
     ELSE IF \E p \in Required(tracker) : p.health # NoHealth /\ ~Allowed(tracker, p) THEN "Invalid"
     ELSE IF \A p \in Required(tracker) : p.health # NoHealth /\ p.watermark >= threshold THEN "Final"
     ELSE "Provisional"

minimum_required_watermark(tracker) ==
  IF \E p \in Required(tracker) : p.watermark = NoTime THEN NoTime
  ELSE Min({p.watermark : p \in Required(tracker)})

latest_as_known_at(tracker) ==
  Max({tracker.partitions[k].as_known_at : k \in DOMAIN tracker.partitions})

\* effective_frontier: unavailable until every required partition is seen and healthy.
effective_frontier(tracker) ==
  IF \E p \in Required(tracker) : p.health = NoHealth \/ ~Allowed(tracker, p) THEN NoTime
  ELSE Max({0, minimum_required_watermark(tracker) - tracker.allowed_lateness})

decision(tracker, window) ==
  [window |-> window,
   state |-> evaluate(tracker, window),
   watermark |-> minimum_required_watermark(tracker),
   as_known_at |-> Max({latest_as_known_at(tracker), window.end}),
   entity |-> tracker.entity,
   required |-> tracker.required,
   evaluation_sequence |-> tracker.update_sequence,
   policy_id |-> tracker.policy_id]

\* evidence_digest hashes every field of the decision.
evidence_digest(d) == d


validates_decision(tracker, d, entity) ==
  /\ d.policy_id = tracker.policy_id
  /\ d.evaluation_sequence = tracker.update_sequence
  /\ d.entity = entity

\* coverage_for_decision: of each required source the worst health of its required partitions, if
\* all of them are known.  NoCoverage unless the decision is this tracker's latest.
NoCoverage == [expected |-> {}, health |-> <<>>]

coverage_for_decision(tracker, d) ==
  LET Mine(s) == {k \in DOMAIN tracker.partitions :
                    k.source = s /\ tracker.partitions[k].role = "Required"}
      Healths(s) == {tracker.partitions[k].health : k \in Mine(s)}
      observed == {s \in tracker.required : NoHealth \notin Healths(s)}
  IN IF \/ d.policy_id # tracker.policy_id \/ d.evaluation_sequence # tracker.update_sequence
        \/ d.required # canonical_required_sources(tracker.partitions)
     THEN NoCoverage
     ELSE [expected |-> tracker.required,
           health |-> [s \in observed |->
                        CHOOSE h \in Healths(s) : \A g \in Healths(s) : worse_health(h, g) = h]]

-----------------------------------------------------------------------------
(* Operations that change the tracker                                          *)

\* WatermarkTracker::advance
AdvanceError(tracker, key, update) ==
  IF update.event_time <= 0 \/ update.as_known_at < update.event_time THEN "InvalidWatermark"
  ELSE IF key \notin DOMAIN tracker.partitions THEN "UnknownPartition"
  ELSE IF update.event_time < tracker.partitions[key].watermark THEN "Regression"
  ELSE IF update.as_known_at < tracker.partitions[key].as_known_at THEN "InvalidWatermark"
  ELSE "Ok"

advance(tracker, key, update) ==
  [tracker EXCEPT
    !.partitions[key] = [@ EXCEPT !.watermark = update.event_time,
                                  !.as_known_at = update.as_known_at,
                                  !.health = update.health],
    !.update_sequence = @ + 1]

\* WatermarkTracker::correction
CorrectionError(tracker, key, window, corrected) ==
  IF corrected < window.start \/ corrected >= window.end THEN "InvalidCorrectionTime"
  ELSE IF key \notin DOMAIN tracker.partitions THEN "UnknownPartition"
  ELSE IF ~Allowed(tracker, tracker.partitions[key]) \/ evaluate(tracker, window) # "Final"
  THEN "InvalidCorrectionState"
  ELSE "Ok"

correction(tracker, key, window, corrected) ==
  LET sequence == tracker.update_sequence + 1
  IN [tracker |-> [tracker EXCEPT !.update_sequence = sequence],
      decision |-> [window |-> window, source |-> key, corrected_event_time |-> corrected,
                    evaluation_sequence |-> sequence, policy_id |-> tracker.policy_id]]

-----------------------------------------------------------------------------
(***************************************************************************)
(* crates/feature-engine/src/window.rs and clock.rs: which windows an event *)
(* belongs to, the incremental window states, the revision history of a     *)
(* window and the logical clock.  States are records; an operation is an    *)
(* error operator, and the next state when the error is "Ok".               *)
(* A floating-point average is kept as the term that was computed: the      *)
(* sequence of samples folded into it, each with the time since the last.   *)
(***************************************************************************)

CONSTANTS
  MaxMemberships,   \* MAX_SLIDING_MEMBERSHIPS
  MaxTimers,        \* MAX_TIMER_CAPACITY
  MaxEwmaSamples,   \* MAX_EWMA_SAMPLES
  MaxRevisions      \* MAX_REVISIONS_PER_WINDOW

CeilDiv(a, b) == (a + b - 1) \div b

-----------------------------------------------------------------------------
(* Time windows.  A definition is [kind, extent, advance, anchor]; advance 0   *)
(* is None.  \div rounds down, which is div_euclid for a positive divisor.     *)

TimeWindowOk(start, end) == start >= 0 /\ end > start

validate_time_shape(extent, anchor) == extent > 0 /\ extent <= MaxI64 /\ anchor >= 0

validate_sliding_shape(extent, step) ==
  IF step = 0 \/ step > extent THEN "InvalidWindowSpec"
  ELSE IF CeilDiv(extent, step) > MaxMemberships THEN "MembershipCapacity"
  ELSE "Ok"

\* TimeWindowSpec::try_from_definition
SpecError(def) ==
  CASE def.kind = "Tumbling" /\ def.advance = 0 ->
         IF validate_time_shape(def.extent, 0) THEN "Ok" ELSE "InvalidWindowSpec"
    [] def.kind = "Sliding" /\ def.advance # 0 ->
         IF validate_time_shape(def.extent, 0)
         THEN validate_sliding_shape(def.extent, def.advance) ELSE "InvalidWindowSpec"
    [] def.kind = "SessionAligned" ->
         IF validate_time_shape(def.extent, def.anchor) THEN "Ok" ELSE "InvalidWindowSpec"
    [] OTHER -> "DefinitionKindMismatch"

\* aligned_window: the one window of an aligned grid; before the epoch it is refused.
aligned_window(event_time, extent, anchor) ==
  LET start == anchor + ((event_time - anchor) \div extent) * extent
  IN IF start + extent > MaxI64 THEN Fail("ArithmeticOverflow")
     ELSE IF ~TimeWindowOk(start, start + extent) THEN Fail("InvalidTimeWindow")
     ELSE Done(<<[start |-> start, end |-> start + extent]>>)

\* The sliding windows of an event, oldest first: every offset is computed and checked for
\* overflow, even one that is then filtered out.
sliding_windows(event_time, extent, step) ==
  LET latest == (event_time \div step) * step
      count == CeilDiv(extent, step)
      starts == [i \in 1..count |-> latest - (count - i) * step]
      Member(start) == start >= 0 /\ start <= event_time /\ event_time < start + extent
      kept == SelectSeq(starts, Member)
  IN IF \E i \in 1..count : starts[i] + extent > MaxI64 THEN Fail("ArithmeticOverflow")
     ELSE Done([i \in DOMAIN kept |-> [start |-> kept[i], end |-> kept[i] + extent]])

\* TimeWindowSpec::windows_for
windows_for(def, event_time) ==
  IF event_time <= 0 THEN Fail("InvalidEventTime")
  ELSE IF def.kind = "Sliding" THEN sliding_windows(event_time, def.extent, def.advance)
  ELSE aligned_window(event_time, def.extent, IF def.kind = "Tumbling" THEN 0 ELSE def.anchor)

-----------------------------------------------------------------------------
(* HalfLifeEwmaState                                                           *)

NoTerm == <<>>

NewEwma(tracker, capacity) ==
  [capacity |-> capacity, samples |-> <<>>,
   checkpoint |-> [event_time |-> NoTime, value |-> NoTerm],
   compacted_through |-> NoTime, next_arrival_sequence |-> 0, value |-> NoTerm,
   policy_id |-> tracker.policy_id]

EwmaError(half_life, capacity) ==
  IF half_life = 0 \/ half_life > MaxI64 THEN "InvalidWindowSpec"
  ELSE IF capacity = 0 \/ capacity > MaxEwmaSamples THEN "InvalidEwmaCapacity"
  ELSE "Ok"

\* compute_ewma: a sample at the time of the one before it has weight 1 - 2^0 = 0.
compute_ewma(checkpoint, samples) ==
  LET Fold(acc, s) ==
        [event_time |-> s.event_time,
         value |-> IF acc.value = NoTerm THEN << <<0, s.value>> >>
                   ELSE IF s.event_time = acc.event_time THEN acc.value
                   ELSE Append(acc.value, <<s.event_time - acc.event_time, s.value>>)]
  IN FoldLeft(Fold, checkpoint, samples)

SampleOrder(s, t) ==
  \/ s.event_time < t.event_time
  \/ s.event_time = t.event_time /\ s.arrival_sequence < t.arrival_sequence

\* Mutant: a sample older than the checkpoint is taken.
UpdateAtErrorUnchecked(ewma, event_time) ==
  IF event_time <= 0 THEN "InvalidEwmaInput"
  ELSE IF Len(ewma.samples) >= ewma.capacity THEN "EwmaCapacity"
  ELSE "Ok"

UpdateAtError(ewma, event_time) ==
  IF event_time <= 0 THEN "InvalidEwmaInput"
  ELSE IF ewma.compacted_through # NoTime /\ event_time <= ewma.compacted_through
  THEN "EwmaBeforeWatermark"
  ELSE IF Len(ewma.samples) >= ewma.capacity THEN "EwmaCapacity"
  ELSE "Ok"

update_at(ewma, event_time, input) ==
  LET sample == [event_time |-> event_time,
                 arrival_sequence |-> ewma.next_arrival_sequence, value |-> input]
      samples == SortSeq(Append(ewma.samples, sample), SampleOrder)
  IN [ewma EXCEPT !.samples = samples, !.next_arrival_sequence = @ + 1,
                  !.value = compute_ewma(ewma.checkpoint, samples).value]

AdvanceWatermarkError(ewma, tracker) ==
  LET frontier == effective_frontier(tracker)
  IN IF tracker.policy_id # ewma.policy_id THEN "ForeignWatermarkPolicy"
     ELSE IF frontier = NoTime THEN "EwmaWatermarkUnavailable"
     ELSE IF frontier < ewma.compacted_through THEN "EwmaWatermarkRegression"
     ELSE "Ok"

\* advance_watermark: the prefix at or before the frontier becomes the checkpoint.
advance_watermark(ewma, tracker) ==
  LET frontier == effective_frontier(tracker)
      Settled(s) == s.event_time <= frontier
      Pending(s) == ~Settled(s)
      prefix == SelectSeq(ewma.samples, Settled)
  IN IF frontier = ewma.compacted_through THEN ewma
     ELSE [ewma EXCEPT
            !.samples = SelectSeq(@, Pending),
            !.checkpoint = IF prefix = <<>> THEN @ ELSE compute_ewma(@, prefix),
            !.compacted_through = frontier]

-----------------------------------------------------------------------------
(* EventCountState and ThresholdWindowState                                    *)

NewCount(extent, step) ==
  [extent |-> extent, advance |-> IF step = 0 THEN extent ELSE step,
   observed |-> 0, next_index |-> 0]

CountError(extent, step) == IF step > extent THEN "InvalidWindowSpec" ELSE "Ok"

\* observe: the closed window if the event completes one, and the next state.
observe_event(state) ==
  LET observed == state.observed + 1
      closes == observed >= state.extent /\ (observed - state.extent) % state.advance = 0
  IN [closed |-> IF closes THEN <<[index |-> state.next_index, last |-> observed,
                                   first |-> observed - (state.extent - 1)]>>
                 ELSE <<>>,
      state |-> [state EXCEPT !.observed = observed,
                              !.next_index = IF closes THEN @ + 1 ELSE @]]

NewThreshold(threshold) == [threshold |-> threshold, accumulated |-> 0, next_index |-> 0]

observe_amount(state, amount) ==
  LET total == state.accumulated + amount
      closes == total >= state.threshold
  IN [closed |-> IF closes THEN <<[index |-> state.next_index, total |-> total]>> ELSE <<>>,
      state |-> [state EXCEPT !.accumulated = IF closes THEN 0 ELSE total,
                              !.next_index = IF closes THEN @ + 1 ELSE @]]

-----------------------------------------------------------------------------
(* WindowLifecycle                                                             *)

NewLifecycle(tracker, windows, revisions) ==
  [window_capacity |-> windows, revision_capacity |-> revisions,
   histories |-> [w \in {} |-> <<>>], policy_id |-> tracker.policy_id]

LifecycleError(windows, revisions) ==
  IF windows = 0 \/ revisions < 2 \/ revisions > MaxRevisions THEN "InvalidLifecycle" ELSE "Ok"

Emission(revision, finality, sequence) ==
  [revision |-> revision, finality |-> finality, decision_sequence |-> sequence]

append_revision(lifecycle, window, finality, sequence) ==
  [lifecycle EXCEPT !.histories[window] =
     Append(@, Emission(Last(@).revision + 1, finality, sequence))]

\* Mutant: the order of decisions is not checked.
ApplyErrorUnordered(lifecycle, d) ==
  IF d.policy_id # lifecycle.policy_id THEN "ForeignWatermarkPolicy"
  ELSE IF \/ d.window \in DOMAIN lifecycle.histories
          \/ Cardinality(DOMAIN lifecycle.histories) < lifecycle.window_capacity THEN "Ok"
  ELSE "WindowCapacity"

\* WindowLifecycle::apply
ApplyError(lifecycle, d) ==
  LET known == d.window \in DOMAIN lifecycle.histories
      previous == Last(lifecycle.histories[d.window])
  IN IF d.policy_id # lifecycle.policy_id THEN "ForeignWatermarkPolicy"
     ELSE IF ~known THEN IF Cardinality(DOMAIN lifecycle.histories) >= lifecycle.window_capacity
                         THEN "WindowCapacity" ELSE "Ok"
     ELSE IF d.evaluation_sequence <= previous.decision_sequence THEN "StaleFinalizationDecision"
     ELSE IF d.state \in {"Provisional", "Final"} /\ previous.finality # "Provisional"
     THEN "InvalidTransition"
     ELSE IF d.state = "Invalid" /\ previous.finality = "Invalid" THEN "InvalidTransition"
     ELSE IF Len(lifecycle.histories[d.window]) >= lifecycle.revision_capacity
     THEN "RevisionCapacity"
     ELSE "Ok"

apply(lifecycle, d) ==
  IF d.window \in DOMAIN lifecycle.histories
  THEN append_revision(lifecycle, d.window, d.state, d.evaluation_sequence)
  ELSE [lifecycle EXCEPT !.histories =
          (d.window :> <<Emission(1, d.state, d.evaluation_sequence)>>) @@ @]

\* WindowLifecycle::correct
CorrectError(lifecycle, c) ==
  IF c.policy_id # lifecycle.policy_id THEN "ForeignWatermarkPolicy"
  ELSE IF c.window \notin DOMAIN lifecycle.histories THEN "UnknownWindow"
  ELSE LET previous == Last(lifecycle.histories[c.window])
       IN IF previous.finality \notin {"Final", "Corrected", "Invalid"} THEN "InvalidTransition"
          ELSE IF c.evaluation_sequence <= previous.decision_sequence
          THEN "StaleFinalizationDecision"
          ELSE IF Len(lifecycle.histories[c.window]) >= lifecycle.revision_capacity
          THEN "RevisionCapacity"
          ELSE "Ok"

correct(lifecycle, c) ==
  append_revision(lifecycle, c.window, "Corrected", c.evaluation_sequence)

-----------------------------------------------------------------------------
(* LogicalClock and RecordedClock.  deadlines maps a timer to its deadline; the *)
(* timers map is the same set ordered by deadline and then by id.              *)

ClockError(now, capacity) ==
  IF now <= 0 \/ capacity = 0 \/ capacity > MaxTimers THEN "InvalidClock" ELSE "Ok"

NewClock(now, capacity) == [now |-> now, capacity |-> capacity, deadlines |-> [t \in {} |-> 0]]


ScheduleError(clock, id, deadline) ==
  IF deadline < clock.now THEN "DeadlineBeforeNow"
  ELSE IF id \in DOMAIN clock.deadlines THEN "DuplicateTimer"
  ELSE IF Cardinality(DOMAIN clock.deadlines) >= clock.capacity THEN "TimerCapacity"
  ELSE "Ok"

schedule(clock, id, deadline) == [clock EXCEPT !.deadlines = (id :> deadline) @@ @]

cancel(clock, id) == [clock EXCEPT !.deadlines = [t \in DOMAIN @ \ {id} |-> @[t]]]

AdvanceToError(clock, target) == IF target < clock.now THEN "Regression" ELSE "Ok"

\* advance_to: the due timers by (deadline, id), and the clock without them.
advance_to(clock, target) ==
  LET due == {t \in DOMAIN clock.deadlines : clock.deadlines[t] <= target}
      Before(a, b) == \/ clock.deadlines[a] < clock.deadlines[b]
                      \/ clock.deadlines[a] = clock.deadlines[b] /\ a < b
  IN [due |-> SetToSortSeq(due, Before),
      clock |-> [clock EXCEPT !.now = target,
                              !.deadlines = [t \in DOMAIN @ \ due |-> @[t]]]]

RecordedTimestampOk(stamp) == stamp.event_time > 0 /\ stamp.receive_time > 0

\* RecordedClock::advance: a late event does not move an event-time clock.
RecordedAdvance(clock, basis, stamp) ==
  IF basis = "EventTime" /\ stamp.event_time < clock.now THEN [due |-> <<>>, clock |-> clock]
  ELSE advance_to(clock, IF basis = "EventTime" THEN stamp.event_time ELSE stamp.receive_time)

-----------------------------------------------------------------------------
(***************************************************************************)
(* crates/feature-registry: the definitions of features and what an         *)
(* observation must satisfy to be accepted against its definition.          *)
(* Identifiers, hashes and versions are values; only the facts about them   *)
(* that the code branches on are kept (ReleaseVersion, VersionFits).        *)
(***************************************************************************)

CONSTANTS
  MaxSources,         \* MAX_SOURCE_COVERAGE
  MaxScore,           \* QualityScore::MAX_MILLIONTHS
  MaxDefinitions      \* MAX_REGISTRY_DEFINITIONS

\* validate_version bounds the text only; the release test is valid_release_version's.
VersionFits(v) == v.length <= 64
ReleaseVersion(v) == v.major > 0 /\ v.plain

-----------------------------------------------------------------------------
(* Source coverage: expected sources, and the health of the observed ones.     *)

\* SourceCoverage::try_new_partial on sequences of sources and of [source, health].
CoverageError(expected, observed) ==
  FirstError(<<
    <<expected = <<>> \/ Len(expected) > MaxSources, "InvalidSourceCoverage">>,
    <<HasDuplicates(expected), "DuplicateSource">>,
    <<Len(observed) > MaxSources, "InvalidSourceCoverage">>,
    <<HasDuplicates([i \in DOMAIN observed |-> observed[i].source]), "DuplicateSource">>,
    <<\E i \in DOMAIN observed : observed[i].source \notin ToSet(expected), "UnexpectedSource">> >>)

coverage_millionths(coverage) ==
  (Cardinality(DOMAIN coverage.health) * MaxScore) \div Cardinality(coverage.expected)

-----------------------------------------------------------------------------
(* Definitions                                                                 *)

\* The WindowDefinition constructors: kind, extent (or half life, events, threshold), advance
\* (0 is None) and anchor.
WindowDefinitionOk(def) ==
  CASE def.kind = "Sliding" -> /\ def.extent > 0 /\ def.extent <= MaxI64
                               /\ def.advance > 0 /\ def.advance <= def.extent
    [] def.kind = "Tumbling" -> def.extent > 0 /\ def.extent <= MaxI64 /\ def.advance = 0
    [] def.kind = "SessionAligned" -> def.extent > 0 /\ def.extent <= MaxI64 /\ def.anchor > 0
    [] def.kind = "ExponentiallyWeighted" -> def.extent > 0 /\ def.extent <= MaxI64
    [] def.kind = "EventCount" -> def.extent > 0 /\ def.advance <= def.extent
    [] def.kind \in {"Volume", "Notional"} -> def.extent > 0

\* QualityRequirement::try_new: the states are deduplicated, and may not be empty.
QualityRequirementOk(states) == states # <<>> /\ Len(states) <= Cardinality(HealthStates)

validate_duration(duration, zero_allowed) == (zero_allowed \/ duration > 0) /\ duration <= MaxI64

\* FeatureDefinition::try_new; windows is a sequence of window definitions with an id.
DefinitionError(d) ==
  FirstError(<<
    <<~VersionFits(d.version), "InvalidVersion">>,
    <<~d.documented, "DocumentationFeatureMismatch">>,
    <<~validate_duration(d.output_resolution, FALSE), "InvalidDefinition">>,
    <<~validate_duration(d.allowed_lateness, TRUE), "InvalidDefinition">>,
    <<~validate_duration(d.time_to_live, FALSE), "InvalidDefinition">>,
    <<d.time_to_live < d.output_resolution \/ d.allowed_lateness > d.time_to_live,
      "InvalidDefinition">>,
    <<d.inputs = <<>>, "InvalidDefinition">>,
    <<HasDuplicates(d.inputs), "DuplicateInput">>,
    <<d.windows = <<>>, "InvalidDefinition">>,
    <<HasDuplicates([i \in DOMAIN d.windows |-> d.windows[i].id]), "DuplicateWindow">> >>)

\* FeatureDefinition::window
WindowsNamed(d, id) == {d.windows[i] : i \in {i \in DOMAIN d.windows : d.windows[i].id = id}}

\* FeatureRegistry::contains, get, register.  A registry maps <<id, version>> to a definition.
Registered(registry, id, version) ==
  VersionFits(version) /\ <<id, version>> \in DOMAIN registry.definitions

RegisterError(registry, d) ==
  IF Registered(registry, d.id, d.version) THEN "DuplicateDefinition"
  ELSE IF Cardinality(DOMAIN registry.definitions) = registry.capacity
  THEN "RegistryCapacityExceeded" ELSE "Ok"

register(registry, d) ==
  [registry EXCEPT !.definitions = (<<d.id, d.version>> :> d) @@ @]

NewRegistry(capacity) == [capacity |-> capacity, definitions |-> [k \in {} |-> 0]]

\* ensure_model_input
ModelInputError(registry, id, version) ==
  IF ~Registered(registry, id, version) THEN "UnknownDefinition"
  ELSE IF registry.definitions[<<id, version>>].role # "ModelEligible"
  THEN "DefinitionNotModelEligible" ELSE "Ok"

-----------------------------------------------------------------------------
(* Observations                                                                *)

\* validate_times
TimesOk(o) ==
  /\ o.start > 0 /\ o.start <= o.end /\ o.end <= o.as_known_at /\ o.as_known_at <= o.computed_at
  /\ o.watermark # NoTime => o.watermark > 0 /\ o.watermark <= o.computed_at
  /\ o.finality_as_known_at > 0
  /\ o.finality_as_known_at <= o.as_known_at /\ o.finality_as_known_at <= o.computed_at
  /\ o.watermark # NoTime => o.watermark <= o.finality_as_known_at
  /\ o.resolution > 0 /\ o.resolution <= MaxI64

\* The entity checks of FeatureObservation::try_new: a pair of assets is ordered, a pair of
\* sources distinct.
EntityOk(entity) ==
  /\ entity.scope = "AssetPair" => entity.of[1] < entity.of[2]
  /\ entity.scope = "AssetSourcePair" => entity.of[2] # entity.of[3]

\* FeatureObservation::try_new
ObservationError(o) ==
  FirstError(<<
    <<~VersionFits(o.version), "InvalidVersion">>,
    <<~VersionFits(o.normalization), "InvalidVersion">>,
    <<~TimesOk(o), "InvalidTimeOrdering">>,
    <<o.finality = "Corrected" /\ o.revision = 1, "InvalidCorrectionRevision">>,
    <<o.datum.present /\ o.datum.type # o.value_type, "ValueTypeMismatch">>,
    <<o.finality = "Invalid" /\ o.datum.present, "InvalidObservationMustBeMissing">>,
    <<o.watermark = NoTime /\ (o.finality # "Invalid" \/ o.datum.present), "InvalidTimeOrdering">>,
    <<~EntityOk(o.entity), "InvalidObservationEntity">> >>)

\* window_geometry_matches: what the registry knows of a window's shape and alignment.
window_geometry_matches(def, resolution, start, end) ==
  CASE def.kind = "Sliding" -> end - start = def.extent /\ start % def.advance = 0
    [] def.kind = "Tumbling" -> end - start = def.extent /\ start % def.extent = 0
    [] def.kind = "SessionAligned" ->
         end - start = def.extent /\ (start - def.anchor) % def.extent = 0
    [] def.kind = "ExponentiallyWeighted" -> end - start = def.extent /\ start % resolution = 0
    [] OTHER -> end >= start

\* entity_matches: the scope names the variant of the entity.
entity_matches(scope, entity) == scope = entity.scope

\* FeatureRegistry::validate_observation
ValidateError(registry, o) ==
  IF ~Registered(registry, o.id, o.version) THEN "UnknownDefinition"
  ELSE
    LET d == registry.definitions[<<o.id, o.version>>]
        named == WindowsNamed(d, o.window_id)
        settled == o.finality \in {"Final", "Corrected"}
    IN FirstError(<<
         <<~entity_matches(d.scope, o.entity), "EntityScopeMismatch">>,
         <<\A w \in named : ~window_geometry_matches(w, d.output_resolution, o.start, o.end),
           "WindowMismatch">>,
         <<d.output_resolution # o.resolution, "ResolutionMismatch">>,
         <<d.value_type # o.value_type, "ValueTypeMismatch">>,
         <<o.datum.present /\ o.datum.type # d.value_type, "ValueTypeMismatch">>,
         <<d.normalization # o.normalization, "NormalizationVersionMismatch">>,
         <<d.formula_hash # o.formula_hash, "FormulaHashMismatch">>,
         <<o.finality # "Invalid" /\ o.quality < d.gate.minimum_score, "QualityBelowRequirement">>,
         <<o.finality # "Invalid" /\ coverage_millionths(o.coverage) < d.gate.minimum_coverage,
           "CoverageBelowRequirement">>,
         <<o.finality # "Invalid" /\ \E s \in DOMAIN o.coverage.health :
                                       o.coverage.health[s] \notin d.gate.states,
           "SourceHealthRejected">>,
         <<settled /\ o.finality_as_known_at > o.as_known_at, "FinalityKnowledgeMismatch">>,
         <<settled /\ (\/ o.end + d.allowed_lateness > MaxI64 \/ o.watermark = NoTime
                       \/ o.watermark < o.end + d.allowed_lateness),
           "FinalityBeforeWatermark">> >>)
=============================================================================
