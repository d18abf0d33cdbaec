------------------------ MODULE CollectorSupervisor ------------------------
(***************************************************************************)
(* CollectorSupervisor of collector-runtime with the SourceHealthTracker   *)
(* of the quality crate: admission by tier, the health of each source and  *)
(* its retry budget, the bounded queue of quality events, and the ledger   *)
(* of operational events that window receipts are counted from.            *)
(*                                                                         *)
(* A call that returns an error is a step only when it may change state    *)
(* before it fails: record_failure and handle_book_overflow publish twice, *)
(* and keep what the first publication did when the second one fails.      *)
(* Times are supplied by callers in any order.  The kinds of operational   *)
(* events and the stream of the completeness binding are not represented.  *)
(***************************************************************************)
EXTENDS Naturals, FiniteSets, Sequences

CONSTANTS
    Sources, Tiers,
    Policies,               \* SourcePolicy: [tier, instruments]
    Limit,                  \* AdmissionLimits::for_tier
    SourceCount,            \* AdmissionLimits::source_count
    QualityEventCapacity,   \* quality_event_capacity
    LedgerCapacity,         \* MAX_OPERATIONAL_EVENTS_PER_SOURCE
    MaximumAttempts,        \* RetryPolicy::maximum_attempts
    MaxTime,                \* i64::MAX
    MaxSequence, MaxEpoch, MaxCommandId,    \* u64::MAX, of each counter
    StartEpochs,            \* epochs a source is admitted with; admit uses 1
    MaxRecorded,            \* bound: events recorded by one admission
    MaxAdmissions           \* bound: admissions of one source

ASSUME SupervisorConstants ==
    /\ Policies \subseteq [tier: Tiers, instruments: Nat \ {0}]
    /\ Limit \in [Tiers -> Nat]
    /\ {SourceCount, QualityEventCapacity, LedgerCapacity, MaximumAttempts,
        MaxTime, MaxSequence, MaxEpoch, MaxCommandId} \subseteq Nat \ {0}
    /\ StartEpochs \subseteq 1..MaxEpoch
    /\ MaxAdmissions \in Nat

VARIABLES
    sources,            \* admitted sources and their SourceEntry
    admitted_by_tier,
    quality_events,     \* VecDeque<QualityEvent>
    delivered,          \* last event popped of each source (history variable)
    admissions          \* admissions of each source (history variable)

supervisorVars == <<sources, admitted_by_tier, quality_events, delivered, admissions>>

Times == 1..MaxTime
States == {"Healthy", "Degraded", "Unhealthy", "Quarantined", "Recovering"}

(* Option<UnixNanos>: times are positive, 0 is None. *)
Unset == 0

-----------------------------------------------------------------------------
(* SourceHealthTracker *)

new(epoch) ==
    [connection_epoch |-> epoch, state |-> "Recovering", next_sequence |-> 1,
     last_observed_at |-> Unset]

valid_transition ==
    [Recovering |-> {"Healthy", "Degraded", "Unhealthy", "Quarantined"},
     Healthy |-> {"Degraded", "Unhealthy", "Quarantined"},
     Degraded |-> {"Healthy", "Unhealthy", "Recovering", "Quarantined"},
     Unhealthy |-> {"Recovering", "Quarantined"},
     Quarantined |-> {"Recovering"}]

(* The causes the supervisor gives. *)
valid_cause(from, to, cause) ==
    CASE cause = "RecoveryVerified" -> from = "Recovering" /\ to = "Healthy"
      [] cause = "CapacityPressure" ->
            to = "Unhealthy" \/ (from \in {"Healthy", "Recovering"} /\ to = "Degraded")
      [] cause = "SequenceIntegrityFailed" -> to = "Unhealthy"
      [] cause = "RecoveryStarted" ->
            from \in {"Degraded", "Unhealthy"} /\ to = "Recovering"
      [] cause = "RetryBudgetExhausted" ->
            from \in {"Degraded", "Unhealthy", "Recovering"} /\ to = "Quarantined"

ensure_sequence_capacity(tracker, additional) ==
    tracker.next_sequence + additional <= MaxSequence

prepareAnyTime(tracker, to, cause, time) ==
    /\ to \in valid_transition[tracker.state]
    /\ valid_cause(tracker.state, to, cause)
    /\ ensure_sequence_capacity(tracker, 1)

prepare(tracker, to, cause, time) ==
    /\ to \in valid_transition[tracker.state]
    /\ valid_cause(tracker.state, to, cause)
    /\ time > tracker.last_observed_at
    /\ ensure_sequence_capacity(tracker, 1)

commit(tracker, to, time) ==
    [tracker EXCEPT !.state = to, !.next_sequence = @ + 1, !.last_observed_at = time]

-----------------------------------------------------------------------------
publishUnqueued(run, source, to, cause, time) ==
    IF ~run.ok \/ ~prepare(run.tracker, to, cause, time) THEN [run EXCEPT !.ok = FALSE]
    ELSE [run EXCEPT !.tracker = commit(run.tracker, to, time)]

(* publish_quality_transition on a run [ok, tracker, events]; a run that has
   failed stays as it is. *)
publish_quality_transition(run, source, to, cause, time) ==
    IF ~run.ok \/ ~prepare(run.tracker, to, cause, time) THEN [run EXCEPT !.ok = FALSE]
    ELSE [ok |-> TRUE,
          tracker |-> commit(run.tracker, to, time),
          events |-> Append(run.events,
              [source |-> source, admission |-> admissions[source], epoch |-> run.tracker.connection_epoch,
               sequence |-> run.tracker.next_sequence, time |-> time,
               from |-> run.tracker.state, to |-> to])]

Unpublished(source) == [ok |-> TRUE, tracker |-> sources[source].quality, events |-> <<>>]

ensure_quality_capacity(additional) ==
    Len(quality_events) + additional <= QualityEventCapacity

Admitted == DOMAIN sources

NothingDelivered == [admission |-> 0, epoch |-> 0, sequence |-> 0, time |-> 0, to |-> "none"]

Init ==
    /\ sources = << >>
    /\ admitted_by_tier = [t \in Tiers |-> 0]
    /\ quality_events = <<>>
    /\ delivered = [s \in Sources |-> NothingDelivered]
    /\ admissions = [s \in Sources |-> 0]

Entry(policy, epoch) ==
    [policy |-> policy, failed_attempts |-> 0, last_failure_at |-> Unset, epoch |-> epoch,
     next_command_id |-> 1, quality |-> new(epoch), operational_events |-> <<>>,
     retired_before |-> Unset, completeness |-> FALSE,
     recorded |-> <<>>]                 \* history: every event ever recorded

admit_with_epoch(source, policy, epoch) ==
    /\ source \notin Admitted
    /\ Cardinality(Admitted) < SourceCount
    /\ admitted_by_tier[policy.tier] + policy.instruments <= Limit[policy.tier]
    /\ sources' = [s \in Admitted \cup {source} |->
                     IF s = source THEN Entry(policy, epoch) ELSE sources[s]]
    /\ admitted_by_tier' = [admitted_by_tier EXCEPT ![policy.tier] = @ + policy.instruments]
    /\ admissions[source] < MaxAdmissions
    /\ admissions' = [admissions EXCEPT ![source] = @ + 1]
    /\ UNCHANGED <<quality_events, delivered>>

removeUnreturned(source) ==
    /\ source \in Admitted
    /\ sources' = [s \in Admitted \ {source} |-> sources[s]]
    /\ UNCHANGED <<admitted_by_tier, quality_events, delivered, admissions>>

remove(source) ==
    /\ source \in Admitted
    /\ LET policy == sources[source].policy
       IN  /\ admitted_by_tier[policy.tier] >= policy.instruments
           /\ admitted_by_tier' = [admitted_by_tier EXCEPT ![policy.tier] = @ - policy.instruments]
    /\ sources' = [s \in Admitted \ {source} |-> sources[s]]
    /\ UNCHANGED <<quality_events, delivered, admissions>>

pop_quality_event ==
    /\ quality_events # <<>>
    /\ LET e == Head(quality_events)
       IN  delivered' = [delivered EXCEPT ![e.source] =
                           [admission |-> e.admission, epoch |-> e.epoch,
                            sequence |-> e.sequence, time |-> e.time, to |-> e.to]]
    /\ quality_events' = Tail(quality_events)
    /\ UNCHANGED <<sources, admitted_by_tier, admissions>>

WithHealth(entry, tracker, attempts, failure_at) ==
    [entry EXCEPT !.quality = tracker, !.failed_attempts = attempts,
                  !.last_failure_at = failure_at]

mark_healthy(source, time) ==
    /\ source \in Admitted
    /\ ensure_quality_capacity(1)
    /\ LET run == publish_quality_transition(Unpublished(source), source,
                                             "Healthy", "RecoveryVerified", time)
       IN  /\ run.ok
           /\ sources' = [sources EXCEPT ![source] = WithHealth(@, run.tracker, 0, Unset)]
           /\ quality_events' = quality_events \o run.events
    /\ UNCHANGED <<admitted_by_tier, delivered, admissions>>

FailureEventsUnhealthyOnly(entry, next_attempt) ==
    IF entry.quality.state # "Unhealthy" THEN 1 ELSE 0

(* quality_event_count *)
FailureEvents(entry, next_attempt) ==
    (IF entry.quality.state # "Unhealthy" THEN 1 ELSE 0)
      + (IF next_attempt >= MaximumAttempts THEN 1 ELSE 0)

record_failure(source, time) ==
    /\ source \in Admitted
    /\ LET entry == sources[source]
           next_attempt == entry.failed_attempts + 1
           count == FailureEvents(entry, next_attempt)
           unhealthy == IF entry.quality.state = "Unhealthy" THEN Unpublished(source)
                        ELSE publish_quality_transition(Unpublished(source), source,
                                 "Unhealthy", "SequenceIntegrityFailed", time)
           quarantined == publish_quality_transition(unhealthy, source,
                              "Quarantined", "RetryBudgetExhausted", time + 1)
           final == IF next_attempt >= MaximumAttempts THEN quarantined ELSE unhealthy
       IN  /\ time > entry.last_failure_at
           /\ next_attempt >= MaximumAttempts => time < MaxTime
           /\ ensure_quality_capacity(count)
           /\ ensure_sequence_capacity(entry.quality, count)
           /\ unhealthy.ok
           /\ sources' = [sources EXCEPT ![source] =
                            WithHealth(@, final.tracker, next_attempt, time)]
           /\ quality_events' = quality_events \o final.events
    /\ UNCHANGED <<admitted_by_tier, delivered, admissions>>

RenewedWithAttempts(entry, epoch) ==
    [entry EXCEPT !.epoch = epoch, !.quality = new(epoch)]

RenewedEntry(entry, epoch) == [WithHealth(entry, new(epoch), 0, Unset) EXCEPT !.epoch = epoch]

renew_connection(source) ==
    /\ source \in Admitted
    /\ sources[source].epoch < MaxEpoch
    /\ sources' = [sources EXCEPT ![source] = RenewedEntry(@, @.epoch + 1)]
    /\ UNCHANGED <<admitted_by_tier, quality_events, delivered, admissions>>

Resynchronizing(entry, run) ==
    [entry EXCEPT !.quality = run.tracker,
                  !.next_command_id = IF run.ok THEN @ + 1 ELSE @]

Overflowed(source, degraded_at, recovering_at) ==
    /\ source \in Admitted
    /\ ensure_quality_capacity(2)
    /\ ensure_sequence_capacity(sources[source].quality, 2)
    /\ sources[source].next_command_id < MaxCommandId
    /\ LET degraded == publish_quality_transition(Unpublished(source), source,
                           "Degraded", "CapacityPressure", degraded_at)
           recovering == publish_quality_transition(degraded, source,
                             "Recovering", "RecoveryStarted", recovering_at)
       IN  /\ degraded.ok
           /\ sources' = [sources EXCEPT ![source] = Resynchronizing(@, recovering)]
           /\ quality_events' = quality_events \o recovering.events
    /\ UNCHANGED <<admitted_by_tier, delivered, admissions>>

handleBookOverflowUnordered(source, degraded_at, recovering_at) ==
    Overflowed(source, degraded_at, recovering_at)

handle_book_overflow(source, degraded_at, recovering_at) ==
    /\ recovering_at > degraded_at
    /\ Overflowed(source, degraded_at, recovering_at)

-----------------------------------------------------------------------------
(* The ledger of operational events, represented by their times. *)

bind_source_completeness(source) ==
    /\ source \in Admitted
    /\ ~sources[source].completeness
    /\ sources' = [sources EXCEPT ![source] = [@ EXCEPT !.completeness = TRUE]]
    /\ UNCHANGED <<admitted_by_tier, quality_events, delivered, admissions>>

WithEvent(entry, time) ==
    [entry EXCEPT !.operational_events = Append(@, time), !.recorded = Append(@, time)]

record_operational_event(source, time) ==
    /\ source \in Admitted
    /\ LET entry == sources[source]
           events == entry.operational_events
       IN  /\ time >= entry.retired_before
           /\ events # <<>> => time >= events[Len(events)]
    /\ Len(sources[source].operational_events) < LedgerCapacity
    /\ Len(sources[source].recorded) < MaxRecorded
    /\ sources' = [sources EXCEPT ![source] = WithEvent(@, time)]
    /\ UNCHANGED <<admitted_by_tier, quality_events, delivered, admissions>>

(* The loop pops the front of the ledger while it is too old: what it has
   popped when it stops. *)
Retired(events, retain_from) ==
    CHOOSE n \in 0..Len(events) :
        /\ \A i \in 1..n : events[i] < retain_from
        /\ n < Len(events) => events[n + 1] >= retain_from

WithRetired(entry, retain_from) ==
    [entry EXCEPT !.operational_events = SubSeq(@, Retired(@, retain_from) + 1, Len(@)),
                  !.retired_before = retain_from]

retire_operational_events_before(source, retain_from) ==
    /\ source \in Admitted
    /\ retain_from >= sources[source].retired_before
    /\ sources' = [sources EXCEPT ![source] = WithRetired(@, retain_from)]
    /\ UNCHANGED <<admitted_by_tier, quality_events, delivered, admissions>>

CountIn(events, start, end) ==
    Cardinality({i \in DOMAIN events : events[i] >= start /\ events[i] < end})

receiptOfAnyWindow(entry, start, end, as_known_at) ==
    /\ entry.completeness
    /\ start < end
    /\ as_known_at >= end
    /\ as_known_at >= entry.quality.last_observed_at

(* issue_operational_quality_receipt seals the window [start, end); the other
   times of a sample are the caller's and only compared with each other. *)
issue_operational_quality_receipt(entry, start, end, as_known_at) ==
    /\ entry.completeness
    /\ start < end
    /\ as_known_at >= end
    /\ start >= entry.retired_before
    /\ as_known_at >= entry.quality.last_observed_at

-----------------------------------------------------------------------------
Admission ==
    \E s \in Sources : \/ \E p \in Policies, e \in StartEpochs : admit_with_epoch(s, p, e)
                       \/ remove(s)

HealthOf(s) ==
    \/ renew_connection(s)
    \/ \E t \in Times : mark_healthy(s, t) \/ record_failure(s, t)
    \/ \E t, u \in Times : handle_book_overflow(s, t, u)

LedgerOf(s) ==
    \/ bind_source_completeness(s)
    \/ \E t \in Times : record_operational_event(s, t) \/ retire_operational_events_before(s, t)

Next ==
    \/ Admission
    \/ pop_quality_event
    \/ \E s \in Sources : HealthOf(s) \/ LedgerOf(s)

Spec == Init /\ [][Next]_supervisorVars

-----------------------------------------------------------------------------
QualityEvents ==
    [source: Sources, admission: 1..MaxAdmissions, epoch: 1..MaxEpoch, sequence: 1..MaxSequence, time: Times,
     from: States, to: States]

(* The supervisor's state is typed and within its capacities: no call lets the
   quality queue or a ledger grow past its limit. *)
SupervisorTypeOK ==
    /\ Admitted \subseteq Sources
    /\ Cardinality(Admitted) <= SourceCount
    /\ quality_events \in Seq(QualityEvents)
    /\ Len(quality_events) <= QualityEventCapacity
    /\ \A s \in Admitted :
         /\ sources[s].policy \in Policies
         /\ sources[s].epoch \in 1..MaxEpoch
         /\ sources[s].quality.connection_epoch = sources[s].epoch
         /\ sources[s].quality.next_sequence \in 1..MaxSequence
         /\ sources[s].next_command_id \in 1..MaxCommandId
         /\ Len(sources[s].operational_events) <= LedgerCapacity

(* The instruments of the admitted sources of a tier, numbered in each source. *)
Instruments(source) == {source} \X (1..sources[source].policy.instruments)
TierInstruments(t) ==
    UNION {Instruments(s) : s \in {s \in Admitted : sources[s].policy.tier = t}}
TierUse(t) == Cardinality(TierInstruments(t))

(* The budget of each tier is exactly what its admitted sources use: a removed
   source gives back what its admission took, and no tier is over its limit. *)
TierAccounting ==
    \A t \in Tiers : admitted_by_tier[t] = TierUse(t) /\ TierUse(t) <= Limit[t]

(* The retry budget and the health of a source agree at every rest: failures
   are on record exactly while it is Unhealthy or Quarantined, and it is
   Quarantined exactly when the budget is spent.  mark_healthy, the overflow
   path and renew_connection may not leave one without the other. *)
RetryBudget ==
    \A s \in Admitted :
       LET e == sources[s]
       IN  /\ e.failed_attempts > 0 <=> e.quality.state \in {"Unhealthy", "Quarantined"}
           /\ e.failed_attempts >= MaximumAttempts <=> e.quality.state = "Quarantined"
           /\ e.last_failure_at # Unset <=> e.failed_attempts > 0

(* A book overflow is published whole: no source rests in Degraded with the
   connector never told to resynchronize, which mark_healthy could not leave. *)
OverflowPublishedWhole == \A s \in Admitted : sources[s].quality.state # "Degraded"

SameConnection(e, previous) == e.admission = previous.admission /\ e.epoch = previous.epoch

Follows(e, previous) ==
    IF SameConnection(e, previous)
    THEN /\ e.sequence = previous.sequence + 1
         /\ e.from = previous.to
         /\ e.time > previous.time
    ELSE /\ \/ e.admission > previous.admission
            \/ e.admission = previous.admission /\ e.epoch > previous.epoch
         /\ e.sequence = 1
         /\ e.from = "Recovering"

(* What the consumer reads of a source: the event it has (at 0), then those of
   the source in the queue. *)
Lineage(events, s) == {0} \cup {i \in DOMAIN events : events[i].source = s}
EventAt(events, last, i) == IF i = 0 THEN last ELSE events[i]
Successive(S, i, j) == i < j /\ \A k \in S : k <= i \/ k >= j

IsLineage(events, last, s) ==
    \A i, j \in Lineage(events, s) :
       Successive(Lineage(events, s), i, j)
         => Follows(EventAt(events, last, j), EventAt(events, last, i))

(* What the consumer of pop_quality_event reads of a source is a lineage: in
   one connection epoch of one admission consecutive sequences, each transition
   from the state the last one reached, times increasing; a new connection
   starts from Recovering.
   Transitions of several sources, renewals, removals and readmissions
   interleave in the one queue. *)
QualityLineage == \A s \in Sources : IsLineage(quality_events, delivered[s], s)

AtEvent(e, admission, tracker) ==
    IF e.admission = admission /\ e.epoch = tracker.connection_epoch
    THEN tracker.state = e.to /\ tracker.next_sequence = e.sequence + 1
    ELSE tracker.state = "Recovering" /\ tracker.next_sequence = 1

(* The tracker of an admitted source is where the consumer will be when it has
   read the queue, or in a connection without events yet: no transition is
   committed unpublished, or published uncommitted. *)
LineageReachesTracker ==
    \A s \in Admitted : \A i \in Lineage(quality_events, s) :
       (\A k \in Lineage(quality_events, s) : k <= i)
         => AtEvent(EventAt(quality_events, delivered[s], i), admissions[s], sources[s].quality)

(* Whatever was retired, a window a receipt can be issued for still counts
   every event that was recorded in it since the source was admitted. *)
ReceiptComplete ==
    \A s \in Admitted : \A start, end, known \in Times :
       issue_operational_quality_receipt(sources[s], start, end, known)
         => CountIn(sources[s].operational_events, start, end)
              = CountIn(sources[s].recorded, start, end)

(* The supervisor's books agree at every rest, whatever admissions, failures,
   overflows, renewals and removals came before. *)
SupervisorConsistent ==
    /\ TierAccounting /\ RetryBudget /\ OverflowPublishedWhole
    /\ QualityLineage /\ LineageReachesTracker /\ ReceiptComplete
=============================================================================
