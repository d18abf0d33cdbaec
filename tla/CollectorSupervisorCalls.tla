----------------------- MODULE CollectorSupervisorCalls -----------------------
(***************************************************************************)
(* The invariant that the books of the collector's supervisor rest on, and *)
(* that every call on the health of a source, on its ledger's tail and on  *)
(* the queue of quality events keeps it, for every set of sources and      *)
(* tiers, every limit and every width of the counters.                     *)
(***************************************************************************)
EXTENDS CollectorSupervisor, TLAPS

Trackers ==
    [connection_epoch: 1..MaxEpoch, state: States, next_sequence: 1..MaxSequence,
     last_observed_at: 0..MaxTime]

Entries ==
    [policy: Policies, failed_attempts: Nat, last_failure_at: 0..MaxTime,
     epoch: 1..MaxEpoch, next_command_id: 1..MaxCommandId, quality: Trackers,
     operational_events: Seq(Times), retired_before: 0..MaxTime, completeness: BOOLEAN,
     recorded: Seq(Times)]

DeliveredEvents ==
    [admission: Nat, epoch: Nat, sequence: Nat, time: Nat, to: States \cup {"none"}]

Types ==
    /\ Admitted \subseteq Sources
    /\ sources \in [Admitted -> Entries]
    /\ admitted_by_tier \in [Tiers -> Nat]
    /\ quality_events \in Seq(QualityEvents)
    /\ delivered \in [Sources -> DeliveredEvents]
    /\ admissions \in [Sources -> 0..MaxAdmissions]
    /\ \A s \in Admitted : admissions[s] >= 1

(* The limits of admit_with_epoch, ensure_quality_capacity and the ledger. *)
Capacities ==
    /\ IsFiniteSet(Admitted)
    /\ Cardinality(Admitted) <= SourceCount
    /\ Len(quality_events) <= QualityEventCapacity
    /\ \A s \in Admitted : Len(sources[s].operational_events) <= LedgerCapacity

TierInv ==
    \A t \in Tiers :
       /\ IsFiniteSet(TierInstruments(t))
       /\ admitted_by_tier[t] = Cardinality(TierInstruments(t))
       /\ admitted_by_tier[t] <= Limit[t]

(* A source is Unhealthy since a failure that was recorded, so that the time
   of the next one, which must be later, is good for Quarantined too. *)
HealthOK(e) ==
    /\ e.quality.connection_epoch = e.epoch
    /\ e.quality.state # "Degraded"
    /\ e.failed_attempts > 0 <=> e.quality.state \in {"Unhealthy", "Quarantined"}
    /\ e.failed_attempts >= MaximumAttempts <=> e.quality.state = "Quarantined"
    /\ e.last_failure_at # Unset <=> e.failed_attempts > 0
    /\ e.quality.state = "Unhealthy" => e.quality.last_observed_at <= e.last_failure_at

(* The ledger is what was recorded without a prefix that is all older than
   retired_before. *)
LedgerOK(e) ==
    LET gone == Len(e.recorded) - Len(e.operational_events)
    IN  /\ gone >= 0
        /\ \A i \in DOMAIN e.operational_events : e.operational_events[i] = e.recorded[i + gone]
        /\ \A i \in 1..gone : e.recorded[i] < e.retired_before

(* Where a tracker is after event e, if e is the last one of its source. *)
Before(e, admission, epoch) ==
    e.admission < admission \/ (e.admission = admission /\ e.epoch < epoch)

Position(e, admission, tracker) ==
    IF e.admission = admission /\ e.epoch = tracker.connection_epoch
    THEN /\ tracker.state = e.to
         /\ tracker.next_sequence = e.sequence + 1
         /\ tracker.last_observed_at = e.time
    ELSE /\ tracker.state = "Recovering"
         /\ tracker.next_sequence = 1
         /\ tracker.last_observed_at = Unset
         /\ Before(e, admission, tracker.connection_epoch)

Placed(events, last, s, admission, tracker) ==
    \A i \in Lineage(events, s) :
       (\A k \in Lineage(events, s) : k <= i)
         => Position(EventAt(events, last, i), admission, tracker)

(* No event is of an admission that has not happened. *)
Known(events, last, s, admission) ==
    \A i \in Lineage(events, s) : EventAt(events, last, i).admission <= admission

LineageInv ==
    /\ \A s \in Sources : /\ IsLineage(quality_events, delivered[s], s)
                          /\ Known(quality_events, delivered[s], s, admissions[s])
    /\ \A s \in Admitted :
          Placed(quality_events, delivered[s], s, admissions[s], sources[s].quality)

EntryInv == \A s \in Admitted : HealthOK(sources[s]) /\ LedgerOK(sources[s])

SupervisorInv == Types /\ Capacities /\ TierInv /\ EntryInv /\ LineageInv

-----------------------------------------------------------------------------
LEMMA ConstantTypes ==
    /\ SourceCount \in Nat \ {0} /\ QualityEventCapacity \in Nat \ {0}
    /\ LedgerCapacity \in Nat \ {0} /\ MaximumAttempts \in Nat \ {0}
    /\ MaxTime \in Nat \ {0} /\ MaxSequence \in Nat \ {0}
    /\ MaxEpoch \in Nat \ {0} /\ MaxCommandId \in Nat \ {0} /\ MaxAdmissions \in Nat
  BY SupervisorConstants

-----------------------------------------------------------------------------
(* Lineages. *)

(* push_back: an event of another source is not in the lineage of s. *)
LEMMA ForeignEvent ==
    ASSUME NEW s, NEW events \in Seq(QualityEvents), NEW e \in QualityEvents, e.source # s
    PROVE  /\ Lineage(Append(events, e), s) = Lineage(events, s)
           /\ \A last : \A i \in Lineage(events, s) :
                 EventAt(Append(events, e), last, i) = EventAt(events, last, i)
<1>1. DOMAIN Append(events, e) = 1..(Len(events) + 1) /\ DOMAIN events = 1..Len(events)
  OBVIOUS
<1>2. \A i \in 1..Len(events) : Append(events, e)[i] = events[i]
  OBVIOUS
<1>3. Append(events, e)[Len(events) + 1] = e
  OBVIOUS
<1>4. Lineage(Append(events, e), s) = Lineage(events, s)
  BY <1>1, <1>2, <1>3 DEF Lineage
<1> QED
  BY <1>1, <1>2, <1>4 DEF Lineage, EventAt

(* push_back: an event of s is the new last one of its lineage. *)
LEMMA OwnEvent ==
    ASSUME NEW s, NEW events \in Seq(QualityEvents), NEW e \in QualityEvents, e.source = s
    PROVE  /\ Lineage(Append(events, e), s) = Lineage(events, s) \cup {Len(events) + 1}
           /\ Lineage(events, s) \subseteq 0..Len(events)
           /\ \A last : \A i \in Lineage(events, s) :
                 EventAt(Append(events, e), last, i) = EventAt(events, last, i)
           /\ \A last : EventAt(Append(events, e), last, Len(events) + 1) = e
<1>1. DOMAIN Append(events, e) = 1..(Len(events) + 1) /\ DOMAIN events = 1..Len(events)
  OBVIOUS
<1>2. \A i \in 1..Len(events) : Append(events, e)[i] = events[i]
  OBVIOUS
<1>3. Append(events, e)[Len(events) + 1] = e /\ Len(events) \in Nat
  OBVIOUS
<1>4. Lineage(Append(events, e), s) = Lineage(events, s) \cup {Len(events) + 1}
  BY <1>1, <1>2, <1>3 DEF Lineage
<1>5. Lineage(events, s) \subseteq 0..Len(events)
  BY <1>1, <1>3 DEF Lineage
<1> QED
  BY <1>1, <1>2, <1>3, <1>4, <1>5 DEF Lineage, EventAt

(* prepare and commit: what a tracker publishes after its last event follows
   that event. *)
LEMMA PublishedFollows ==
    ASSUME NEW e \in QualityEvents, NEW previous, NEW admission, NEW tracker \in Trackers,
           previous.admission \in Nat, previous.epoch \in Nat, admission \in Nat,
           Position(previous, admission, tracker),
           e.admission = admission, e.epoch = tracker.connection_epoch,
           e.sequence = tracker.next_sequence, e.from = tracker.state,
           e.time > tracker.last_observed_at
    PROVE  Follows(e, previous)
<1>1. CASE previous.admission = admission /\ previous.epoch = tracker.connection_epoch
  BY <1>1 DEF Position, Follows, SameConnection
<1>2. CASE ~(previous.admission = admission /\ previous.epoch = tracker.connection_epoch)
  BY <1>2 DEF Position, Follows, SameConnection, Before, Trackers
<1> QED
  BY <1>1, <1>2

EventTyped(e) == e.admission \in Nat /\ e.epoch \in Nat

(* Events in a queue, and the one delivered last, have a connection. *)
LEMMA LineageTyped ==
    ASSUME NEW s, NEW events \in Seq(QualityEvents), NEW last, EventTyped(last),
           NEW i \in Lineage(events, s)
    PROVE  EventTyped(EventAt(events, last, i)) /\ i \in Nat
<1>1. DOMAIN events = 1..Len(events) /\ Len(events) \in Nat
  OBVIOUS
<1>2. CASE i = 0
  BY <1>2 DEF EventAt
<1>3. CASE i # 0
  <2>1. i \in DOMAIN events
    BY <1>3 DEF Lineage
  <2>2. events[i] \in QualityEvents
    BY <1>1, <2>1
  <2> QED
    BY <1>1, <1>3, <2>1, <2>2, SMTT(30) DEF EventAt, EventTyped, QualityEvents
<1> QED
  BY <1>2, <1>3

(* publish_quality_transition keeps the lineage of its source. *)
LEMMA PublishedLineage ==
    ASSUME NEW s, NEW events \in Seq(QualityEvents), NEW last, EventTyped(last),
           NEW admission \in Nat, NEW tracker \in Trackers,
           IsLineage(events, last, s), Placed(events, last, s, admission, tracker),
           NEW e \in QualityEvents, e.source = s,
           e.admission = admission, e.epoch = tracker.connection_epoch,
           e.sequence = tracker.next_sequence, e.from = tracker.state,
           e.time > tracker.last_observed_at
    PROVE  IsLineage(Append(events, e), last, s)
<1> DEFINE old == Lineage(events, s)
           now == Append(events, e)
           n == Len(events) + 1
<1>1. /\ Lineage(now, s) = old \cup {n}
      /\ old \subseteq 0..Len(events)
      /\ \A i \in old : EventAt(now, last, i) = EventAt(events, last, i)
      /\ EventAt(now, last, n) = e
      /\ Len(events) \in Nat
  BY OwnEvent
<1> HIDE DEF old, now
<1> SUFFICES ASSUME NEW i \in old \cup {n}, NEW j \in old \cup {n}, Successive(old \cup {n}, i, j)
             PROVE  Follows(EventAt(now, last, j), EventAt(now, last, i))
  BY <1>1, Zenon DEF IsLineage, now
<1>2. i \in old /\ i < j
  BY <1>1 DEF Successive
<1>3. CASE j = n
  <2>1. \A k \in old : k <= i
    BY <1>1, <1>2, <1>3 DEF Successive
  <2>2. Position(EventAt(events, last, i), admission, tracker)
    BY <1>2, <2>1 DEF Placed, old
  <2>3. EventTyped(EventAt(events, last, i))
    BY <1>2, LineageTyped DEF old
  <2>4. Follows(e, EventAt(events, last, i))
    BY <2>2, <2>3, PublishedFollows DEF EventTyped
  <2> QED
    BY <1>1, <1>2, <1>3, <2>4
<1>4. CASE j # n
  <2>1. j \in old /\ Successive(old, i, j)
    BY <1>4 DEF Successive
  <2>2. Follows(EventAt(events, last, j), EventAt(events, last, i))
    BY <1>2, <2>1 DEF IsLineage, old
  <2> QED
    BY <1>1, <1>2, <2>1, <2>2
<1> QED
  BY <1>3, <1>4

(* commit: the tracker is where its new event says. *)
LEMMA PublishedPlaced ==
    ASSUME NEW s, NEW events \in Seq(QualityEvents), NEW last, NEW admission,
           NEW tracker, NEW e \in QualityEvents, e.source = s,
           e.admission = admission, e.epoch = tracker.connection_epoch,
           e.sequence + 1 = tracker.next_sequence, e.to = tracker.state,
           e.time = tracker.last_observed_at
    PROVE  Placed(Append(events, e), last, s, admission, tracker)
<1> DEFINE old == Lineage(events, s)
           now == Append(events, e)
           n == Len(events) + 1
<1>1. /\ Lineage(now, s) = old \cup {n}
      /\ old \subseteq 0..Len(events)
      /\ EventAt(now, last, n) = e
      /\ Len(events) \in Nat
  BY OwnEvent
<1> HIDE DEF old, now
<1> SUFFICES ASSUME NEW i \in old \cup {n}, \A k \in old \cup {n} : k <= i
             PROVE  Position(EventAt(now, last, i), admission, tracker)
  BY <1>1, Zenon DEF Placed, now
<1>2. i = n
  BY <1>1
<1> QED
  BY <1>1, <1>2 DEF Position

(* pop_front, for the source of the popped event: everything moves up by one. *)
LEMMA OwnPop ==
    ASSUME NEW s, NEW events \in Seq(QualityEvents), events # <<>>, Head(events).source = s
    PROVE  /\ Tail(events) \in Seq(QualityEvents)
           /\ \A i \in Nat : i \in Lineage(Tail(events), s) <=> i + 1 \in Lineage(events, s)
           /\ Lineage(events, s) \subseteq Nat /\ Lineage(Tail(events), s) \subseteq Nat
           /\ \A last, any : \A i \in Lineage(Tail(events), s) \ {0} :
                 EventAt(Tail(events), last, i) = EventAt(events, any, i + 1)
<1> DEFINE rest == Tail(events)
<1>1. /\ rest \in Seq(QualityEvents) /\ Len(rest) = Len(events) - 1 /\ Len(events) \in Nat \ {0}
      /\ DOMAIN rest = 1..(Len(events) - 1) /\ DOMAIN events = 1..Len(events)
      /\ \A i \in 1..(Len(events) - 1) : rest[i] = events[i + 1]
      /\ events[1] = Head(events)
  OBVIOUS
<1> HIDE DEF rest
<1>2. Lineage(events, s) \subseteq Nat /\ Lineage(rest, s) \subseteq Nat
  BY <1>1 DEF Lineage
<1>3. \A i \in Nat : i \in Lineage(rest, s) <=> i + 1 \in Lineage(events, s)
  BY <1>1 DEF Lineage
<1>4. \A last, any : \A i \in Lineage(rest, s) \ {0} :
         EventAt(rest, last, i) = EventAt(events, any, i + 1)
  BY <1>1 DEF Lineage, EventAt
<1> QED
  BY <1>1, <1>2, <1>3, <1>4 DEF rest

(* pop_front, for any other source: the delivered event stays at 0. *)
LEMMA ForeignPop ==
    ASSUME NEW s, NEW events \in Seq(QualityEvents), events # <<>>, Head(events).source # s
    PROVE  /\ Tail(events) \in Seq(QualityEvents)
           /\ \A i \in Nat \ {0} : i \in Lineage(Tail(events), s) <=> i + 1 \in Lineage(events, s)
           /\ Lineage(events, s) \subseteq Nat \ {1} /\ Lineage(Tail(events), s) \subseteq Nat
           /\ 0 \in Lineage(events, s) /\ 0 \in Lineage(Tail(events), s)
           /\ \A last : \A i \in Lineage(Tail(events), s) \ {0} :
                 EventAt(Tail(events), last, i) = EventAt(events, last, i + 1)
<1> DEFINE rest == Tail(events)
<1>1. /\ rest \in Seq(QualityEvents) /\ Len(rest) = Len(events) - 1 /\ Len(events) \in Nat \ {0}
      /\ DOMAIN rest = 1..(Len(events) - 1) /\ DOMAIN events = 1..Len(events)
      /\ \A i \in 1..(Len(events) - 1) : rest[i] = events[i + 1]
      /\ events[1] = Head(events)
  OBVIOUS
<1> HIDE DEF rest
<1>2. Lineage(events, s) \subseteq Nat \ {1} /\ Lineage(rest, s) \subseteq Nat
  BY <1>1 DEF Lineage
<1>3. \A i \in Nat \ {0} : i \in Lineage(rest, s) <=> i + 1 \in Lineage(events, s)
  BY <1>1 DEF Lineage
<1>4. \A last : \A i \in Lineage(rest, s) \ {0} :
         EventAt(rest, last, i) = EventAt(events, last, i + 1)
  BY <1>1 DEF Lineage, EventAt
<1>5. 0 \in Lineage(events, s) /\ 0 \in Lineage(rest, s)
  BY DEF Lineage
<1> QED
  BY <1>1, <1>2, <1>3, <1>4, <1>5, SMTT(30) DEF rest

(* A delivered event reads like the event it was popped as. *)
SameEvent(e, f) ==
    /\ e.admission = f.admission
    /\ e.epoch = f.epoch
    /\ e.sequence = f.sequence
    /\ e.time = f.time
    /\ e.to = f.to

(* pop_quality_event hands the first event over: the lineage is the same,
   read one event further. *)
LEMMA PoppedOwn ==
    ASSUME NEW s, NEW events \in Seq(QualityEvents), events # <<>>, Head(events).source = s,
           NEW last, NEW popped, SameEvent(popped, Head(events)), IsLineage(events, last, s)
    PROVE  /\ IsLineage(Tail(events), popped, s)
           /\ \A admission, tracker : Placed(events, last, s, admission, tracker)
                 => Placed(Tail(events), popped, s, admission, tracker)
           /\ \A admission : Known(events, last, s, admission)
                 => Known(Tail(events), popped, s, admission)
<1> DEFINE rest == Tail(events)
           old == Lineage(events, s)
           now == Lineage(rest, s)
<1>0. \A f, any : \A i \in now \ {0} : EventAt(rest, f, i) = EventAt(events, any, i + 1)
  BY OwnPop
<1>1. /\ \A i \in Nat : i \in now <=> i + 1 \in old
      /\ old \subseteq Nat /\ now \subseteq Nat
      /\ \A i \in now \ {0} : EventAt(rest, popped, i) = EventAt(events, last, i + 1)
  <2>1. (\A i \in Nat : i \in now <=> i + 1 \in old) /\ old \subseteq Nat /\ now \subseteq Nat
    BY OwnPop, Zenon
  <2> HIDE DEF old, now, rest
  <2>2. \A i \in now \ {0} : EventAt(rest, popped, i) = EventAt(events, last, i + 1)
    BY <1>0
  <2> QED
    BY <2>1, <2>2, SMTT(30)
<1>2. \A i \in now : SameEvent(EventAt(rest, popped, i), EventAt(events, last, i + 1))
  <2> SUFFICES ASSUME NEW i \in now
               PROVE  SameEvent(EventAt(rest, popped, i), EventAt(events, last, i + 1))
    OBVIOUS
  <2>1. CASE i = 0
    <3>1. EventAt(events, last, i + 1) = Head(events) /\ EventAt(rest, popped, i) = popped
      BY <2>1 DEF EventAt
    <3> QED
      BY <3>1
  <2>2. CASE i # 0
    BY <1>1, <2>2, Zenon DEF SameEvent
  <2> QED
    BY <2>1, <2>2
<1> HIDE DEF old, now, rest
<1>3. IsLineage(rest, popped, s)
  <2> SUFFICES ASSUME NEW i \in now, NEW j \in now, Successive(now, i, j)
               PROVE  Follows(EventAt(rest, popped, j), EventAt(rest, popped, i))
    BY DEF IsLineage, now
  <2>1. i + 1 \in old /\ j + 1 \in old /\ i \in Nat /\ j \in Nat /\ j # 0
    BY <1>1 DEF Successive
  <2>2. ASSUME NEW k \in old PROVE k <= i + 1 \/ k >= j + 1
    <3>1. CASE k = 0
      BY <2>1, <3>1
    <3>2. CASE k # 0
      <4>1. k - 1 \in Nat /\ (k - 1) + 1 = k
        BY <1>1, <3>2
      <4>2. k - 1 \in now
        BY <1>1, <4>1
      <4> QED
        BY <2>1, <4>1, <4>2 DEF Successive
    <3> QED
      BY <3>1, <3>2
  <2>3. Successive(old, i + 1, j + 1)
    BY <2>1, <2>2 DEF Successive
  <2>4. Follows(EventAt(events, last, j + 1), EventAt(events, last, i + 1))
    BY <2>1, <2>3 DEF IsLineage, old
  <2>5. EventAt(rest, popped, j) = EventAt(events, last, j + 1)
    BY <1>1, <2>1
  <2> QED
    BY <1>2, <2>4, <2>5 DEF Follows, SameConnection, SameEvent
<1>4. ASSUME NEW admission, NEW tracker, Placed(events, last, s, admission, tracker)
      PROVE  Placed(rest, popped, s, admission, tracker)
  <2> SUFFICES ASSUME NEW i \in now, \A k \in now : k <= i
               PROVE  Position(EventAt(rest, popped, i), admission, tracker)
    BY DEF Placed, now
  <2>1. i + 1 \in old /\ i \in Nat
    BY <1>1
  <2>2. ASSUME NEW k \in old PROVE k <= i + 1
    <3>1. CASE k = 0
      BY <2>1, <3>1
    <3>2. CASE k # 0
      <4>1. k - 1 \in Nat /\ (k - 1) + 1 = k
        BY <1>1, <3>2
      <4>2. k - 1 \in now
        BY <1>1, <4>1
      <4> QED
        BY <2>1, <4>1, <4>2
    <3> QED
      BY <3>1, <3>2
  <2>3. Position(EventAt(events, last, i + 1), admission, tracker)
    BY <1>4, <2>1, <2>2 DEF Placed, old
  <2> QED
    BY <1>2, <2>3 DEF Position, SameEvent, Before
<1>5. ASSUME NEW admission, Known(events, last, s, admission)
      PROVE  Known(rest, popped, s, admission)
  <2> SUFFICES ASSUME NEW i \in now PROVE EventAt(rest, popped, i).admission <= admission
    BY DEF Known, now
  <2>1. i + 1 \in old
    BY <1>1
  <2>2. EventAt(events, last, i + 1).admission <= admission
    BY <1>5, <2>1 DEF Known, old
  <2> QED
    BY <1>2, <2>2 DEF SameEvent
<1> QED
  BY <1>3, <1>4, <1>5 DEF rest

(* pop_quality_event leaves the lineages of the other sources alone. *)
LEMMA PoppedForeign ==
    ASSUME NEW s, NEW events \in Seq(QualityEvents), events # <<>>, Head(events).source # s,
           NEW last, IsLineage(events, last, s)
    PROVE  /\ IsLineage(Tail(events), last, s)
           /\ \A admission, tracker : Placed(events, last, s, admission, tracker)
                 => Placed(Tail(events), last, s, admission, tracker)
           /\ \A admission : Known(events, last, s, admission)
                 => Known(Tail(events), last, s, admission)
<1> DEFINE rest == Tail(events)
           old == Lineage(events, s)
           now == Lineage(rest, s)
           Was(i) == IF i = 0 THEN 0 ELSE i + 1
<1>1. /\ \A i \in Nat \ {0} : i \in now <=> i + 1 \in old
      /\ old \subseteq Nat \ {1} /\ now \subseteq Nat /\ 0 \in old
      /\ \A i \in now \ {0} : EventAt(rest, last, i) = EventAt(events, last, i + 1)
  BY ForeignPop
<1>2. \A i \in now : EventAt(rest, last, i) = EventAt(events, last, Was(i)) /\ Was(i) \in old
  <2>1. EventAt(rest, last, 0) = EventAt(events, last, 0)
    BY DEF EventAt
  <2> HIDE DEF old, now, rest
  <2> QED
    BY <1>1, <2>1, SMTT(30)
<1> HIDE DEF old, now, rest
<1>3. ASSUME NEW k \in old
      PROVE  \E i \in now : k = Was(i)
  <2>1. CASE k = 0
    <3>1. 0 \in now
      BY DEF now, Lineage
    <3> QED
      BY <2>1, <3>1
  <2>2. CASE k # 0
    <3>1. k - 1 \in Nat \ {0} /\ (k - 1) + 1 = k
      BY <1>1, <2>2
    <3>2. k - 1 \in now
      BY <1>1, <3>1
    <3> QED
      BY <3>1, <3>2
  <2> QED
    BY <2>1, <2>2
<1>4. \A i, j \in now : (i < j => Was(i) < Was(j)) /\ (i <= j => Was(i) <= Was(j))
  <2>1. \A i, j \in Nat : (i < j => Was(i) < Was(j)) /\ (i <= j => Was(i) <= Was(j))
    OBVIOUS
  <2> QED
    BY <1>1, <2>1, Zenon
<1>5. IsLineage(rest, last, s)
  <2> SUFFICES ASSUME NEW i \in now, NEW j \in now, Successive(now, i, j)
               PROVE  Follows(EventAt(rest, last, j), EventAt(rest, last, i))
    BY DEF IsLineage, now
  <2>1. ASSUME NEW k \in old PROVE k <= Was(i) \/ k >= Was(j)
    <3>1. PICK m \in now : k = Was(m)
      BY <1>3
    <3>2. m <= i \/ j <= m
      BY <1>1 DEF Successive
    <3> QED
      BY <1>4, <1>1, <3>1, <3>2
  <2>2. Successive(old, Was(i), Was(j))
    BY <1>4, <2>1 DEF Successive
  <2>3. Follows(EventAt(events, last, Was(j)), EventAt(events, last, Was(i)))
    BY <1>2, <2>2 DEF IsLineage, old
  <2> QED
    BY <1>2, <2>3
<1>6. ASSUME NEW admission, NEW tracker, Placed(events, last, s, admission, tracker)
      PROVE  Placed(rest, last, s, admission, tracker)
  <2> SUFFICES ASSUME NEW i \in now, \A k \in now : k <= i
               PROVE  Position(EventAt(rest, last, i), admission, tracker)
    BY DEF Placed, now
  <2>1. ASSUME NEW k \in old PROVE k <= Was(i)
    <3>1. PICK m \in now : k = Was(m)
      BY <1>3
    <3> QED
      BY <1>4, <3>1
  <2>2. Position(EventAt(events, last, Was(i)), admission, tracker)
    BY <1>2, <1>6, <2>1 DEF Placed, old
  <2> QED
    BY <1>2, <2>2
<1>7. ASSUME NEW admission, Known(events, last, s, admission)
      PROVE  Known(rest, last, s, admission)
  <2> SUFFICES ASSUME NEW i \in now PROVE EventAt(rest, last, i).admission <= admission
    BY DEF Known, now
  <2>1. EventAt(events, last, Was(i)).admission <= admission
    BY <1>2, <1>7 DEF Known, old
  <2> QED
    BY <1>2, <2>1
<1> QED
  BY <1>5, <1>6, <1>7 DEF rest

(* publish_quality_transition of another source. *)
LEMMA ForeignKeeps ==
    ASSUME NEW s, NEW events \in Seq(QualityEvents), NEW e \in QualityEvents, e.source # s,
           NEW last
    PROVE  /\ IsLineage(events, last, s) => IsLineage(Append(events, e), last, s)
           /\ \A admission, tracker : Placed(events, last, s, admission, tracker)
                 => Placed(Append(events, e), last, s, admission, tracker)
           /\ \A admission : Known(events, last, s, admission)
                 => Known(Append(events, e), last, s, admission)
<1> DEFINE now == Append(events, e)
<1>1. /\ Lineage(now, s) = Lineage(events, s)
      /\ \A i \in Lineage(events, s) : EventAt(now, last, i) = EventAt(events, last, i)
  BY ForeignEvent
<1> HIDE DEF now
<1>2. IsLineage(events, last, s) => IsLineage(now, last, s)
  BY <1>1 DEF IsLineage
<1>3. \A admission, tracker : Placed(events, last, s, admission, tracker)
         => Placed(now, last, s, admission, tracker)
  BY <1>1 DEF Placed
<1>4. \A admission : Known(events, last, s, admission) => Known(now, last, s, admission)
  BY <1>1 DEF Known
<1> QED
  BY <1>2, <1>3, <1>4 DEF now

(* publish_quality_transition of s itself knows no later admission. *)
LEMMA OwnKnown ==
    ASSUME NEW s, NEW events \in Seq(QualityEvents), NEW e \in QualityEvents, e.source = s,
           NEW last, NEW admission, Known(events, last, s, admission), e.admission <= admission
    PROVE  Known(Append(events, e), last, s, admission)
<1> DEFINE now == Append(events, e)
<1>1. /\ Lineage(now, s) = Lineage(events, s) \cup {Len(events) + 1}
      /\ \A i \in Lineage(events, s) : EventAt(now, last, i) = EventAt(events, last, i)
      /\ EventAt(now, last, Len(events) + 1) = e
  <2>1. Lineage(now, s) = Lineage(events, s) \cup {Len(events) + 1}
    BY OwnEvent
  <2>2. \A i \in Lineage(events, s) : EventAt(now, last, i) = EventAt(events, last, i)
    BY OwnEvent
  <2>3. EventAt(now, last, Len(events) + 1) = e
    BY OwnEvent, Zenon
  <2> QED
    BY <2>1, <2>2, <2>3
<1> HIDE DEF now
<1>2. Known(now, last, s, admission)
  BY <1>1 DEF Known
<1> QED
  BY <1>2 DEF now

-----------------------------------------------------------------------------
(* A run of publications on the tracker of a source. *)

Runs == [ok: BOOLEAN, tracker: Trackers, events: Seq(QualityEvents)]

RunOK(run, source) ==
    LET events == quality_events \o run.events
    IN  /\ run \in Runs
        /\ \A s \in Sources : /\ IsLineage(events, delivered[s], s)
                              /\ Known(events, delivered[s], s, admissions[s])
        /\ Placed(events, delivered[source], source, admissions[source], run.tracker)
        /\ \A s \in Admitted \ {source} :
              Placed(events, delivered[s], s, admissions[s], sources[s].quality)

LEMMA UnpublishedOK ==
    ASSUME SupervisorInv, NEW source \in Admitted
    PROVE  RunOK(Unpublished(source), source)
<1>1. quality_events \in Seq(QualityEvents) /\ sources[source] \in Entries
  BY DEF SupervisorInv, Types
<1>2. quality_events \o <<>> = quality_events
  BY <1>1
<1>3. sources[source].quality \in Trackers
  BY <1>1 DEF Entries
<1> DEFINE run == Unpublished(source)
<1>4. run.events = <<>> /\ run.tracker = sources[source].quality
  BY DEF Unpublished
<1>5. run \in Runs
  BY <1>3 DEF Unpublished, Runs
<1> HIDE DEF run
<1> QED
  BY <1>2, <1>4, <1>5 DEF SupervisorInv, LineageInv, RunOK, run

(* prepare and commit. *)
LEMMA CommitTyped ==
    ASSUME NEW tracker \in Trackers, NEW to, NEW cause, NEW time \in Times,
           prepare(tracker, to, cause, time)
    PROVE  /\ commit(tracker, to, time) \in Trackers
           /\ to \in States
           /\ tracker.next_sequence < MaxSequence
<1>1. to \in States
  <2>1. valid_transition[tracker.state] \subseteq States
    BY DEF valid_transition, Trackers, States
  <2> QED
    BY <2>1 DEF prepare
<1>2. tracker.next_sequence + 1 \in 1..MaxSequence
  BY ConstantTypes DEF prepare, ensure_sequence_capacity, Trackers
<1>3. time \in 0..MaxTime
  BY ConstantTypes DEF Times
<1>4. \A r \in Trackers : [r EXCEPT !.state = to] \in Trackers
  BY <1>1 DEF Trackers
<1>5. \A r \in Trackers : \A n \in 1..MaxSequence : [r EXCEPT !.next_sequence = n] \in Trackers
  BY DEF Trackers
<1>6. \A r \in Trackers : [r EXCEPT !.last_observed_at = time] \in Trackers
  BY <1>3 DEF Trackers
<1>7. commit(tracker, to, time) \in Trackers
  BY <1>2, <1>4, <1>5, <1>6, Zenon DEF commit
<1>8. tracker.next_sequence < MaxSequence
  BY ConstantTypes DEF prepare, ensure_sequence_capacity, Trackers
<1> QED
  BY <1>1, <1>7, <1>8

(* publish_quality_transition: the event it queues continues the lineage of
   its source and its tracker moves with it, or nothing changes. *)
LEMMA PublishOK ==
    ASSUME SupervisorInv, NEW source \in Admitted, NEW run, RunOK(run, source),
           NEW to, NEW cause, NEW time \in Times
    PROVE  RunOK(publish_quality_transition(run, source, to, cause, time), source)
<1> DEFINE final == publish_quality_transition(run, source, to, cause, time)
<1>1. CASE ~run.ok \/ ~prepare(run.tracker, to, cause, time)
  <2>1. final = [run EXCEPT !.ok = FALSE]
    BY <1>1 DEF publish_quality_transition
  <2>2. final.events = run.events /\ final.tracker = run.tracker /\ final \in Runs
    BY <2>1, Zenon DEF RunOK, Runs
  <2> HIDE DEF final
  <2> QED
    BY <2>2 DEF RunOK, final
<1>2. CASE run.ok /\ prepare(run.tracker, to, cause, time)
  <2> DEFINE e == [source |-> source, admission |-> admissions[source],
                   epoch |-> run.tracker.connection_epoch,
                   sequence |-> run.tracker.next_sequence, time |-> time,
                   from |-> run.tracker.state, to |-> to]
             events == quality_events \o run.events
             tracker == run.tracker
             next == commit(tracker, to, time)
  <2>1. final.events = Append(run.events, e) /\ final.tracker = next
    BY <1>2 DEF publish_quality_transition
  <2>2. /\ quality_events \in Seq(QualityEvents) /\ run.events \in Seq(QualityEvents)
        /\ tracker \in Trackers /\ source \in Sources
        /\ admissions[source] \in 1..MaxAdmissions /\ admissions[source] \in Nat
        /\ delivered \in [Sources -> DeliveredEvents]
    BY ConstantTypes DEF RunOK, Runs, SupervisorInv, Types
  <2>3. next \in Trackers /\ to \in States
    BY <1>2, <2>2, CommitTyped
  <2>4. e \in QualityEvents
    BY <2>2, <2>3, ConstantTypes, SMTT(30) DEF QualityEvents, Trackers
  <2>5. events \in Seq(QualityEvents) /\ quality_events \o Append(run.events, e) = Append(events, e)
    BY <2>2, <2>4, SMTT(30)
  <2>6. /\ e.source = source /\ e.admission = admissions[source]
        /\ e.epoch = tracker.connection_epoch /\ e.sequence = tracker.next_sequence
        /\ e.from = tracker.state /\ e.time > tracker.last_observed_at
    BY <1>2 DEF prepare
  <2>7. /\ e.epoch = next.connection_epoch /\ e.sequence + 1 = next.next_sequence
        /\ e.to = next.state /\ e.time = next.last_observed_at
    BY <2>2 DEF commit, Trackers
  <2>8. \A s \in Sources : EventTyped(delivered[s])
    BY <2>2, SMTT(30) DEF EventTyped, DeliveredEvents
  <2> HIDE DEF e, events, tracker, next
  <2>9. IsLineage(Append(events, e), delivered[source], source)
    BY <2>2, <2>4, <2>5, <2>6, <2>8, PublishedLineage, Zenon DEF RunOK, events, tracker
  <2>10. Placed(Append(events, e), delivered[source], source, admissions[source], next)
    BY <2>4, <2>5, <2>6, <2>7, PublishedPlaced, ZenonT(30)
  <2>11. Known(Append(events, e), delivered[source], source, admissions[source])
    <3>1. Known(events, delivered[source], source, admissions[source])
      BY <2>2, SMTT(30) DEF RunOK, events
    <3> QED
      BY <2>2, <2>4, <2>5, <2>6, <3>1, OwnKnown
  <2>12. ASSUME NEW s \in Sources \ {source}
         PROVE  /\ IsLineage(Append(events, e), delivered[s], s)
                /\ Known(Append(events, e), delivered[s], s, admissions[s])
                /\ s \in Admitted =>
                     Placed(Append(events, e), delivered[s], s, admissions[s], sources[s].quality)
    <3>1. /\ IsLineage(events, delivered[s], s)
          /\ Known(events, delivered[s], s, admissions[s])
          /\ s \in Admitted => Placed(events, delivered[s], s, admissions[s], sources[s].quality)
      BY DEF RunOK, events
    <3>2. e.source # s
      BY <2>6
    <3> QED
      BY <2>4, <2>5, <3>1, <3>2, ForeignKeeps, Zenon
  <2>13. Admitted \subseteq Sources
    BY DEF SupervisorInv, Types
  <2>14. quality_events \o final.events = Append(events, e)
    BY <2>1, <2>5
  <2>15. final = [ok |-> TRUE, tracker |-> next, events |-> Append(run.events, e)]
    BY <1>2 DEF publish_quality_transition, next, tracker, e
  <2>16. final \in Runs
    BY <2>2, <2>3, <2>4, <2>15 DEF Runs
  <2> HIDE DEF final
  <2> QED
    BY <2>1, <2>9, <2>10, <2>11, <2>12, <2>13, <2>14, <2>16 DEF RunOK, final
<1> QED
  BY <1>1, <1>2

-----------------------------------------------------------------------------
(* The entry of one source changes. *)

(* Calls that only change the entry of an admitted source, and queue what a
   run published, keep the books if the new entry is in order. *)
LEMMA EntryReplaced ==
    ASSUME SupervisorInv, NEW source \in Admitted, NEW e \in Entries,
           NEW run, RunOK(run, source), e.quality = run.tracker,
           sources' = [sources EXCEPT ![source] = e],
           quality_events' = quality_events \o run.events,
           Len(quality_events') <= QualityEventCapacity,
           UNCHANGED <<admitted_by_tier, delivered, admissions>>,
           e.policy = sources[source].policy, HealthOK(e), LedgerOK(e),
           Len(e.operational_events) <= LedgerCapacity
    PROVE  SupervisorInv'
<1>1. sources \in [Admitted -> Entries] /\ Admitted \subseteq Sources
  BY DEF SupervisorInv, Types
<1>2. /\ Admitted' = Admitted
      /\ sources'[source] = e
      /\ \A s \in Admitted \ {source} : sources'[s] = sources[s]
      /\ sources' \in [Admitted -> Entries]
  BY <1>1 DEF Admitted
<1>3. Types'
  <2>1. quality_events' \in Seq(QualityEvents)
    BY DEF RunOK, Runs, SupervisorInv, Types
  <2> QED
    BY <1>1, <1>2, <2>1, SMTT(30) DEF SupervisorInv, Types
<1>4. Capacities'
  BY <1>2 DEF SupervisorInv, Capacities
<1>5. \A t \in Tiers : TierInstruments(t)' = TierInstruments(t)
  <2>1. \A s \in Admitted : sources'[s].policy = sources[s].policy
    BY <1>2
  <2>2. \A s \in Admitted : Instruments(s)' = Instruments(s)
    BY <2>1 DEF Instruments
  <2> QED
    BY <1>2, <2>1, <2>2 DEF TierInstruments
<1>6. TierInv'
  BY <1>5 DEF SupervisorInv, TierInv
<1>7. EntryInv'
  BY <1>2, SMTT(30) DEF SupervisorInv, EntryInv
<1>8. LineageInv'
  BY <1>2, SMTT(30) DEF RunOK, LineageInv
<1> QED
  BY <1>3, <1>4, <1>6, <1>7, <1>8, SMTT(30) DEF SupervisorInv

(* Calls that publish nothing. *)
LEMMA EntryQuietly ==
    ASSUME SupervisorInv, NEW source \in Admitted, NEW e \in Entries,
           e.quality = sources[source].quality,
           sources' = [sources EXCEPT ![source] = e],
           UNCHANGED <<admitted_by_tier, quality_events, delivered, admissions>>,
           e.policy = sources[source].policy, HealthOK(e), LedgerOK(e),
           Len(e.operational_events) <= LedgerCapacity
    PROVE  SupervisorInv'
<1> DEFINE run == Unpublished(source)
<1>1. RunOK(run, source)
  BY UnpublishedOK
<1>2. run.events = <<>> /\ run.tracker = sources[source].quality
  BY DEF Unpublished
<1>3. quality_events \in Seq(QualityEvents) /\ Len(quality_events) <= QualityEventCapacity
  BY DEF SupervisorInv, Types, Capacities
<1>4. quality_events' = quality_events \o run.events
  BY <1>2, <1>3
<1> HIDE DEF run
<1> QED
  BY <1>1, <1>2, <1>3, <1>4, EntryReplaced, Zenon

(* What a publication does to its run. *)
LEMMA Published ==
    ASSUME NEW run \in Runs, NEW source, NEW to, NEW cause, NEW time
    PROVE  LET final == publish_quality_transition(run, source, to, cause, time)
           IN  IF run.ok /\ prepare(run.tracker, to, cause, time)
               THEN /\ final.ok
                    /\ final.tracker = commit(run.tracker, to, time)
                    /\ Len(final.events) = Len(run.events) + 1
               ELSE ~final.ok /\ final.tracker = run.tracker /\ final.events = run.events
  BY DEF publish_quality_transition, Runs

(* The fields of an entry whose health changes. *)
HealthSet(e, entry, tracker, attempts, at) ==
    /\ e \in Entries
    /\ e.quality = tracker /\ e.failed_attempts = attempts /\ e.last_failure_at = at
    /\ e.policy = entry.policy /\ e.epoch = entry.epoch
    /\ e.operational_events = entry.operational_events
    /\ e.recorded = entry.recorded /\ e.retired_before = entry.retired_before

LEMMA HealthChanged ==
    ASSUME NEW entry \in Entries, NEW tracker \in Trackers, NEW attempts \in Nat,
           NEW at \in 0..MaxTime
    PROVE  HealthSet(WithHealth(entry, tracker, attempts, at), entry, tracker, attempts, at)
<1> DEFINE e == WithHealth(entry, tracker, attempts, at)
<1>1. \A r \in Entries : [r EXCEPT !.quality = tracker] \in Entries
  BY Zenon DEF Entries
<1>2. \A r \in Entries : [r EXCEPT !.failed_attempts = attempts] \in Entries
  BY Zenon DEF Entries
<1>3. \A r \in Entries : [r EXCEPT !.last_failure_at = at] \in Entries
  BY Zenon DEF Entries
<1>4. e \in Entries
  BY <1>1, <1>2, <1>3, Zenon DEF WithHealth
<1> QED
  BY <1>4 DEF Entries, WithHealth, HealthSet

(* mark_healthy *)
LEMMA MarkHealthyKeeps ==
    ASSUME SupervisorInv, NEW source, NEW time \in Times, mark_healthy(source, time)
    PROVE  SupervisorInv'
<1> DEFINE entry == sources[source]
           start == Unpublished(source)
           run == publish_quality_transition(start, source, "Healthy", "RecoveryVerified", time)
           e == WithHealth(entry, run.tracker, 0, Unset)
<1>1. source \in Admitted
  BY DEF mark_healthy
<1>2. entry \in Entries /\ HealthOK(entry) /\ LedgerOK(entry)
      /\ Len(entry.operational_events) <= LedgerCapacity
  BY <1>1 DEF SupervisorInv, Types, EntryInv, Capacities
<1>3. RunOK(start, source) /\ RunOK(run, source)
  BY <1>1, UnpublishedOK, PublishOK
<1>4. /\ run.ok
      /\ sources' = [sources EXCEPT ![source] = e]
      /\ quality_events' = quality_events \o run.events
      /\ UNCHANGED <<admitted_by_tier, delivered, admissions>>
      /\ Len(quality_events) + 1 <= QualityEventCapacity
  BY DEF mark_healthy, ensure_quality_capacity
<1>5. start \in Runs /\ run \in Runs /\ start.tracker = entry.quality /\ start.events = <<>>
  BY <1>3 DEF RunOK, Unpublished
<1> HIDE DEF entry, start
<1>6. run.tracker = commit(entry.quality, "Healthy", time) /\ Len(run.events) = 1
  <2>1. run.tracker = commit(start.tracker, "Healthy", time)
        /\ Len(run.events) = Len(start.events) + 1
    BY <1>4, <1>5, Published, Zenon
  <2> QED
    BY <1>5, <2>1, SMTT(30)
<1>7. run.tracker \in Trackers /\ entry.quality \in Trackers /\ run.events \in Seq(QualityEvents)
  BY <1>2, <1>5 DEF Runs, Entries
<1>8. run.tracker.state = "Healthy" /\ run.tracker.connection_epoch = entry.quality.connection_epoch
  BY <1>6, <1>7, Zenon DEF commit, Trackers
<1> HIDE DEF run
<1>9. HealthSet(e, entry, run.tracker, 0, Unset)
  <2>1. Unset \in 0..MaxTime /\ 0 \in Nat
    BY ConstantTypes DEF Unset
  <2> QED
    BY <1>2, <1>7, <2>1, HealthChanged
<1> HIDE DEF e
<1>10. HealthOK(e)
  BY <1>2, <1>8, <1>9, ConstantTypes DEF HealthOK, HealthSet
<1>11. LedgerOK(e)
  BY <1>2, <1>9 DEF LedgerOK, HealthSet
<1>12. Len(quality_events') <= QualityEventCapacity
  <2>1. quality_events \in Seq(QualityEvents)
    BY DEF SupervisorInv, Types
  <2>2. Len(quality_events \o run.events) = Len(quality_events) + Len(run.events)
    BY <1>7, <2>1, SMTT(30)
  <2> QED
    BY <1>4, <1>6, <2>2
<1> QED
  BY <1>1, <1>2, <1>3, <1>4, <1>9, <1>10, <1>11, <1>12, EntryReplaced, ZenonT(30) DEF entry, HealthSet

(* record_failure, up to its second publication: the source is Unhealthy and
   its tracker can still be quarantined. *)
LEMMA FailureRecorded ==
    ASSUME SupervisorInv, NEW source \in Admitted, NEW time \in Times,
           time > sources[source].last_failure_at,
           NEW first,
           first = IF sources[source].quality.state = "Unhealthy" THEN Unpublished(source)
                   ELSE publish_quality_transition(Unpublished(source), source,
                            "Unhealthy", "SequenceIntegrityFailed", time),
           first.ok
    PROVE  /\ RunOK(first, source)
           /\ first.tracker.state = "Unhealthy"
           /\ first.tracker.connection_epoch = sources[source].quality.connection_epoch
           /\ first.tracker.last_observed_at <= time
           /\ Len(first.events) = IF sources[source].quality.state # "Unhealthy" THEN 1 ELSE 0
           /\ first.tracker.next_sequence
                = sources[source].quality.next_sequence + Len(first.events)
<1> DEFINE entry == sources[source]
           start == Unpublished(source)
<1>1. entry \in Entries /\ HealthOK(entry) /\ entry.quality \in Trackers
  BY DEF SupervisorInv, Types, EntryInv, Entries
<1>2. RunOK(start, source)
  BY UnpublishedOK, SMTT(30)
<1>3. start \in Runs /\ start.tracker = entry.quality /\ start.events = <<>>
  BY <1>2 DEF RunOK, Unpublished
<1> HIDE DEF start, entry
<1>4. CASE entry.quality.state = "Unhealthy"
  <2>1. first = start
    BY <1>4 DEF start, entry
  <2>2. entry.quality.last_observed_at <= entry.last_failure_at /\ entry.last_failure_at < time
    BY <1>1, <1>4 DEF HealthOK, entry
  <2>3. entry.quality.last_observed_at <= time
    BY <1>1, <2>2, ConstantTypes, SMTT(30) DEF Entries, Trackers, Times
  <2> QED
    BY <1>1, <1>2, <1>3, <1>4, <2>1, <2>3 DEF entry, Trackers
<1>5. CASE entry.quality.state # "Unhealthy"
  <2> DEFINE run == publish_quality_transition(start, source, "Unhealthy",
                                               "SequenceIntegrityFailed", time)
  <2>1. first = run
    BY <1>5 DEF start, entry
  <2>2. RunOK(run, source)
    BY <1>2, PublishOK
  <2>3. run.tracker = commit(start.tracker, "Unhealthy", time)
        /\ Len(run.events) = Len(start.events) + 1
    BY <1>3, <2>1, Published, Zenon
  <2> HIDE DEF run
  <2>4. run.tracker = commit(entry.quality, "Unhealthy", time) /\ Len(run.events) = 1
    BY <1>3, <2>3
  <2>5. /\ run.tracker.state = "Unhealthy" /\ run.tracker.last_observed_at = time
        /\ run.tracker.connection_epoch = entry.quality.connection_epoch
        /\ run.tracker.next_sequence = entry.quality.next_sequence + 1
    BY <1>1, <2>4 DEF commit, Trackers
  <2>6. time <= time
    BY DEF Times
  <2> QED
    BY <1>5, <2>1, <2>2, <2>4, <2>5, <2>6, Zenon DEF entry
<1> QED
  BY <1>4, <1>5, SMTT(30)

(* record_failure *)
LEMMA RecordFailureKeeps ==
    ASSUME SupervisorInv, NEW source, NEW time \in Times, record_failure(source, time)
    PROVE  SupervisorInv'
<1> DEFINE entry == sources[source]
           attempt == entry.failed_attempts + 1
           count == FailureEvents(entry, attempt)
           first == IF entry.quality.state = "Unhealthy" THEN Unpublished(source)
                    ELSE publish_quality_transition(Unpublished(source), source,
                             "Unhealthy", "SequenceIntegrityFailed", time)
           second == publish_quality_transition(first, source, "Quarantined",
                         "RetryBudgetExhausted", time + 1)
           final == IF attempt >= MaximumAttempts THEN second ELSE first
           e == WithHealth(entry, final.tracker, attempt, time)
<1>1. source \in Admitted
  BY Zenon DEF record_failure
<1>2. /\ entry \in Entries /\ HealthOK(entry) /\ LedgerOK(entry) /\ entry.quality \in Trackers
      /\ Len(entry.operational_events) <= LedgerCapacity
      /\ quality_events \in Seq(QualityEvents)
  BY <1>1, SMTT(30) DEF SupervisorInv, Types, EntryInv, Capacities, Entries
<1>3. /\ time > entry.last_failure_at
      /\ attempt >= MaximumAttempts => time < MaxTime
      /\ Len(quality_events) + count <= QualityEventCapacity
      /\ entry.quality.next_sequence + count <= MaxSequence
      /\ first.ok
      /\ sources' = [sources EXCEPT ![source] = e]
      /\ quality_events' = quality_events \o final.events
      /\ UNCHANGED <<admitted_by_tier, delivered, admissions>>
  BY ZenonT(30) DEF record_failure, ensure_quality_capacity, ensure_sequence_capacity
<1>4. /\ RunOK(first, source)
      /\ first.tracker.state = "Unhealthy"
      /\ first.tracker.connection_epoch = entry.quality.connection_epoch
      /\ first.tracker.last_observed_at <= time
      /\ Len(first.events) = IF entry.quality.state # "Unhealthy" THEN 1 ELSE 0
      /\ first.tracker.next_sequence = entry.quality.next_sequence + Len(first.events)
  BY <1>1, <1>3, FailureRecorded, ZenonT(30)
<1>5. /\ attempt >= MaximumAttempts => count = Len(first.events) + 1
      /\ ~(attempt >= MaximumAttempts) => count = Len(first.events)
  <2>1. count = Len(first.events) + (IF attempt >= MaximumAttempts THEN 1 ELSE 0)
    BY <1>4, Zenon DEF FailureEvents
  <2>2. Len(first.events) \in Nat
    BY <1>4
  <2> HIDE DEF first, count, entry, attempt
  <2>3. CASE attempt >= MaximumAttempts
    BY <2>1, <2>2, <2>3
  <2>4. CASE ~(attempt >= MaximumAttempts)
    BY <2>1, <2>2, <2>4, SMTT(30)
  <2> QED
    BY <2>3, <2>4
<1>6. first \in Runs /\ first.tracker \in Trackers /\ first.events \in Seq(QualityEvents)
  BY <1>4 DEF RunOK, Runs
<1>7. attempt \in Nat /\ attempt > 0 /\ time \in 0..MaxTime /\ time # Unset
  <2>1. entry.failed_attempts \in Nat
    BY <1>2, SMTT(30) DEF Entries
  <2> HIDE DEF entry
  <2> QED
    BY <2>1, ConstantTypes, SMTT(30) DEF Times, Unset
<1> HIDE DEF first, count, entry, attempt
<1>8. /\ RunOK(final, source) /\ final.tracker \in Trackers
      /\ Len(final.events) <= count /\ final.events \in Seq(QualityEvents)
      /\ final.tracker.connection_epoch = entry.quality.connection_epoch
      /\ attempt >= MaximumAttempts => final.tracker.state = "Quarantined"
      /\ ~(attempt >= MaximumAttempts) =>
            final.tracker.state = "Unhealthy" /\ final.tracker.last_observed_at <= time
  <2>1. CASE attempt >= MaximumAttempts
    <3>1. time + 1 \in Times /\ time + 1 > first.tracker.last_observed_at
      <4>1. first.tracker.last_observed_at \in 0..MaxTime
        BY <1>6 DEF Trackers
      <4>2. first.tracker.last_observed_at <= time /\ time < MaxTime
        BY <1>3, <1>4, <2>1
      <4> QED
        BY <4>1, <4>2, ConstantTypes DEF Times
    <3>2. first.tracker.next_sequence + 1 <= MaxSequence
      <4>1. entry.quality.next_sequence + (Len(first.events) + 1) <= MaxSequence
        BY <1>3, <1>5, <2>1
      <4>2. entry.quality.next_sequence \in Nat /\ Len(first.events) \in Nat
        BY <1>2, <1>6 DEF Trackers
      <4> QED
        BY <1>4, <4>1, <4>2, ConstantTypes
    <3>3. prepare(first.tracker, "Quarantined", "RetryBudgetExhausted", time + 1)
      BY <1>4, <3>1, <3>2 DEF prepare, valid_transition, valid_cause, ensure_sequence_capacity
    <3>4. RunOK(second, source)
      BY <1>1, <1>4, <3>1, PublishOK
    <3>5. second.tracker = commit(first.tracker, "Quarantined", time + 1)
          /\ Len(second.events) = Len(first.events) + 1
      BY <1>3, <1>6, <3>3, Published
    <3>6. final = second
      BY <2>1
    <3> HIDE DEF second, final
    <3>7. second.tracker.state = "Quarantined"
          /\ second.tracker.connection_epoch = entry.quality.connection_epoch
      BY <1>4, <1>6, <3>5, SMTT(30) DEF commit, Trackers
    <3>8. second.tracker \in Trackers /\ second.events \in Seq(QualityEvents)
      BY <3>4 DEF RunOK, Runs
    <3>9. Len(second.events) <= count
      BY <1>5, <1>6, <2>1, <3>5, <3>8, SMTT(30)
    <3> QED
      BY <2>1, <3>4, <3>6, <3>7, <3>8, <3>9, SMTT(30)
  <2>2. CASE ~(attempt >= MaximumAttempts)
    <3>1. final = first
      BY <2>2
    <3> HIDE DEF final
    <3>2. Len(first.events) <= count
      BY <1>5, <1>6, <2>2, SMTT(30)
    <3> QED
      BY <1>4, <1>6, <2>2, <3>1, <3>2
  <2> QED
    BY <2>1, <2>2, SMTT(30)
<1> HIDE DEF final
<1>9. HealthSet(e, entry, final.tracker, attempt, time)
  BY <1>2, <1>7, <1>8, HealthChanged
<1> HIDE DEF e
<1>10. HealthOK(e)
  <2>1. /\ e.quality = final.tracker /\ e.failed_attempts = attempt
        /\ e.last_failure_at = time /\ e.epoch = entry.epoch
    BY <1>9 DEF HealthSet
  <2>2. CASE attempt >= MaximumAttempts
    BY <1>2, <1>7, <1>8, <2>1, <2>2, SMTT(30) DEF HealthOK
  <2>3. CASE ~(attempt >= MaximumAttempts)
    BY <1>2, <1>7, <1>8, <2>1, <2>3, SMTT(30) DEF HealthOK
  <2> QED
    BY <2>2, <2>3
<1>11. LedgerOK(e)
  BY <1>2, <1>9, SMTT(30) DEF LedgerOK, HealthSet
<1>12. Len(quality_events') <= QualityEventCapacity
  <2>1. Len(quality_events \o final.events) = Len(quality_events) + Len(final.events)
    BY <1>2, <1>8
  <2>2. count \in Nat /\ Len(final.events) \in Nat /\ Len(quality_events) \in Nat
    BY <1>2, <1>5, <1>6, <1>8, SMTT(30)
  <2> QED
    BY <1>3, <1>8, <2>1, <2>2, ConstantTypes
<1> QED
  BY <1>1, <1>2, <1>3, <1>8, <1>9, <1>10, <1>11, <1>12, EntryReplaced, Zenon DEF entry, HealthSet

(* renew_connection: the events of the source are of an earlier connection. *)
LEMMA RenewedPlaced ==
    ASSUME NEW s, NEW events \in Seq(QualityEvents), NEW last, EventTyped(last),
           NEW admission \in Nat, NEW tracker \in Trackers,
           Placed(events, last, s, admission, tracker)
    PROVE  Placed(events, last, s, admission, new(tracker.connection_epoch + 1))
<1> DEFINE epoch == tracker.connection_epoch
           next == new(epoch + 1)
<1>1. /\ next.connection_epoch = epoch + 1 /\ next.state = "Recovering"
      /\ next.next_sequence = 1 /\ next.last_observed_at = Unset /\ epoch \in Nat
  BY DEF new, Trackers
<1> HIDE DEF next, epoch
<1> SUFFICES ASSUME NEW i \in Lineage(events, s), \A k \in Lineage(events, s) : k <= i
             PROVE  Position(EventAt(events, last, i), admission, next)
  BY DEF Placed, next, epoch
<1>2. EventTyped(EventAt(events, last, i))
  BY LineageTyped
<1>3. Position(EventAt(events, last, i), admission, tracker)
  BY SMTT(30) DEF Placed
<1> DEFINE e == EventAt(events, last, i)
<1> HIDE DEF e
<1>4. e.admission < admission \/ (e.admission = admission /\ e.epoch <= epoch)
  BY <1>1, <1>2, <1>3 DEF Position, Before, EventTyped, epoch, e
<1>5. e.admission \in Nat /\ e.epoch \in Nat
  BY <1>2 DEF EventTyped, e
<1>6. Before(e, admission, epoch + 1) /\ ~(e.admission = admission /\ e.epoch = epoch + 1)
  BY <1>1, <1>4, <1>5, SMTT(30) DEF Before
<1> QED
  BY <1>1, <1>6 DEF Position, e

(* renew_connection *)
LEMMA RenewKeeps ==
    ASSUME SupervisorInv, NEW source, renew_connection(source)
    PROVE  SupervisorInv'
<1> DEFINE entry == sources[source]
           tracker == new(entry.epoch + 1)
           run == [ok |-> TRUE, tracker |-> tracker, events |-> <<>>]
           with == WithHealth(entry, tracker, 0, Unset)
           e == RenewedEntry(entry, entry.epoch + 1)
<1>1. /\ source \in Admitted /\ entry.epoch < MaxEpoch
      /\ sources' = [sources EXCEPT ![source] = e]
      /\ UNCHANGED <<admitted_by_tier, quality_events, delivered, admissions>>
  BY DEF renew_connection
<1>2. /\ entry \in Entries /\ HealthOK(entry) /\ LedgerOK(entry) /\ entry.quality \in Trackers
      /\ Len(entry.operational_events) <= LedgerCapacity
      /\ quality_events \in Seq(QualityEvents) /\ Len(quality_events) <= QualityEventCapacity
      /\ source \in Sources /\ delivered \in [Sources -> DeliveredEvents]
      /\ admissions[source] \in Nat
  BY <1>1, ConstantTypes, SMTT(30) DEF SupervisorInv, Types, EntryInv, Capacities, Entries
<1>3. entry.epoch + 1 \in 1..MaxEpoch /\ entry.quality.connection_epoch = entry.epoch
  <2>1. entry.epoch \in 1..MaxEpoch
    BY <1>2 DEF Entries
  <2>2. entry.quality.connection_epoch = entry.epoch
    BY <1>2, SMTT(30) DEF HealthOK
  <2> HIDE DEF entry
  <2> QED
    BY <1>1, <2>1, <2>2, ConstantTypes
<1>4. /\ tracker \in Trackers /\ tracker.state = "Recovering"
      /\ tracker.connection_epoch = entry.epoch + 1
  BY <1>3, ConstantTypes, SMTT(30) DEF new, Trackers, States, Unset
<1>5. RunOK(run, source)
  <2>1. Placed(quality_events, delivered[source], source, admissions[source], entry.quality)
    BY <1>1, SMTT(30) DEF SupervisorInv, LineageInv
  <2>2. EventTyped(delivered[source])
    BY <1>2, SMTT(30) DEF DeliveredEvents, EventTyped
  <2>3. Placed(quality_events, delivered[source], source, admissions[source], tracker)
    BY <1>2, <1>3, <2>1, <2>2, RenewedPlaced, SMTT(30)
  <2>4. run \in Runs /\ run.tracker = tracker /\ run.events = <<>>
    <3>1. tracker \in Trackers /\ <<>> \in Seq(QualityEvents)
      BY <1>4
    <3> HIDE DEF tracker
    <3> QED
      BY <3>1 DEF Runs
  <2>5. quality_events \o run.events = quality_events
    BY <1>2, <2>4, SMTT(30)
  <2> HIDE DEF run, tracker
  <2> QED
    BY <2>3, <2>4, <2>5, SMTT(30) DEF SupervisorInv, LineageInv, RunOK
<1> HIDE DEF entry, tracker
<1>6. HealthSet(with, entry, tracker, 0, Unset)
  <2>1. Unset \in 0..MaxTime /\ 0 \in Nat
    BY ConstantTypes DEF Unset
  <2> QED
    BY <1>2, <1>4, <2>1, HealthChanged
<1>7. e = [with EXCEPT !.epoch = entry.epoch + 1]
  BY DEF RenewedEntry, tracker
<1> HIDE DEF with, e
<1>8. with \in Entries
  BY <1>6 DEF HealthSet
<1>9. e \in Entries
  BY <1>3, <1>7, <1>8, SMTT(30) DEF Entries
<1>10. /\ e.quality = tracker /\ e.failed_attempts = 0 /\ e.last_failure_at = Unset
       /\ e.policy = entry.policy /\ e.epoch = entry.epoch + 1
       /\ e.operational_events = entry.operational_events
       /\ e.recorded = entry.recorded /\ e.retired_before = entry.retired_before
  BY <1>6, <1>7, <1>8 DEF HealthSet, Entries
<1>11. HealthOK(e)
  BY <1>4, <1>10, ConstantTypes, SMTT(30) DEF HealthOK
<1>12. LedgerOK(e)
  BY <1>2, <1>10 DEF LedgerOK
<1>13. quality_events' = quality_events \o run.events /\ run.tracker = tracker
  BY <1>1, <1>2, SMTT(30)
<1> HIDE DEF run
<1> QED
  BY <1>1, <1>2, <1>5, <1>9, <1>10, <1>11, <1>12, <1>13, EntryReplaced, Zenon DEF entry

(* handle_book_overflow: both publications succeed, so the source is back in
   Recovering and the resynchronization command is numbered. *)
LEMMA OverflowKeeps ==
    ASSUME SupervisorInv, NEW source, NEW degraded_at \in Times, NEW recovering_at \in Times,
           handle_book_overflow(source, degraded_at, recovering_at)
    PROVE  SupervisorInv'
<1> DEFINE entry == sources[source]
           start == Unpublished(source)
           first == publish_quality_transition(start, source, "Degraded",
                        "CapacityPressure", degraded_at)
           second == publish_quality_transition(first, source, "Recovering",
                         "RecoveryStarted", recovering_at)
           id == IF second.ok THEN entry.next_command_id + 1 ELSE entry.next_command_id
           e == Resynchronizing(entry, second)
<1>1. /\ source \in Admitted
      /\ recovering_at > degraded_at
      /\ Len(quality_events) + 2 <= QualityEventCapacity
      /\ entry.quality.next_sequence + 2 <= MaxSequence
      /\ entry.next_command_id < MaxCommandId
      /\ first.ok
      /\ sources' = [sources EXCEPT ![source] = e]
      /\ quality_events' = quality_events \o second.events
      /\ UNCHANGED <<admitted_by_tier, delivered, admissions>>
  BY DEF handle_book_overflow, Overflowed, ensure_quality_capacity, ensure_sequence_capacity
<1>2. /\ entry \in Entries /\ HealthOK(entry) /\ LedgerOK(entry) /\ entry.quality \in Trackers
      /\ Len(entry.operational_events) <= LedgerCapacity
      /\ quality_events \in Seq(QualityEvents)
  BY <1>1, Zenon DEF SupervisorInv, Types, EntryInv, Capacities, Entries
<1>3. RunOK(start, source) /\ RunOK(first, source) /\ RunOK(second, source)
  BY <1>1, UnpublishedOK, PublishOK, SMTT(30)
<1>4. start \in Runs /\ start.tracker = entry.quality /\ start.events = <<>>
  BY <1>3, ZenonT(30) DEF RunOK, Unpublished
<1>5. first \in Runs /\ second \in Runs
  BY <1>3, Zenon DEF RunOK
<1> HIDE DEF entry, start
<1>6. /\ first.tracker = commit(entry.quality, "Degraded", degraded_at)
      /\ Len(first.events) = 1
      /\ prepare(entry.quality, "Degraded", "CapacityPressure", degraded_at)
  <2>1. /\ start.ok /\ prepare(start.tracker, "Degraded", "CapacityPressure", degraded_at)
        /\ first.tracker = commit(start.tracker, "Degraded", degraded_at)
        /\ Len(first.events) = Len(start.events) + 1
    BY <1>1, <1>4, Published, Zenon
  <2> HIDE DEF first
  <2> QED
    BY <1>4, <2>1, SMTT(30)
<1>7. entry.quality.state \in {"Healthy", "Recovering"} /\ entry.failed_attempts = 0
  <2>1. entry.quality.state \in {"Healthy", "Recovering"}
    BY <1>6 DEF prepare, valid_cause
  <2>2. entry.failed_attempts \in Nat /\ ~(entry.failed_attempts > 0)
    BY <1>2, <2>1 DEF HealthOK, Entries
  <2> QED
    BY <2>1, <2>2
<1>8. /\ first.tracker.state = "Degraded" /\ first.tracker.last_observed_at = degraded_at
      /\ first.tracker.next_sequence = entry.quality.next_sequence + 1
      /\ first.tracker.connection_epoch = entry.quality.connection_epoch
  BY <1>2, <1>6, ZenonT(30) DEF commit, Trackers
<1>9. prepare(first.tracker, "Recovering", "RecoveryStarted", recovering_at)
  <2>1. first.tracker.next_sequence + 1 <= MaxSequence
    <3>1. entry.quality.next_sequence \in Nat
      BY <1>2 DEF Trackers
    <3> HIDE DEF first
    <3> QED
      BY <1>1, <1>8, <3>1, ConstantTypes
  <2> HIDE DEF first
  <2> QED
    BY <1>1, <1>8, <2>1 DEF prepare, valid_transition, valid_cause, ensure_sequence_capacity
<1> HIDE DEF first
<1>10. /\ second.ok /\ second.tracker = commit(first.tracker, "Recovering", recovering_at)
       /\ Len(second.events) = 2
  <2>1. /\ second.ok /\ second.tracker = commit(first.tracker, "Recovering", recovering_at)
        /\ Len(second.events) = Len(first.events) + 1
    BY <1>1, <1>5, <1>9, Published
  <2> HIDE DEF second
  <2> QED
    BY <1>6, <2>1, SMTT(30)
<1> HIDE DEF second
<1>11. /\ second.tracker \in Trackers /\ second.events \in Seq(QualityEvents)
       /\ second.tracker.state = "Recovering"
       /\ second.tracker.connection_epoch = entry.quality.connection_epoch
  BY <1>5, <1>8, <1>10, SMTT(30) DEF commit, Trackers, Runs
<1>12. id \in 1..MaxCommandId
  <2>1. entry.next_command_id \in 1..MaxCommandId
    BY <1>2 DEF Entries
  <2> QED
    BY <1>1, <2>1, ConstantTypes, SMTT(30)
<1>13. e = [entry EXCEPT !.quality = second.tracker, !.next_command_id = id]
  BY DEF Resynchronizing
<1> HIDE DEF e, id
<1>14. e \in Entries
  <2>1. [entry EXCEPT !.quality = second.tracker] \in Entries
    BY <1>2, <1>11, Zenon DEF Entries
  <2>2. \A r \in Entries : [r EXCEPT !.next_command_id = id] \in Entries
    BY <1>12, SMTT(30) DEF Entries
  <2> QED
    BY <1>13, <2>1, <2>2, Zenon
<1>15. /\ e.quality = second.tracker /\ e.failed_attempts = entry.failed_attempts
       /\ e.last_failure_at = entry.last_failure_at
       /\ e.policy = entry.policy /\ e.epoch = entry.epoch
       /\ e.operational_events = entry.operational_events
       /\ e.recorded = entry.recorded /\ e.retired_before = entry.retired_before
  BY <1>2, <1>13 DEF Entries
<1>16. HealthOK(e)
  BY <1>2, <1>7, <1>11, <1>15, ConstantTypes, SMTT(30) DEF HealthOK
<1>17. LedgerOK(e)
  BY <1>2, <1>15, Zenon DEF LedgerOK
<1>18. Len(quality_events') <= QualityEventCapacity
  <2>1. Len(quality_events \o second.events) = Len(quality_events) + Len(second.events)
    BY <1>2, <1>11
  <2> QED
    BY <1>1, <1>10, <2>1
<1> QED
  BY <1>1, <1>2, <1>3, <1>14, <1>15, <1>16, <1>17, <1>18, EntryReplaced, ZenonT(30) DEF entry

-----------------------------------------------------------------------------
(* The ledger. *)

(* bind_source_completeness *)
LEMMA BindKeeps ==
    ASSUME SupervisorInv, NEW source, bind_source_completeness(source)
    PROVE  SupervisorInv'
<1> DEFINE entry == sources[source]
           e == [entry EXCEPT !.completeness = TRUE]
<1>1. /\ source \in Admitted
      /\ sources' = [sources EXCEPT ![source] = e]
      /\ UNCHANGED <<admitted_by_tier, quality_events, delivered, admissions>>
  BY DEF bind_source_completeness
<1>2. /\ entry \in Entries /\ HealthOK(entry) /\ LedgerOK(entry)
      /\ Len(entry.operational_events) <= LedgerCapacity
  BY <1>1 DEF SupervisorInv, Types, EntryInv, Capacities
<1>3. /\ e \in Entries /\ e.quality = entry.quality
      /\ e.failed_attempts = entry.failed_attempts
      /\ e.last_failure_at = entry.last_failure_at
      /\ e.policy = entry.policy /\ e.epoch = entry.epoch
      /\ e.operational_events = entry.operational_events
      /\ e.recorded = entry.recorded /\ e.retired_before = entry.retired_before
  BY <1>2, Zenon DEF Entries
<1> HIDE DEF e, entry
<1>4. HealthOK(e) /\ LedgerOK(e)
  <2>1. HealthOK(e)
    BY <1>2, <1>3, SMTT(30) DEF HealthOK
  <2>2. LedgerOK(e)
    BY <1>2, <1>3, Zenon DEF LedgerOK
  <2> QED
    BY <2>1, <2>2
<1> QED
  BY <1>1, <1>2, <1>3, <1>4, EntryQuietly, Zenon DEF entry

(* The fields of an entry whose ledger changes. *)
LedgerSet(e, entry, events, recorded, retired_before) ==
    /\ e \in Entries
    /\ e.quality = entry.quality /\ e.policy = entry.policy /\ e.epoch = entry.epoch
    /\ e.failed_attempts = entry.failed_attempts
    /\ e.last_failure_at = entry.last_failure_at
    /\ e.operational_events = events
    /\ e.recorded = recorded
    /\ e.retired_before = retired_before

(* record_operational_event *)
LEMMA RecordEventKeeps ==
    ASSUME SupervisorInv, NEW source, NEW time \in Times, record_operational_event(source, time)
    PROVE  SupervisorInv'
<1> DEFINE entry == sources[source]
           events == Append(entry.operational_events, time)
           recorded == Append(entry.recorded, time)
           e == WithEvent(entry, time)
<1>1. /\ source \in Admitted
      /\ Len(entry.operational_events) < LedgerCapacity
      /\ sources' = [sources EXCEPT ![source] = e]
      /\ UNCHANGED <<admitted_by_tier, quality_events, delivered, admissions>>
  BY DEF record_operational_event
<1>2. entry \in Entries /\ HealthOK(entry) /\ LedgerOK(entry)
  BY <1>1 DEF SupervisorInv, Types, EntryInv
<1>3. entry.operational_events \in Seq(Times) /\ entry.recorded \in Seq(Times)
  BY <1>2 DEF Entries
<1> HIDE DEF entry
<1>4. events \in Seq(Times) /\ recorded \in Seq(Times)
  BY <1>3
<1> HIDE DEF events, recorded
<1>5. LedgerSet(e, entry, events, recorded, entry.retired_before)
  <2>1. e = [entry EXCEPT !.operational_events = events, !.recorded = recorded]
    BY DEF WithEvent, events, recorded
  <2>2. \A r \in Entries : [r EXCEPT !.operational_events = events] \in Entries
    BY <1>4, Zenon DEF Entries
  <2>3. \A r \in Entries : [r EXCEPT !.recorded = recorded] \in Entries
    BY <1>4, Zenon DEF Entries
  <2>4. e \in Entries
    BY <1>2, <2>1, <2>2, <2>3, Zenon
  <2> HIDE DEF e
  <2> QED
    BY <1>2, <2>1, <2>4 DEF LedgerSet, Entries
<1> HIDE DEF e
<1>6. HealthOK(e)
  BY <1>2, <1>5 DEF HealthOK, LedgerSet
<1>7. Len(events) = Len(entry.operational_events) + 1 /\ Len(recorded) = Len(entry.recorded) + 1
  BY <1>3 DEF events, recorded
<1>8. LedgerOK(e)
  <2> DEFINE gone == Len(entry.recorded) - Len(entry.operational_events)
  <2>1. /\ gone >= 0 /\ Len(recorded) - Len(events) = gone
        /\ gone \in Nat /\ Len(entry.recorded) = Len(entry.operational_events) + gone
    BY <1>2, <1>3, <1>7 DEF LedgerOK
  <2>2. /\ \A i \in DOMAIN entry.operational_events :
              entry.operational_events[i] = entry.recorded[i + gone]
        /\ \A i \in 1..gone : entry.recorded[i] < entry.retired_before
    BY <1>2 DEF LedgerOK
  <2> HIDE DEF gone
  <2>3. \A i \in 1..gone : recorded[i] < entry.retired_before
    BY <1>3, <2>1, <2>2 DEF recorded
  <2>4. ASSUME NEW i \in DOMAIN events PROVE events[i] = recorded[i + gone]
    <3>1. i \in 1..(Len(entry.operational_events) + 1) /\ Len(entry.operational_events) \in Nat
      BY <1>3, <1>7 DEF events
    <3>2. CASE i = Len(entry.operational_events) + 1
      <4>1. i + gone = Len(entry.recorded) + 1
        BY <2>1, <3>1, <3>2
      <4> QED
        BY <1>3, <3>2, <4>1 DEF events, recorded
    <3>3. CASE i \in 1..Len(entry.operational_events)
      <4>1. i + gone \in 1..Len(entry.recorded)
        BY <2>1, <3>1, <3>3
      <4>2. entry.operational_events[i] = entry.recorded[i + gone]
        BY <1>3, <2>2, <3>3
      <4> QED
        BY <1>3, <3>3, <4>1, <4>2 DEF events, recorded
    <3> QED
      BY <3>1, <3>2, <3>3
  <2> QED
    BY <1>5, <2>1, <2>3, <2>4 DEF LedgerOK, LedgerSet
<1>9. Len(e.operational_events) <= LedgerCapacity
  <2>1. e.operational_events = events
    BY <1>5 DEF LedgerSet
  <2>2. Len(entry.operational_events) \in Nat
    BY <1>3
  <2> QED
    BY <1>1, <1>7, <2>1, <2>2, ConstantTypes
<1> QED
  BY <1>1, <1>5, <1>6, <1>8, <1>9, EntryQuietly, Zenon DEF entry, LedgerSet

-----------------------------------------------------------------------------
(* The queue of quality events. *)

(* pop_quality_event *)
LEMMA PopKeeps ==
    ASSUME SupervisorInv, pop_quality_event
    PROVE  SupervisorInv'
<1> DEFINE e == Head(quality_events)
           popped == [admission |-> e.admission, epoch |-> e.epoch, sequence |-> e.sequence,
                      time |-> e.time, to |-> e.to]
<1>1. /\ quality_events # <<>>
      /\ delivered' = [delivered EXCEPT ![e.source] = popped]
      /\ quality_events' = Tail(quality_events)
      /\ UNCHANGED <<sources, admitted_by_tier, admissions>>
  BY Zenon DEF pop_quality_event
<1>2. /\ quality_events \in Seq(QualityEvents) /\ delivered \in [Sources -> DeliveredEvents]
      /\ Len(quality_events) <= QualityEventCapacity /\ Admitted \subseteq Sources
  BY DEF SupervisorInv, Types, Capacities
<1>3. e \in QualityEvents
  BY <1>1, <1>2, SMTT(30)
<1>4. popped \in DeliveredEvents /\ e.source \in Sources
  BY <1>3, ConstantTypes, SMTT(30) DEF QualityEvents, DeliveredEvents, Times
<1>5. SameEvent(popped, e)
  BY SMTT(30) DEF SameEvent
<1>6. /\ Tail(quality_events) \in Seq(QualityEvents)
      /\ Len(Tail(quality_events)) = Len(quality_events) - 1 /\ Len(quality_events) \in Nat
  BY <1>1, <1>2, SMTT(30)
<1>7. Admitted' = Admitted
  BY <1>1 DEF Admitted
<1> HIDE DEF popped, e
<1>8. Types'
  <2>1. delivered' \in [Sources -> DeliveredEvents]
    BY <1>1, <1>2, <1>4
  <2> QED
    BY <1>1, <1>6, <1>7, <2>1 DEF SupervisorInv, Types
<1>9. Capacities'
  <2>1. Len(quality_events') <= QualityEventCapacity
    BY <1>1, <1>2, <1>6, ConstantTypes, SMTT(30)
  <2> QED
    BY <1>1, <1>7, <2>1 DEF SupervisorInv, Capacities
<1>10. TierInv'
  BY <1>1, <1>7 DEF SupervisorInv, TierInv, TierInstruments, Instruments
<1>11. EntryInv'
  BY <1>1, <1>7, SMTT(30) DEF SupervisorInv, EntryInv
<1>12. ASSUME NEW s \in Sources
       PROVE  /\ IsLineage(quality_events', delivered'[s], s)
              /\ Known(quality_events', delivered'[s], s, admissions[s])
              /\ \A tracker : Placed(quality_events, delivered[s], s, admissions[s], tracker)
                    => Placed(quality_events', delivered'[s], s, admissions[s], tracker)
  <2>1. /\ IsLineage(quality_events, delivered[s], s)
        /\ Known(quality_events, delivered[s], s, admissions[s])
    BY DEF SupervisorInv, LineageInv
  <2>2. CASE s = e.source
    <3>1. delivered'[s] = popped
      BY <1>1, <1>2, <2>2, SMTT(30)
    <3>2. /\ IsLineage(Tail(quality_events), popped, s)
          /\ \A admission, tracker : Placed(quality_events, delivered[s], s, admission, tracker)
                => Placed(Tail(quality_events), popped, s, admission, tracker)
          /\ \A admission : Known(quality_events, delivered[s], s, admission)
                => Known(Tail(quality_events), popped, s, admission)
      BY <1>1, <1>2, <1>5, <2>1, <2>2, PoppedOwn, Zenon DEF e
    <3> QED
      BY <1>1, <2>1, <3>1, <3>2, Zenon
  <2>3. CASE s # e.source
    <3>1. delivered'[s] = delivered[s]
      BY <1>1, <1>2, <2>3, SMTT(30)
    <3>2. /\ IsLineage(Tail(quality_events), delivered[s], s)
          /\ \A admission, tracker : Placed(quality_events, delivered[s], s, admission, tracker)
                => Placed(Tail(quality_events), delivered[s], s, admission, tracker)
          /\ \A admission : Known(quality_events, delivered[s], s, admission)
                => Known(Tail(quality_events), delivered[s], s, admission)
      BY <1>1, <1>2, <2>1, <2>3, PoppedForeign, ZenonT(30) DEF e
    <3> QED
      BY <1>1, <2>1, <3>1, <3>2, Zenon
  <2> QED
    BY <2>2, <2>3, ZenonT(30)
<1>13. LineageInv'
  BY <1>1, <1>2, <1>7, <1>12, Zenon DEF SupervisorInv, LineageInv
<1> QED
  BY <1>8, <1>9, <1>10, <1>11, <1>13, SMTT(30) DEF SupervisorInv
=============================================================================
