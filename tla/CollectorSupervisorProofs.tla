---------------------- MODULE CollectorSupervisorProofs ----------------------
(***************************************************************************)
(* The books of the collector's supervisor agree: retirement from a        *)
(* ledger, admission to a tier and removal keep the invariant too.         *)
(***************************************************************************)
EXTENDS CollectorSupervisorCalls, FiniteSetTheorems, WellFoundedInduction

(* Retirement from the ledger. *)

LEMMA Smallest ==
    ASSUME NEW S \in SUBSET Nat, S # {}
    PROVE  \E n \in S : \A m \in S : n <= m
<1>1. PICK n \in S : \A m \in S : ~(<<m, n>> \in OpToRel(<, Nat))
  BY NatLessThanWellFounded, WFMin
<1>2. \A m \in S : ~(m < n)
  BY <1>1, Zenon DEF OpToRel
<1>3. n \in Nat /\ \A m \in S : m \in Nat
  OBVIOUS
<1>4. \A m \in S : n <= m
  BY <1>2, <1>3
<1> QED
  BY <1>4

(* The loop of retire_operational_events_before stops. *)
LEMMA RetiredExists ==
    ASSUME NEW events \in Seq(Nat), NEW retain_from \in Nat
    PROVE  LET n == Retired(events, retain_from)
           IN  /\ n \in 0..Len(events)
               /\ \A i \in 1..n : events[i] < retain_from
<1> DEFINE S == {n \in 0..Len(events) : n < Len(events) => events[n + 1] >= retain_from}
           OK(n) == /\ \A i \in 1..n : events[i] < retain_from
                    /\ n < Len(events) => events[n + 1] >= retain_from
<1>1. Len(events) \in Nat /\ Len(events) \in S /\ S \in SUBSET Nat
  OBVIOUS
<1>2. PICK n \in S : \A m \in S : n <= m
  BY <1>1, Smallest, Zenon
<1>3. ASSUME NEW i \in 1..n PROVE events[i] < retain_from
  <2>1. i - 1 \in 0..Len(events) /\ i - 1 < n /\ (i - 1) + 1 = i /\ n \in 0..Len(events)
    BY <1>1, <1>2
  <2>2. i - 1 \notin S
    <3> HIDE DEF S
    <3>1. i - 1 \in S => n <= i - 1
      BY <1>2
    <3> QED
      BY <2>1, <3>1
  <2>3. i - 1 < Len(events) /\ ~(events[i] >= retain_from)
    BY <2>1, <2>2
  <2>4. events[i] \in Nat
    BY <2>1
  <2> QED
    BY <2>3, <2>4
<1>4. n \in 0..Len(events) /\ OK(n)
  BY <1>2, <1>3
<1> HIDE DEF OK, S
<1>5. Retired(events, retain_from) = CHOOSE m \in 0..Len(events) : OK(m)
  BY DEF Retired, OK
<1>6. /\ Retired(events, retain_from) \in 0..Len(events)
      /\ OK(Retired(events, retain_from))
  BY <1>4, <1>5
<1> QED
  BY <1>6 DEF OK

(* retire_operational_events_before *)
LEMMA RetireKeeps ==
    ASSUME SupervisorInv, NEW source, NEW retain_from \in Times,
           retire_operational_events_before(source, retain_from)
    PROVE  SupervisorInv'
<1> DEFINE entry == sources[source]
           old == entry.operational_events
           n == Retired(old, retain_from)
           events == SubSeq(old, n + 1, Len(old))
           e == WithRetired(entry, retain_from)
<1>1. /\ source \in Admitted
      /\ retain_from >= entry.retired_before
      /\ sources' = [sources EXCEPT ![source] = e]
      /\ UNCHANGED <<admitted_by_tier, quality_events, delivered, admissions>>
  BY DEF retire_operational_events_before
<1>2. entry \in Entries /\ HealthOK(entry) /\ LedgerOK(entry) /\ Len(old) <= LedgerCapacity
  BY <1>1 DEF SupervisorInv, Types, EntryInv, Capacities
<1>3. old \in Seq(Times) /\ entry.recorded \in Seq(Times) /\ entry.retired_before \in 0..MaxTime
  BY <1>2 DEF Entries
<1> HIDE DEF entry
<1>4. n \in 0..Len(old) /\ \A i \in 1..n : old[i] < retain_from
  <2>1. old \in Seq(Nat) /\ retain_from \in Nat
    BY <1>3, ConstantTypes DEF Times
  <2> HIDE DEF old
  <2> QED
    BY <2>1, RetiredExists
<1> HIDE DEF old, n
<1>5. /\ events \in Seq(Times) /\ Len(events) = Len(old) - n
      /\ \A i \in 1..(Len(old) - n) : events[i] = old[n + i]
  BY <1>3, <1>4
<1>6. retain_from \in 0..MaxTime
  BY ConstantTypes DEF Times
<1> HIDE DEF events
<1>7. LedgerSet(e, entry, events, entry.recorded, retain_from)
  <2>1. e = [entry EXCEPT !.operational_events = events, !.retired_before = retain_from]
    BY DEF WithRetired, events, n, old
  <2>2. \A r \in Entries : [r EXCEPT !.operational_events = events] \in Entries
    BY <1>5, Zenon DEF Entries
  <2>3. \A r \in Entries : [r EXCEPT !.retired_before = retain_from] \in Entries
    BY <1>6 DEF Entries
  <2>4. e \in Entries
    BY <1>2, <2>1, <2>2, <2>3, Zenon
  <2> HIDE DEF e
  <2> QED
    BY <1>2, <2>1, <2>4 DEF LedgerSet, Entries
<1> HIDE DEF e
<1>8. HealthOK(e)
  BY <1>2, <1>7 DEF HealthOK, LedgerSet
<1>9. LedgerOK(e)
  <2> DEFINE gone == Len(entry.recorded) - Len(old)
             now == Len(entry.recorded) - Len(events)
  <2>1. /\ gone \in Nat /\ now = gone + n /\ now \in Nat /\ n \in Nat
    BY <1>2, <1>3, <1>4, <1>5 DEF LedgerOK, old
  <2>2. /\ \A i \in 1..Len(old) : old[i] = entry.recorded[i + gone]
        /\ \A i \in 1..gone : entry.recorded[i] < entry.retired_before
    <3>1. DOMAIN old = 1..Len(old)
      BY <1>3
    <3>2. /\ \A i \in DOMAIN old : old[i] = entry.recorded[i + gone]
          /\ \A i \in 1..gone : entry.recorded[i] < entry.retired_before
      BY <1>2 DEF LedgerOK, old
    <3> QED
      BY <3>1, <3>2, SMTT(30)
  <2> HIDE DEF gone, now
  <2>3. ASSUME NEW i \in 1..now PROVE entry.recorded[i] < retain_from
    <3>1. CASE i <= gone
      <4>1. entry.recorded[i] < entry.retired_before
        BY <2>1, <2>2, <3>1
      <4>2. i \in 1..Len(entry.recorded)
        BY <1>3, <1>4, <1>5, <2>1 DEF now
      <4>3. entry.recorded[i] \in Nat /\ entry.retired_before \in Nat /\ retain_from \in Nat
        BY <1>3, <4>2, ConstantTypes DEF Times
      <4> QED
        BY <1>1, <4>1, <4>3
    <3>2. CASE ~(i <= gone)
      <4>1. i - gone \in 1..n /\ (i - gone) + gone = i /\ i - gone \in 1..Len(old)
        BY <1>3, <1>4, <2>1, <3>2
      <4>2. old[i - gone] = entry.recorded[i]
        BY <2>2, <4>1
      <4> QED
        BY <1>4, <4>1, <4>2
    <3> QED
      BY <3>1, <3>2
  <2>4. ASSUME NEW i \in DOMAIN events PROVE events[i] = entry.recorded[i + now]
    <3>1. i \in 1..(Len(old) - n)
      BY <1>5
    <3>2. n + i \in 1..Len(old) /\ (n + i) + gone = i + now
      BY <1>3, <1>4, <2>1, <3>1
    <3> QED
      BY <1>5, <2>2, <3>1, <3>2
  <2>5. now >= 0
    BY <2>1
  <2> QED
    BY <1>7, <2>3, <2>4, <2>5, SMTT(30) DEF LedgerOK, LedgerSet, now
<1>10. Len(e.operational_events) <= LedgerCapacity
  <2>1. e.operational_events = events
    BY <1>7 DEF LedgerSet
  <2>2. Len(old) \in Nat /\ n \in Nat
    BY <1>3, <1>4
  <2> QED
    BY <1>2, <1>5, <2>1, <2>2, ConstantTypes, SMTT(30)
<1> QED
  BY <1>1, <1>7, <1>8, <1>9, <1>10, EntryQuietly, Zenon DEF entry, LedgerSet

-----------------------------------------------------------------------------
(* Admission. *)

(* The instruments of a source are as many as its policy says. *)
LEMMA InstrumentCount ==
    ASSUME NEW s, NEW n \in Nat
    PROVE  /\ IsFiniteSet({s} \X (1..n))
           /\ Cardinality({s} \X (1..n)) = n
<1>1. IsFiniteSet({s}) /\ Cardinality({s}) = 1
  BY FS_Singleton, Zenon
<1>2. IsFiniteSet(1..n) /\ Cardinality(1..n) = n
  BY FS_Interval
<1> DEFINE S == {s}
           T == 1..n
<1>3. IsFiniteSet(S) /\ Cardinality(S) = 1 /\ IsFiniteSet(T) /\ Cardinality(T) = n
  BY <1>1, <1>2
<1> HIDE DEF S, T
<1>4. IsFiniteSet(S \X T) /\ Cardinality(S \X T) = Cardinality(S) * Cardinality(T)
  BY <1>3, FS_Product
<1>5. Cardinality(S \X T) = n
  BY <1>3, <1>4
<1> QED
  BY <1>4, <1>5 DEF S, T

LEMMA InTier ==
    ASSUME NEW t, NEW x
    PROVE  x \in TierInstruments(t)
             <=> \E s \in Admitted : /\ sources[s].policy.tier = t
                                     /\ x \in {s} \X (1..sources[s].policy.instruments)
  BY DEF TierInstruments, Instruments

(* A policy takes at least one instrument of its tier. *)
LEMMA PolicyTyped ==
    ASSUME NEW policy \in Policies
    PROVE  policy.tier \in Tiers /\ policy.instruments \in Nat
  BY SupervisorConstants, SMTT(30)

LEMMA EntryNew ==
    ASSUME NEW policy \in Policies, NEW epoch \in 1..MaxEpoch
    PROVE  LET e == Entry(policy, epoch)
           IN  /\ e \in Entries
               /\ e.policy = policy /\ e.quality = new(epoch) /\ e.operational_events = <<>>
               /\ HealthOK(e) /\ LedgerOK(e)
<1> DEFINE e == Entry(policy, epoch)
<1>1. new(epoch) \in Trackers
  BY ConstantTypes, SMTT(30) DEF new, Trackers, States, Unset
<1>2. e \in Entries
  BY <1>1, ConstantTypes, SMTT(30) DEF Entry, Entries, Unset
<1>3. HealthOK(e)
  BY ConstantTypes, SMTT(30) DEF Entry, new, HealthOK, Unset
<1>4. LedgerOK(e)
  BY SMTT(30) DEF Entry, LedgerOK
<1> QED
  BY <1>2, <1>3, <1>4, SMTT(30) DEF Entry

(* A new admission of a source starts a connection no event is of. *)
LEMMA AdmittedPlaced ==
    ASSUME NEW s, NEW events \in Seq(QualityEvents), NEW last, EventTyped(last),
           NEW admission \in Nat, Known(events, last, s, admission), NEW epoch
    PROVE  Placed(events, last, s, admission + 1, new(epoch))
<1> SUFFICES ASSUME NEW i \in Lineage(events, s)
             PROVE  Position(EventAt(events, last, i), admission + 1, new(epoch))
  BY DEF Placed
<1> DEFINE e == EventAt(events, last, i)
<1>1. e.admission \in Nat /\ e.admission <= admission
  BY LineageTyped DEF EventTyped, Known
<1> HIDE DEF e
<1>2. e.admission < admission + 1 /\ e.admission # admission + 1
  BY <1>1
<1> QED
  BY <1>2 DEF Position, Before, new, e

(* admit_with_epoch *)
LEMMA AdmitKeeps ==
    ASSUME SupervisorInv, NEW source \in Sources, NEW policy \in Policies,
           NEW epoch \in StartEpochs, admit_with_epoch(source, policy, epoch)
    PROVE  SupervisorInv'
<1> DEFINE e == Entry(policy, epoch)
           tier == policy.tier
           added == {source} \X (1..policy.instruments)
<1>1. /\ source \notin Admitted
      /\ Cardinality(Admitted) < SourceCount
      /\ admitted_by_tier[tier] + policy.instruments <= Limit[tier]
      /\ sources' = [s \in Admitted \cup {source} |-> IF s = source THEN e ELSE sources[s]]
      /\ admitted_by_tier' = [admitted_by_tier EXCEPT ![tier] = @ + policy.instruments]
      /\ admissions[source] < MaxAdmissions
      /\ admissions' = [admissions EXCEPT ![source] = @ + 1]
      /\ UNCHANGED <<quality_events, delivered>>
  BY SMTT(30) DEF admit_with_epoch
<1>2. epoch \in 1..MaxEpoch /\ tier \in Tiers /\ policy.instruments \in Nat
  BY SupervisorConstants, PolicyTyped, SMTT(30)
<1>3. /\ e \in Entries /\ e.policy = policy /\ e.quality = new(epoch)
      /\ e.operational_events = <<>> /\ HealthOK(e) /\ LedgerOK(e)
  BY <1>2, EntryNew, SMTT(30)
<1> HIDE DEF e, added, tier
<1>4. /\ Admitted' = Admitted \cup {source}
      /\ sources'[source] = e
      /\ \A s \in Admitted : sources'[s] = sources[s]
  BY <1>1, SMTT(30) DEF Admitted
<1>5. Types'
  <2>1. Admitted' \subseteq Sources /\ sources' \in [Admitted' -> Entries]
    BY <1>1, <1>3, <1>4, SMTT(30) DEF SupervisorInv, Types
  <2>2. admitted_by_tier' \in [Tiers -> Nat]
    BY <1>1, <1>2, SMTT(30) DEF SupervisorInv, Types
  <2>3. admissions' \in [Sources -> 0..MaxAdmissions]
    BY <1>1, ConstantTypes, SMTT(30) DEF SupervisorInv, Types
  <2>4. \A s \in Admitted' : admissions'[s] >= 1
    BY <1>1, <1>4, ConstantTypes, SMTT(30) DEF SupervisorInv, Types
  <2> QED
    BY <1>1, <2>1, <2>2, <2>3, <2>4, ZenonT(30) DEF SupervisorInv, Types
<1>6. Capacities'
  <2>1. IsFiniteSet(Admitted) /\ Cardinality(Admitted) \in Nat
    BY FS_CardinalityType DEF SupervisorInv, Capacities
  <2>2. IsFiniteSet(Admitted') /\ Cardinality(Admitted') = Cardinality(Admitted) + 1
    BY <1>1, <1>4, <2>1, FS_AddElement
  <2>3. Cardinality(Admitted') <= SourceCount
    BY <1>1, <2>1, <2>2, ConstantTypes, SMTT(30)
  <2>4. \A s \in Admitted' : Len(sources'[s].operational_events) <= LedgerCapacity
    BY <1>3, <1>4, ConstantTypes, SMTT(30) DEF SupervisorInv, Capacities
  <2> QED
    BY <1>1, <2>2, <2>3, <2>4, ZenonT(30) DEF SupervisorInv, Capacities
<1>7. TierInv'
  <2> SUFFICES ASSUME NEW t \in Tiers
               PROVE  /\ IsFiniteSet(TierInstruments(t)')
                      /\ admitted_by_tier'[t] = Cardinality(TierInstruments(t)')
                      /\ admitted_by_tier'[t] <= Limit[t]
    BY DEF TierInv
  <2>1. /\ IsFiniteSet(TierInstruments(t)) /\ admitted_by_tier[t] = Cardinality(TierInstruments(t))
        /\ admitted_by_tier[t] <= Limit[t] /\ admitted_by_tier \in [Tiers -> Nat]
    BY SMTT(30) DEF SupervisorInv, TierInv, Types
  <2>2. \A x : x \in TierInstruments(t)'
           <=> \E s \in Admitted' : /\ sources'[s].policy.tier = t
                                    /\ x \in {s} \X (1..sources'[s].policy.instruments)
    BY DEF TierInstruments, Instruments
  <2>3. CASE t = tier
    <3>a. \A x : x \in added <=> /\ sources'[source].policy.tier = t
                                  /\ x \in {source} \X (1..sources'[source].policy.instruments)
      BY <1>3, <1>4, <2>3, Zenon DEF added, tier
    <3>1. TierInstruments(t)' = TierInstruments(t) \cup added
      <4> SUFFICES ASSUME NEW x
                   PROVE  x \in TierInstruments(t)' <=> x \in TierInstruments(t) \/ x \in added
        OBVIOUS
      <4>1. x \in TierInstruments(t)
              <=> \E s \in Admitted : /\ sources[s].policy.tier = t
                                      /\ x \in {s} \X (1..sources[s].policy.instruments)
        BY InTier
      <4>2. x \in TierInstruments(t)
              <=> \E s \in Admitted : /\ sources'[s].policy.tier = t
                                      /\ x \in {s} \X (1..sources'[s].policy.instruments)
        BY <1>4, <4>1, Zenon
      <4> QED
        BY <1>4, <2>2, <3>a, <4>2, Zenon
    <3>2. TierInstruments(t) \cap added = {}
      <4> SUFFICES ASSUME NEW x \in TierInstruments(t), x \in added
                   PROVE  FALSE
        OBVIOUS
      <4>1. PICK s \in Admitted : x \in {s} \X (1..sources[s].policy.instruments)
        BY InTier, Zenon
      <4>2. x[1] = s /\ x[1] = source
        BY <4>1 DEF added
      <4> QED
        BY <1>1, <4>2
    <3>3. IsFiniteSet(added) /\ Cardinality(added) = policy.instruments
      BY <1>2, InstrumentCount, Zenon DEF added
    <3>4. /\ IsFiniteSet(TierInstruments(t) \cup added)
          /\ Cardinality(TierInstruments(t) \cup added)
               = Cardinality(TierInstruments(t)) + policy.instruments
      <4>1. Cardinality(TierInstruments(t)) \in Nat
        BY <2>1
      <4>2. Cardinality(TierInstruments(t) \cap added) = 0
        BY <3>2, FS_EmptySet
      <4>3. /\ IsFiniteSet(TierInstruments(t) \cup added)
            /\ Cardinality(TierInstruments(t) \cup added)
                 = Cardinality(TierInstruments(t)) + Cardinality(added)
                     - Cardinality(TierInstruments(t) \cap added)
        BY <2>1, <3>3, FS_Union, SMTT(30)
      <4> QED
        BY <1>2, <3>3, <4>1, <4>2, <4>3
    <3>5. admitted_by_tier'[t] = admitted_by_tier[t] + policy.instruments
      BY <1>1, <1>2, <2>1, <2>3, SMTT(30)
    <3> QED
      BY <1>1, <2>1, <2>3, <3>1, <3>4, <3>5, SMTT(30)
  <2>4. CASE t # tier
    <3>a. sources'[source].policy.tier # t
      BY <1>3, <1>4, <2>4 DEF tier
    <3>1. TierInstruments(t)' = TierInstruments(t)
      <4> SUFFICES ASSUME NEW x
                   PROVE  x \in TierInstruments(t)' <=> x \in TierInstruments(t)
        OBVIOUS
      <4>1. x \in TierInstruments(t)
              <=> \E s \in Admitted : /\ sources[s].policy.tier = t
                                      /\ x \in {s} \X (1..sources[s].policy.instruments)
        BY InTier
      <4>2. x \in TierInstruments(t)
              <=> \E s \in Admitted : /\ sources'[s].policy.tier = t
                                      /\ x \in {s} \X (1..sources'[s].policy.instruments)
        BY <1>4, <4>1, Zenon
      <4> QED
        BY <1>4, <2>2, <3>a, <4>2, Zenon
    <3>2. admitted_by_tier'[t] = admitted_by_tier[t]
      BY <1>1, <1>2, <2>1, <2>4, SMTT(30)
    <3> QED
      BY <2>1, <3>1, <3>2, ZenonT(30)
  <2> QED
    BY <2>3, <2>4
<1>8. EntryInv'
  BY <1>3, <1>4, ZenonT(30) DEF SupervisorInv, EntryInv
<1>9. LineageInv'
  <2>1. /\ quality_events \in Seq(QualityEvents) /\ delivered \in [Sources -> DeliveredEvents]
        /\ admissions \in [Sources -> 0..MaxAdmissions] /\ Admitted \subseteq Sources
    BY SMTT(30) DEF SupervisorInv, Types
  <2>2. admissions[source] \in Nat /\ admissions'[source] = admissions[source] + 1
        /\ \A s \in Sources \ {source} : admissions'[s] = admissions[s]
    BY <1>1, <2>1, ConstantTypes, SMTT(30)
  <2>3. EventTyped(delivered[source])
    BY <2>1 DEF EventTyped, DeliveredEvents
  <2>4. Known(quality_events, delivered[source], source, admissions[source])
    BY Zenon DEF SupervisorInv, LineageInv
  <2>5. Known(quality_events, delivered[source], source, admissions'[source])
    <3> SUFFICES ASSUME NEW i \in Lineage(quality_events, source)
                 PROVE  EventAt(quality_events, delivered[source], i).admission <= admissions'[source]
      BY DEF Known
    <3>1. EventAt(quality_events, delivered[source], i).admission <= admissions[source]
          /\ EventAt(quality_events, delivered[source], i).admission \in Nat
      BY <2>1, <2>3, <2>4, LineageTyped, SMTT(30) DEF Known, EventTyped
    <3> QED
      BY <2>2, <3>1, SMTT(30)
  <2>6. Placed(quality_events, delivered[source], source, admissions'[source], e.quality)
    BY <1>3, <2>1, <2>2, <2>3, <2>4, AdmittedPlaced, ZenonT(30)
  <2>7. \A s \in Sources : IsLineage(quality_events, delivered[s], s)
    BY ZenonT(30) DEF SupervisorInv, LineageInv
  <2>8. \A s \in Sources : Known(quality_events, delivered[s], s, admissions'[s])
    BY <2>2, <2>5, SMTT(30) DEF SupervisorInv, LineageInv
  <2>9. \A s \in Admitted' :
           Placed(quality_events, delivered[s], s, admissions'[s], sources'[s].quality)
    BY <1>1, <1>4, <2>1, <2>2, <2>6, Zenon DEF SupervisorInv, LineageInv
  <2> QED
    BY <1>1, <2>7, <2>8, <2>9, Zenon DEF LineageInv
<1> QED
  BY <1>5, <1>6, <1>7, <1>8, <1>9, SMTT(30) DEF SupervisorInv

(* remove *)
LEMMA RemoveKeeps ==
    ASSUME SupervisorInv, NEW source, remove(source)
    PROVE  SupervisorInv'
<1> DEFINE policy == sources[source].policy
           tier == policy.tier
           gone == {source} \X (1..policy.instruments)
<1>1. /\ source \in Admitted
      /\ admitted_by_tier' = [admitted_by_tier EXCEPT ![tier] = @ - policy.instruments]
      /\ admitted_by_tier[tier] >= policy.instruments
      /\ sources' = [s \in Admitted \ {source} |-> sources[s]]
      /\ UNCHANGED <<quality_events, delivered, admissions>>
  BY ZenonT(30) DEF remove
<1>2. /\ policy \in Policies /\ sources \in [Admitted -> Entries] /\ Admitted \subseteq Sources
      /\ admitted_by_tier \in [Tiers -> Nat]
  BY <1>1, ZenonT(30) DEF SupervisorInv, Types, Entries
<1>3. tier \in Tiers /\ policy.instruments \in Nat
  BY <1>2, PolicyTyped, SMTT(30)
<1>4. /\ Admitted' = Admitted \ {source}
      /\ \A s \in Admitted' : sources'[s] = sources[s]
  BY <1>1 DEF Admitted
<1> HIDE DEF gone, tier
<1>5. Types'
  <2>1. Admitted' \subseteq Sources /\ sources' \in [Admitted' -> Entries]
    BY <1>1, <1>2, <1>4, SMTT(30)
  <2>2. admitted_by_tier' \in [Tiers -> Nat]
    BY <1>1, <1>2, <1>3, SMTT(30)
  <2> QED
    BY <1>1, <1>4, <2>1, <2>2, SMTT(30) DEF SupervisorInv, Types
<1>6. Capacities'
  <2>1. IsFiniteSet(Admitted) /\ Cardinality(Admitted) <= SourceCount
    BY SMTT(30) DEF SupervisorInv, Capacities
  <2>2. IsFiniteSet(Admitted') /\ Cardinality(Admitted') <= Cardinality(Admitted)
        /\ Cardinality(Admitted) \in Nat /\ Cardinality(Admitted') \in Nat
    BY <1>4, <2>1, FS_Subset, FS_CardinalityType, SMTT(30)
  <2>3. Cardinality(Admitted') <= SourceCount
    BY <2>1, <2>2, ConstantTypes, SMTT(30)
  <2> QED
    BY <1>1, <1>4, <2>2, <2>3 DEF SupervisorInv, Capacities
<1>7. TierInv'
  <2> SUFFICES ASSUME NEW t \in Tiers
               PROVE  /\ IsFiniteSet(TierInstruments(t)')
                      /\ admitted_by_tier'[t] = Cardinality(TierInstruments(t)')
                      /\ admitted_by_tier'[t] <= Limit[t]
    BY SMTT(30) DEF TierInv
  <2>1. /\ IsFiniteSet(TierInstruments(t)) /\ admitted_by_tier[t] = Cardinality(TierInstruments(t))
        /\ admitted_by_tier[t] <= Limit[t] /\ admitted_by_tier[t] \in Nat /\ Limit[t] \in Nat
    BY <1>2, SupervisorConstants, SMTT(30) DEF SupervisorInv, TierInv
  <2>2. \A x : x \in TierInstruments(t)'
           <=> \E s \in Admitted' : /\ sources'[s].policy.tier = t
                                    /\ x \in {s} \X (1..sources'[s].policy.instruments)
    BY DEF TierInstruments, Instruments
  <2>3. \A x : x \in TierInstruments(t)'
           <=> \E s \in Admitted' : /\ sources[s].policy.tier = t
                                    /\ x \in {s} \X (1..sources[s].policy.instruments)
    BY <1>4, <2>2, Zenon
  <2>4. \A x : x \in TierInstruments(t)
           <=> \E s \in Admitted : /\ sources[s].policy.tier = t
                                   /\ x \in {s} \X (1..sources[s].policy.instruments)
    BY InTier
  <2>5. CASE t = tier
    <3>1. gone \subseteq TierInstruments(t)
      BY <1>1, <2>4, <2>5, Zenon DEF gone, tier
    <3>2. TierInstruments(t)' = TierInstruments(t) \ gone
      <4> SUFFICES ASSUME NEW x
                   PROVE  x \in TierInstruments(t)' <=> x \in TierInstruments(t) /\ x \notin gone
        OBVIOUS
      <4>1. ASSUME x \in TierInstruments(t)' PROVE x \in TierInstruments(t) /\ x \notin gone
        <5>1. PICK s \in Admitted' : /\ sources[s].policy.tier = t
                                     /\ x \in {s} \X (1..sources[s].policy.instruments)
          BY <2>3, <4>1, Zenon
        <5>2. s # source /\ s \in Admitted /\ x[1] = s
          BY <1>4, <5>1
        <5>3. x \notin gone
          BY <5>2 DEF gone
        <5> QED
          BY <2>4, <5>1, <5>2, <5>3, Zenon
      <4>2. ASSUME x \in TierInstruments(t), x \notin gone PROVE x \in TierInstruments(t)'
        <5>1. PICK s \in Admitted : /\ sources[s].policy.tier = t
                                    /\ x \in {s} \X (1..sources[s].policy.instruments)
          BY <2>4, <4>2, Zenon
        <5>2. s # source
          BY <4>2, <5>1 DEF gone
        <5>3. s \in Admitted'
          BY <1>4, <5>2
        <5> QED
          BY <2>3, <5>1, <5>3, Zenon
      <4> QED
        BY <4>1, <4>2
    <3>3. Cardinality(gone) = policy.instruments
      BY <1>3, InstrumentCount, ZenonT(30) DEF gone
    <3>4. TierInstruments(t) \cap gone = gone
      BY <3>1
    <3>5. /\ IsFiniteSet(TierInstruments(t)')
          /\ Cardinality(TierInstruments(t)') = Cardinality(TierInstruments(t)) - policy.instruments
      <4>1. /\ IsFiniteSet(TierInstruments(t) \ gone)
            /\ Cardinality(TierInstruments(t) \ gone)
                 = Cardinality(TierInstruments(t)) - Cardinality(TierInstruments(t) \cap gone)
        BY <2>1, FS_Difference, SMTT(30)
      <4> QED
        BY <3>2, <3>3, <3>4, <4>1
    <3>6. admitted_by_tier'[t] = admitted_by_tier[t] - policy.instruments
      BY <1>1, <1>2, <2>5, SMTT(30)
    <3>7. admitted_by_tier'[t] <= Limit[t]
      BY <1>3, <2>1, <3>6, SMTT(30)
    <3> QED
      BY <2>1, <3>5, <3>6, <3>7
  <2>6. CASE t # tier
    <3>1. TierInstruments(t)' = TierInstruments(t)
      <4> SUFFICES ASSUME NEW x
                   PROVE  x \in TierInstruments(t)' <=> x \in TierInstruments(t)
        OBVIOUS
      <4> QED
        BY <1>4, <2>3, <2>4, <2>6 DEF tier
    <3>2. admitted_by_tier'[t] = admitted_by_tier[t]
      BY <1>1, <1>2, <2>6, SMTT(30)
    <3> QED
      BY <2>1, <3>1, <3>2, SMTT(30)
  <2> QED
    BY <2>5, <2>6, SMTT(30)
<1>8. EntryInv'
  BY <1>4, SMTT(30) DEF SupervisorInv, EntryInv
<1>9. LineageInv'
  BY <1>1, <1>4, Zenon DEF SupervisorInv, LineageInv
<1> QED
  BY <1>5, <1>6, <1>7, <1>8, <1>9, SMTT(30) DEF SupervisorInv

-----------------------------------------------------------------------------
(* The whole specification. *)

LEMMA SupervisorStarts ==
    ASSUME Init
    PROVE  SupervisorInv
<1>1. Admitted = {}
  BY DEF Init, Admitted
<1>2. NothingDelivered \in DeliveredEvents
  BY DEF NothingDelivered, DeliveredEvents
<1>3. Types
  BY <1>1, <1>2, ConstantTypes, SMTT(30) DEF Init, Types, Admitted
<1>4. Capacities
  BY <1>1, FS_EmptySet, ConstantTypes, SMTT(30) DEF Init, Capacities
<1>5. TierInv
  <2> SUFFICES ASSUME NEW t \in Tiers
               PROVE  /\ IsFiniteSet(TierInstruments(t))
                      /\ admitted_by_tier[t] = Cardinality(TierInstruments(t))
                      /\ admitted_by_tier[t] <= Limit[t]
    BY DEF TierInv
  <2>1. TierInstruments(t) = {}
    BY <1>1 DEF TierInstruments
  <2>2. admitted_by_tier[t] = 0 /\ Limit[t] \in Nat
    BY SupervisorConstants DEF Init
  <2> QED
    BY <2>1, <2>2, FS_EmptySet, SMTT(30)
<1>6. EntryInv
  BY <1>1, SMTT(30) DEF EntryInv
<1>7. LineageInv
  <2> SUFFICES ASSUME NEW s \in Sources
               PROVE  /\ IsLineage(quality_events, delivered[s], s)
                      /\ Known(quality_events, delivered[s], s, admissions[s])
    BY <1>1 DEF LineageInv
  <2>1. Lineage(quality_events, s) = {0}
    BY DEF Init, Lineage
  <2>2. IsLineage(quality_events, delivered[s], s)
    BY <2>1 DEF IsLineage, Successive
  <2>3. delivered[s].admission = 0 /\ admissions[s] = 0
    BY DEF Init, NothingDelivered
  <2>4. Known(quality_events, delivered[s], s, admissions[s])
    BY <2>1, <2>3 DEF Known, EventAt
  <2> QED
    BY <2>2, <2>4, SMTT(30)
<1> QED
  BY <1>3, <1>4, <1>5, <1>6, <1>7 DEF SupervisorInv

LEMMA SupervisorStep ==
    ASSUME SupervisorInv, [Next]_supervisorVars
    PROVE  SupervisorInv'
<1>1. CASE Admission
  BY <1>1, AdmitKeeps, RemoveKeeps DEF Admission
<1>2. CASE pop_quality_event
  BY <1>2, PopKeeps
<1>3. ASSUME NEW s \in Sources, HealthOf(s) PROVE SupervisorInv'
  BY <1>3, RenewKeeps, MarkHealthyKeeps, RecordFailureKeeps, OverflowKeeps, SMTT(30) DEF HealthOf
<1>4. ASSUME NEW s \in Sources, LedgerOf(s) PROVE SupervisorInv'
  BY <1>4, BindKeeps, RecordEventKeeps, RetireKeeps DEF LedgerOf
<1>5. CASE UNCHANGED supervisorVars
  <2>1. /\ sources' = sources /\ admitted_by_tier' = admitted_by_tier
        /\ quality_events' = quality_events /\ delivered' = delivered /\ admissions' = admissions
    BY <1>5 DEF supervisorVars
  <2>2. Admitted' = Admitted
    BY <2>1 DEF Admitted
  <2>3. Types' /\ Capacities'
    BY <2>1, <2>2, SMTT(30) DEF SupervisorInv, Types, Capacities
  <2>4. TierInv'
    BY <2>1, <2>2, SMTT(30) DEF SupervisorInv, TierInv, TierInstruments, Instruments
  <2>5. EntryInv' /\ LineageInv'
    BY <2>1, <2>2, Zenon DEF SupervisorInv, EntryInv, LineageInv
  <2> QED
    BY <2>3, <2>4, <2>5 DEF SupervisorInv
<1> QED
  BY <1>1, <1>2, <1>3, <1>4, <1>5 DEF Next

(* A ledger without its retired prefix counts what was recorded since. *)
LEMMA ReceiptCounts ==
    ASSUME NEW e \in Entries, LedgerOK(e), NEW start \in Times, NEW end \in Times,
           start >= e.retired_before
    PROVE  CountIn(e.operational_events, start, end) = CountIn(e.recorded, start, end)
<1> DEFINE kept == e.operational_events
           all == e.recorded
           gone == Len(all) - Len(kept)
           A == {i \in DOMAIN kept : kept[i] >= start /\ kept[i] < end}
           B == {i \in DOMAIN all : all[i] >= start /\ all[i] < end}
           f == [i \in A |-> i + gone]
<1>1. /\ kept \in Seq(Times) /\ all \in Seq(Times) /\ e.retired_before \in 0..MaxTime
      /\ start \in Nat /\ end \in Nat
  BY ConstantTypes DEF Entries, Times
<1>2. /\ gone >= 0
      /\ \A i \in DOMAIN kept : kept[i] = all[i + gone]
      /\ \A i \in 1..gone : all[i] < e.retired_before
  BY DEF LedgerOK
<1>3. /\ Len(kept) \in Nat /\ Len(all) \in Nat /\ DOMAIN kept = 1..Len(kept)
      /\ DOMAIN all = 1..Len(all) /\ gone \in Nat /\ Len(all) = gone + Len(kept)
      /\ \A i \in DOMAIN all : all[i] \in Nat
  BY <1>1, <1>2, ConstantTypes, SMTT(30) DEF Times
<1> HIDE DEF kept, all, gone
<1>4. \A i \in A : i \in 1..Len(kept) /\ i + gone \in B
  BY <1>2, <1>3
<1>5. \A j \in B : j \in 1..Len(all) /\ j - gone \in A /\ (j - gone) + gone = j
  <2> SUFFICES ASSUME NEW j \in B
               PROVE  j \in 1..Len(all) /\ j - gone \in A /\ (j - gone) + gone = j
    OBVIOUS
  <2>1. j \in 1..Len(all) /\ all[j] >= start /\ all[j] < end /\ all[j] \in Nat
    BY <1>3
  <2>2. j > gone
    <3>1. SUFFICES ASSUME j <= gone PROVE FALSE
      BY <1>3, <2>1, SMTT(30)
    <3>2. all[j] < e.retired_before
      BY <1>2, <1>3, <2>1, <3>1
    <3> QED
      BY <1>1, <2>1, <3>2, ConstantTypes
  <2>3. j - gone \in 1..Len(kept) /\ (j - gone) + gone = j
    BY <1>3, <2>1, <2>2, SMTT(30)
  <2>4. kept[j - gone] = all[j]
    BY <1>2, <1>3, <2>3
  <2> QED
    BY <1>3, <2>1, <2>3, <2>4, SMTT(30)
<1> HIDE DEF A, B
<1>6. f \in Bijection(A, B)
  <2>1. f \in Injection(A, B)
    BY <1>3, <1>4 DEF Injection, IsInjective
  <2>2. f \in Surjection(A, B)
    BY <1>4, <1>5 DEF Surjection
  <2> QED
    BY <2>1, <2>2 DEF Bijection
<1>7. IsFiniteSet(A)
  <2>1. IsFiniteSet(1..Len(kept))
    BY <1>3, FS_Interval
  <2> QED
    BY <1>4, <2>1, FS_Subset
<1>8. Cardinality(A) = Cardinality(B)
  BY <1>6, <1>7, FS_Bijection DEF ExistsBijection
<1> QED
  BY <1>8 DEF CountIn, A, B, kept, all

LEMMA InvariantSuffices ==
    ASSUME SupervisorInv
    PROVE  SupervisorTypeOK /\ SupervisorConsistent
<1>1. TierAccounting
  BY SMTT(30) DEF SupervisorInv, TierInv, TierAccounting, TierUse
<1>2. RetryBudget
  BY SMTT(30) DEF SupervisorInv, EntryInv, HealthOK, RetryBudget
<1>3. OverflowPublishedWhole
  BY SMTT(30) DEF SupervisorInv, EntryInv, HealthOK, OverflowPublishedWhole
<1>4. QualityLineage
  BY SMTT(30) DEF SupervisorInv, LineageInv, QualityLineage
<1>5. LineageReachesTracker
  <2>1. \A e, admission, tracker : Position(e, admission, tracker) => AtEvent(e, admission, tracker)
    BY SMTT(30) DEF Position, AtEvent
  <2> QED
    BY <2>1, Zenon DEF SupervisorInv, LineageInv, Placed, LineageReachesTracker
<1>6. ReceiptComplete
  <2> SUFFICES ASSUME NEW s \in Admitted, NEW start \in Times, NEW end \in Times, NEW known \in Times,
                      issue_operational_quality_receipt(sources[s], start, end, known)
               PROVE  CountIn(sources[s].operational_events, start, end)
                        = CountIn(sources[s].recorded, start, end)
    BY DEF ReceiptComplete
  <2>1. sources[s] \in Entries /\ LedgerOK(sources[s])
    BY SMTT(30) DEF SupervisorInv, Types, EntryInv
  <2>2. start >= sources[s].retired_before
    BY SMTT(30) DEF issue_operational_quality_receipt
  <2> QED
    BY <2>1, <2>2, ReceiptCounts, SMTT(30)
<1>7. SupervisorTypeOK
  <2>1. \A s \in Admitted : /\ sources[s] \in Entries /\ HealthOK(sources[s])
                            /\ Len(sources[s].operational_events) <= LedgerCapacity
    BY SMTT(30) DEF SupervisorInv, Types, Capacities, EntryInv
  <2>2. \A s \in Admitted :
           /\ sources[s].policy \in Policies
           /\ sources[s].epoch \in 1..MaxEpoch
           /\ sources[s].quality.connection_epoch = sources[s].epoch
           /\ sources[s].quality.next_sequence \in 1..MaxSequence
           /\ sources[s].next_command_id \in 1..MaxCommandId
    BY <2>1 DEF Entries, Trackers, HealthOK
  <2> QED
    BY <2>1, <2>2 DEF SupervisorInv, Types, Capacities, SupervisorTypeOK
<1> QED
  BY <1>1, <1>2, <1>3, <1>4, <1>5, <1>6, <1>7, SMTT(30) DEF SupervisorConsistent

-----------------------------------------------------------------------------
(* No call of CollectorSupervisor leaves SupervisorInv, whatever the caller's times, the number of
   sources and the limits: the strengthening that SupervisorConsistent is proved from. *)
THEOREM SupervisorInvariant == Spec => []SupervisorInv
<1>1. Init => SupervisorInv
  BY SupervisorStarts
<1>2. SupervisorInv /\ [Next]_supervisorVars => SupervisorInv'
  BY SupervisorStep
<1> QED
  BY <1>1, <1>2, PTL DEF Spec

(* The supervisor's books agree at every rest: tier budgets, retry budgets and health, overflows
   published whole, one lineage of quality events per source up to its tracker, and receipts that
   count every event of their window. *)
THEOREM SupervisorBooksAgree == Spec => []SupervisorConsistent
<1>1. SupervisorInv => SupervisorConsistent
  BY InvariantSuffices
<1> QED
  BY <1>1, SupervisorInvariant, PTL

(* No call lets the quality queue, a ledger, the admitted sources or a counter grow past its
   limit. *)
THEOREM SupervisorWithinLimits == Spec => []SupervisorTypeOK
<1>1. SupervisorInv => SupervisorTypeOK
  BY InvariantSuffices
<1> QED
  BY <1>1, SupervisorInvariant, PTL
=============================================================================
