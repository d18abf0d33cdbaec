---------------------------- MODULE PointInTime ----------------------------
(***************************************************************************)
(* crates/feature-engine/src/materialize.rs and lineage.rs: sealing feature *)
(* observations as immutable dataset versions, correcting a sealed version, *)
(* and the view of the rows known at a prediction time.                     *)
(* A row is the observation it was made from with its WAL sequence: text    *)
(* encodings are one-to-one and left out, a value that JSON or a NULL       *)
(* column would lose is a missing datum, which has no float bits.           *)
(***************************************************************************)
EXTENDS FeatureRegistry

CONSTANTS
  MaxRows,          \* MAXIMUM_FEATURE_ROWS
  MaxInputEvents,   \* MAX_INPUT_EVENT_HASHES
  PartitionHour     \* nanoseconds of a partition: one UTC hour

-----------------------------------------------------------------------------
(* FeatureLineage                                                              *)

\* FeatureLineage::try_new; inputs is the sequence of input event hashes.
LineageError(version, inputs) ==
  IF ~ReleaseVersion(version) \/ inputs = <<>> \/ Len(inputs) > MaxInputEvents
  THEN "InvalidInput"
  ELSE IF HasDuplicates(inputs) THEN "DuplicateInputEvent" ELSE "Ok"

\* digest: the sorted hashes are their set.
LineageDigest(id, version, formula, inputs, coverage) ==
  <<id, version, formula, ToSet(inputs), coverage>>

-----------------------------------------------------------------------------
(* MaterializedFeatureRow                                                      *)

valid_datum_encoding(row) ==
  IF row.datum.present THEN row.datum.type = row.value_type ELSE TRUE

\* MaterializedFeatureRow::validate
RowOk(row) ==
  /\ row.sequence > 0 /\ ReleaseVersion(row.version) /\ ReleaseVersion(row.normalization)
  /\ row.resolution > 0
  /\ row.start > 0 /\ row.start <= row.end /\ row.end <= row.as_known_at
  /\ row.as_known_at <= row.computed_at
  /\ row.finality_as_known_at > 0 /\ row.finality_as_known_at <= row.as_known_at
  /\ row.watermark # NoTime => row.watermark > 0 /\ row.watermark <= row.finality_as_known_at
  /\ row.finality \in {"Final", "Corrected"}
  /\ row.revision > 0 /\ (row.finality = "Corrected" => row.revision # 1)
  /\ row.quality <= MaxScore
  /\ valid_datum_encoding(row)

RowFor(o, sequence) ==
  [feature |-> o.id, version |-> o.version, entity |-> o.entity, window_id |-> o.window_id,
   start |-> o.start, end |-> o.end, as_known_at |-> o.as_known_at, computed_at |-> o.computed_at,
   watermark |-> o.watermark, finality_as_known_at |-> o.finality_as_known_at,
   finality |-> o.finality, revision |-> o.revision, resolution |-> o.resolution,
   datum |-> o.datum, value_type |-> o.value_type, quality |-> o.quality,
   normalization |-> o.normalization, lineage |-> o.lineage, sequence |-> sequence]

\* MaterializedFeatureRow::try_from_observation
try_from_observation(o, sequence) ==
  Checked(<< <<o.finality \notin {"Final", "Corrected"}, "UnfinalizedObservation">>,
             <<~RowOk(RowFor(o, sequence)), "InvalidRow">> >>, RowFor(o, sequence))

identity_key(row) ==
  <<row.feature, row.version, row.entity, row.window_id, row.start, row.end>>

\* MaterializationReport::try_new
ReportError(rows) ==
  FirstError(<<
    <<rows = <<>> \/ Len(rows) > MaxRows, "CapacityExceeded">>,
    <<\E i \in DOMAIN rows : ~RowOk(rows[i]), "InvalidRow">>,
    <<HasDuplicates([i \in DOMAIN rows |-> <<identity_key(rows[i]), rows[i].revision>>]),
      "DuplicateObservation">> >>)

\* The three digests of a report, over the rows in canonical order.
ReportDigests(rows) ==
  LET all == ToSet(rows)
  IN [fixed |-> {r \in all : r.value_type # "Float64"},
      lineage |-> {<<identity_key(r), r.revision, r.lineage>> : r \in all},
      finality |-> {<<identity_key(r), r.finality, r.revision, r.quality>> : r \in all}]

\* float_max_abs_error refuses reports whose float rows differ in identity or revision.
FloatShape(rows) ==
  {<<identity_key(r), r.revision>> : r \in {r \in ToSet(rows) : r.datum.present
                                                                /\ r.value_type = "Float64"}}
ParityError(left, right) ==
  IF FloatShape(left) # FloatShape(right) THEN "ParityShapeMismatch" ELSE "Ok"

-----------------------------------------------------------------------------
(* The point-in-time view                                                      *)

\* PointInTimeFeatureSet::try_new on a set of rows
HistoryOf(rows, key) == {r \in rows : identity_key(r) = key}

HistoryError(rows) ==
  LET Consecutive(history) ==
        /\ \A r \in history, s \in history : r.revision = s.revision => r = s
        /\ {r.revision : r \in history} = 1..Cardinality(history)
        /\ \A r, s \in history : s.revision = r.revision + 1 =>
             s.as_known_at >= r.as_known_at /\ s.finality = "Corrected"
  IN FirstError(<<
       <<rows = {} \/ Cardinality(rows) > MaxRows, "CapacityExceeded">>,
       <<\E r \in rows : ~RowOk(r), "InvalidRow">>,
       <<\E r \in rows : ~Consecutive(HistoryOf(rows, identity_key(r))),
         "InvalidCorrectionHistory">> >>)

\* Mutant: the time of computation is not compared.
KnowableUncomputed(row, time) ==
  row.as_known_at <= time /\ row.finality_as_known_at <= time

Knowable(row, time) ==
  /\ row.as_known_at <= time /\ row.computed_at <= time /\ row.finality_as_known_at <= time

\* as_known_at inserts the rows in revision order, so the last one that is knowable stays.
as_known_at(rows, time) ==
  LET known == {r \in rows : Knowable(r, time)}
  IN {r \in known : \A s \in HistoryOf(known, identity_key(r)) : s.revision <= r.revision}

\* What the SQL of PointInTimeTrainingPlan returns for one prediction of an entity: the join on
\* the four times, then the first row of each partition by revision descending.
training_plan(rows, entity, time) ==
  LET joined == {r \in rows : /\ r.entity = entity /\ r.end <= time /\ r.as_known_at <= time
                              /\ r.computed_at <= time /\ r.finality_as_known_at <= time}
      Partition(r) == {s \in joined : identity_key(s) = identity_key(r)}
  IN {r \in joined : r.revision = Max({s.revision : s \in Partition(r)})}

-----------------------------------------------------------------------------
(* Fixtures: [version, base, known_at, observations]; base 0 is no correction. *)
(* An observation is an observation record with its sequence.                  *)

FixtureOk(f) ==
  /\ f.observations # <<>> /\ Len(f.observations) <= MaxRows
  /\ IF f.base = 0 THEN f.version = 1 ELSE f.version = f.base + 1 /\ f.known_at > 0
  /\ {f.observations[i].sequence : i \in DOMAIN f.observations} = 1..Len(f.observations)

\* FixtureManifest::rows: the lineage, the observation and the row of each, in order.
fixture_rows(f) ==
  LET RowAt(o) ==
        IF LineageError(o.version, o.inputs) # "Ok" THEN Fail(LineageError(o.version, o.inputs))
        ELSE LET bound == [o EXCEPT !.lineage = LineageDigest(o.id, o.version, o.formula_hash,
                                                              o.inputs, o.coverage)]
             IN IF ObservationError(bound) # "Ok" THEN Fail(ObservationError(bound))
                ELSE try_from_observation(bound, o.sequence)
      all == [i \in DOMAIN f.observations |-> RowAt(f.observations[i])]
      bad == {i \in DOMAIN all : ~all[i].ok}
  IN IF bad = {} THEN Done([i \in DOMAIN all |-> all[i].value]) ELSE all[Min(bad)]

\* partition_key: all rows in the first row's hour.
partition_key(f, rows) ==
  LET HourOf(row) == row.end \div PartitionHour
  IN IF \E i \in DOMAIN rows : HourOf(rows[i]) # HourOf(rows[1])
     THEN Fail("PartitionMismatch") ELSE Done(<<f.version, HourOf(rows[1])>>)

\* The checks DatasetWriter::write_batch makes of the batch: the first and the last row carry the
\* lowest and the highest sequence.
BatchSequencesOk(rows) ==
  LET sequences == {rows[i].sequence : i \in DOMAIN rows}
  IN rows[1].sequence = Min(sequences) /\ Last(rows).sequence = Max(sequences)

\* A segment accepts strictly increasing record sequences.
WalSequencesOk(rows) == \A i \in 1..(Len(rows) - 1) : rows[i + 1].sequence > rows[i].sequence

\* wal_round_trip: the rows read back are the rows appended.
wal_round_trip(rows) == IF WalSequencesOk(rows) THEN Done(rows) ELSE Fail("WalRecovery")

\* parquet_round_trip: the partition is sealed, then read back and compared.  partitions maps a
\* key to [rows, base]; a manifest hash is the key, the rows and the base manifest's hash.
ManifestHash(partitions, key) == <<key, partitions[key]>>

ParquetError(partitions, key, rows) ==
  FirstError(<< <<~BatchSequencesOk(rows), "InvalidBatchIdentity">>,
                <<key \in DOMAIN partitions, "PartitionSealed">> >>)

SealPartition(partitions, key, rows, base) ==
  (key :> [rows |-> rows, base |-> base]) @@ partitions


CorrectedRow(base, row, known_at) ==
  /\ row.revision = base.revision + 1 /\ row.finality = "Corrected"
  /\ row.as_known_at >= base.as_known_at /\ row.as_known_at <= known_at
  /\ row.computed_at >= base.computed_at
  /\ row.finality_as_known_at >= base.finality_as_known_at

\* validate_correction_snapshot: the stable sort by identity pairs the rows of each identity in
\* their order.
SnapshotOk(base, rows, known_at) ==
  LET keys == {identity_key(r) : r \in ToSet(base) \cup ToSet(rows)}
      Of(s, key) == SelectSeq(s, LAMBDA r : identity_key(r) = key)
      Paired(key, i) == Of(base, key)[i] = Of(rows, key)[i]
  IN /\ base # <<>>
     /\ \A key \in keys : /\ Len(Of(base, key)) = Len(Of(rows, key))
                          /\ \A i \in DOMAIN Of(base, key) :
                               \/ Paired(key, i)
                               \/ CorrectedRow(Of(base, key)[i], Of(rows, key)[i], known_at)
     /\ \E key \in keys : \E i \in DOMAIN Of(base, key) : ~Paired(key, i)

-----------------------------------------------------------------------------
(* Materializer                                                                *)

VARIABLES
  partitions,       \* the sealed partitions of the feature dataset
  report            \* the result of the last call: Done(rows) or Fail(error)

storeVars == <<partitions, report>>

StoreInit == partitions = [k \in {} |-> 0] /\ report = Done(<<>>)

Refuse(error) == report' = Fail(error) /\ UNCHANGED partitions

\* MaterializationReport::try_new on what was read back.
Report(rows) == IF ReportError(rows) = "Ok" THEN Done(rows) ELSE Fail(ReportError(rows))

\* The partition stays sealed when the report over its rows is then refused.
Seal(key, rows, base) ==
  IF ParquetError(partitions, key, rows) # "Ok" THEN Refuse(ParquetError(partitions, key, rows))
  ELSE partitions' = SealPartition(partitions, key, rows, base) /\ report' = Report(rows)

\* Materializer::run_fixture
RunFixture(f, mode) ==
  LET rows == fixture_rows(f)
      key == partition_key(f, rows.value)
      replayed == wal_round_trip(rows.value)
  IN IF ~FixtureOk(f) THEN Refuse("InvalidManifest")
     ELSE IF f.base # 0 THEN Refuse("CorrectionAuthorityRequired")
     ELSE IF ~rows.ok THEN Refuse(rows.error)
     ELSE IF mode = "LiveSimulation" THEN report' = Report(rows.value) /\ UNCHANGED partitions
     ELSE IF mode = "WalReplay"
     THEN /\ report' = IF replayed.ok THEN Report(replayed.value) ELSE replayed
          /\ UNCHANGED partitions
     ELSE IF ~key.ok THEN Refuse(key.error)
     ELSE Seal(key.value, rows.value, "none")

\* Materializer::run_correction_fixture: base_hash is the manifest hash the caller was given.
RunCorrectionFixture(f, base_hash) ==
  LET rows == fixture_rows(f)
      key == partition_key(f, rows.value)
      base_key == <<f.base, key.value[2]>>
  IN IF ~FixtureOk(f) THEN Refuse("InvalidManifest")
     ELSE IF f.base = 0 THEN Refuse("CorrectionAuthorityRequired")
     ELSE IF ~rows.ok THEN Refuse(rows.error)
     ELSE IF ~key.ok THEN Refuse(key.error)
     ELSE IF base_key \notin DOMAIN partitions THEN Refuse("Store")
     ELSE IF \/ ManifestHash(partitions, base_key) # base_hash
             \/ ~SnapshotOk(partitions[base_key].rows, rows.value, f.known_at)
     THEN Refuse("InvalidCorrectionHistory")
     ELSE Seal(key.value, rows.value, base_hash)

\* Materializer::verify_fixture_dataset
VerifyFixtureDataset(f) ==
  LET rows == fixture_rows(f)
      key == partition_key(f, rows.value)
  IN IF ~FixtureOk(f) THEN Refuse("InvalidManifest")
     ELSE IF ~rows.ok THEN Refuse(rows.error)
     ELSE IF ~key.ok THEN Refuse(key.error)
     ELSE IF key.value \notin DOMAIN partitions THEN Refuse("Store")
     ELSE IF partitions[key.value].rows # rows.value THEN Refuse("Integrity")
     ELSE report' = Report(rows.value) /\ UNCHANGED partitions

-----------------------------------------------------------------------------
(* Properties                                                                  *)

Stored == UNION {ToSet(partitions[k].rows) : k \in DOMAIN partitions}

\* The two readers of the dataset agree at every prediction time: as_known_at, which filters and
\* keeps the last revision, and the SQL of PointInTimeTrainingPlan.  Neither shows a row whose
\* value, computation or finality came after the prediction, and a row once visible is later
\* replaced only by a higher revision.
PointInTimeAgrees ==
  LET times == {r.as_known_at : r \in Stored} \cup {r.computed_at : r \in Stored} \cup {0}
      View(t) == as_known_at(Stored, t)
  IN /\ \A t \in times, e \in {r.entity : r \in Stored} :
          {r \in View(t) : r.entity = e} = training_plan(Stored, e, t)
     /\ \A t \in times : \A r \in View(t) : r.computed_at <= t /\ r.as_known_at <= t
     /\ \A t, u \in times : t <= u => \A r \in View(t) : \E s \in View(u) :
          identity_key(s) = identity_key(r) /\ s.revision >= r.revision

\* run_correction_fixture checks a correction only against the version it corrects, and that is
\* enough: the rows of all the versions sealed so far always form a history that
\* PointInTimeFeatureSet accepts (first revision 1, consecutive, corrected, known in order).
CorrectionExtendsHistory ==
  Stored # {} /\ (\A k \in DOMAIN partitions : ReportError(partitions[k].rows) = "Ok") =>
    HistoryError(Stored) = "Ok"
=============================================================================
