------------------------- MODULE InstrumentRegistry --------------------------
(* The instrument catalog of crates/instrument-registry: an append-only list   *)
(* of records (definitions and corrections), published in numbered batches,    *)
(* with the index of effective definitions the writer keeps beside it and the  *)
(* immutable snapshots readers resolve symbols with.                           *)
(*                                                                             *)
(* Data kept: an instrument's identity (a symbol key - venue, symbol and       *)
(* product - and a generation), its half-open listing interval, and one value  *)
(* for the economic fields a correction may not change.  A hash is the value   *)
(* it hashes; texts (source reference, reason) are left out.                   *)
EXTENDS Integers, Sequences, FiniteSets, SequencesExt

CONSTANTS
  Limits    \* RegistryLimits: [records, definitions, symbols, history, corrections, batch]

\* RegistryLimits::try_new
ASSUME LimitsAssumption ==
  /\ \A f \in DOMAIN Limits : Limits[f] \in Nat \ {0}
  /\ Limits.symbols <= Limits.definitions /\ Limits.history <= Limits.definitions
  /\ Limits.definitions <= Limits.records /\ Limits.corrections <= Limits.records
  /\ Limits.batch <= Limits.records

\* No delisting time: the instrument is listed for ever.
Never == 1000

\* The error of the first check, in the order the code makes them, that fails.
FirstError(checks) ==
  LET failed == {i \in DOMAIN checks : checks[i][1]}
  IN IF failed = {} THEN "Ok" ELSE checks[Min(failed)][2]

Id(d) == <<d.symbol, d.generation>>

NoRevision == 0

\* The registry before any record: no definition is in force.
NewRegistry == [records |-> <<>>, by_id |-> <<>>, last_known_at |-> -1]

current_revision(registry) ==
  IF registry.records = <<>> THEN NoRevision ELSE Last(registry.records).revision

listed_at(d, time) == d.listing <= time /\ time < d.delisting

intervals_overlapEnded(left, right) ==
  /\ right.delisting # Never /\ left.listing < right.delisting
  /\ left.delisting # Never /\ right.listing < left.delisting

intervals_overlap(left, right) ==
  left.listing < right.delisting /\ right.listing < left.delisting

\* By listing time, then by generation.
DefinitionBefore(left, right) ==
  \/ left.listing < right.listing
  \/ left.listing = right.listing /\ left.generation < right.generation

same_economic_identity(left, right) == Id(left) = Id(right) /\ left.economics = right.economics

\* The generations of a symbol key in listing order.
OfSymbol(definitions, symbol) ==
  SetToSortSeq({d \in definitions : d.symbol = symbol}, DefinitionBefore)

Adjacent(s) == {<<s[i], s[i + 1]>> : i \in 1 .. Len(s) - 1}

InForce(by_id) == {by_id[id].definition : id \in DOMAIN by_id}

SymbolsOf(definitions) == {d.symbol : d \in definitions}

validate_symbol(definitions, symbol) ==
  LET pairs == Adjacent(OfSymbol(definitions, symbol))
  IN FirstError(<< <<\E p \in pairs : p[1].generation >= p[2].generation, "GenerationNotIncreasing">>,
                   <<\E p \in pairs : intervals_overlap(p[1], p[2]), "OverlappingListing">> >>)

-----------------------------------------------------------------------------
(* Snapshots                                                                  *)

\* The record in force for each identity: the last one.
Effective(records) ==
  [id \in {Id(records[i].definition) : i \in 1 .. Len(records)} |->
     LET last == SelectLastInSeq(records, LAMBDA r : Id(r.definition) = id)
     IN [definition |-> records[last].definition, revision |-> records[last].revision]]

NoSnapshot == [revision |-> NoRevision, as_known_at |-> -1, records |-> <<>>, entries |-> <<>>]

\* A snapshot is pinned to a revision and to the time up to which it knows.
build_snapshot(records, as_known_at) ==
  LET entries == Effective(records)
      pairs(symbol) == Adjacent(OfSymbol(InForce(entries), symbol))
      error == FirstError(<< <<records = <<>>, "CatalogEmpty">>,
                             <<\E symbol \in SymbolsOf(InForce(entries)) : \E p \in pairs(symbol) :
                                 intervals_overlap(p[1], p[2]), "AmbiguousHistory">> >>)
  IN [error |-> error,
      snapshot |-> IF error # "Ok" THEN NoSnapshot
                   ELSE [revision |-> Last(records).revision, as_known_at |-> as_known_at,
                         records |-> records, entries |-> entries]]

snapshot(registry) == build_snapshot(registry.records, registry.last_known_at)

\* take_while: the prefix of the records known by then.
KnownBy(records, time) ==
  LET later == SelectInSeq(records, LAMBDA r : r.known_at > time)
  IN IF later = 0 THEN records ELSE SubSeq(records, 1, later - 1)

snapshot_as_known_at(registry, time) == build_snapshot(KnownBy(registry.records, time), time)

UpTo(records, revision) ==
  LET later == SelectInSeq(records, LAMBDA r : r.revision > revision)
  IN IF later = 0 THEN records ELSE SubSeq(records, 1, later - 1)

snapshot_at_revision(registry, revision) ==
  LET records == UpTo(registry.records, revision)
  IN IF revision > current_revision(registry)
     THEN [error |-> "CatalogRevisionUnavailable", snapshot |-> NoSnapshot]
     ELSE build_snapshot(records, Last(records).known_at)

\* What the catalog digest and the history digest of a snapshot bind.
snapshot_digests(snap) ==
  [catalog |-> <<snap.revision, snap.as_known_at, InForce(snap.entries)>>,
   history |-> <<snap.revision, snap.as_known_at, snap.records>>]

\* Resolution of an identity, and of a symbol key, at an event time.
resolve_id(snap, id, time) ==
  FirstError(<< <<id \notin DOMAIN snap.entries, "UnknownInstrument">>,
                <<id \in DOMAIN snap.entries /\ ~listed_at(snap.entries[id].definition, time),
                  "NotListedAtTime">> >>)


resolve_for_product(snap, symbol, time) ==
  LET known  == {d \in InForce(snap.entries) : d.symbol = symbol}
      listed == {d \in known : listed_at(d, time)}
  IN [error |-> FirstError(<< <<known = {}, "UnknownSymbol">>, <<listed = {}, "NotListedAtTime">>,
                              <<Cardinality(listed) > 1, "AmbiguousHistory">> >>),
      matches |-> listed]

-----------------------------------------------------------------------------
(* Batches.  A batch is applied to a copy: a fold over its mutations with the  *)
(* copied index, the records staged, the batch's known-at time and the number  *)
(* of mutations already in the catalog; the first error ends it.               *)

StartBatch(registry) ==
  [by_id |-> registry.by_id, staged |-> <<>>, known_at |-> -1, idempotent |-> 0, error |-> "Ok"]

validate_batch_timeUnordered(registry, batch, time) ==
  FirstError(<< <<batch.known_at \notin {-1, time}, "BatchKnownAtMismatch">> >>)

validate_batch_time(registry, batch, time) ==
  FirstError(<< <<time < registry.last_known_at, "RecordTimeRegression">>,
                <<batch.known_at \notin {-1, time}, "BatchKnownAtMismatch">> >>)

Full(registry, batch) == Len(registry.records) + Len(batch.staged) >= Limits.records

\* A record is staged at the batch's revision and put in force in the copied index.
Stage(registry, batch, m, definition, correction_count) ==
  LET revision == current_revision(registry) + 1
      entry == [definition |-> definition, revision |-> revision,
                correction_count |-> correction_count]
  IN [batch EXCEPT
        !.by_id = [id \in DOMAIN @ \cup {Id(definition)} |->
                     IF id = Id(definition) THEN entry ELSE @[id]],
        !.staged = Append(@, [kind |-> m.kind, definition |-> definition, revision |-> revision,
                              known_at |-> m.known_at, supersedes |-> m.supersedes,
                              prior |-> m.prior]),
        !.known_at = m.known_at]

DefinitionError(registry, batch, m) ==
  LET d       == m.definition
      known   == Id(d) \in DOMAIN batch.by_id
      current == batch.by_id[Id(d)].definition
      time    == validate_batch_time(registry, batch, m.known_at)
      symbols == SymbolsOf(InForce(batch.by_id))
      history == {e \in InForce(batch.by_id) : e.symbol = d.symbol}
  IN FirstError(<<
       <<known /\ (current.listing # d.listing \/ current.delisting # d.delisting),
         "GenerationNotIncreasing">>,
       <<known, "GenerationConflict">>,
       <<Full(registry, batch), "RecordCapacityExceeded">>,
       <<time # "Ok", time>>,
       <<Cardinality(DOMAIN batch.by_id) >= Limits.definitions, "DefinitionCapacityExceeded">>,
       <<history = {} /\ Cardinality(symbols) >= Limits.symbols, "SymbolCapacityExceeded">>,
       <<history # {} /\ Cardinality(history) >= Limits.history, "HistoryCapacityExceeded">> >>)

existing_definition(batch, m) == m.definition \in InForce(batch.by_id)

existing_correction(records, m) ==
  \E i \in 1 .. Len(records) :
    LET r == records[i]
    IN r.kind = "correction" /\ r.supersedes = m.supersedes /\ r.prior = m.prior
       /\ r.definition = m.definition /\ r.known_at = m.known_at

CorrectionError(registry, batch, m) ==
  LET target == \E i \in 1 .. Len(registry.records \o batch.staged) :
                  LET r == (registry.records \o batch.staged)[i]
                  IN r.revision = m.supersedes /\ r.definition = m.prior
      known   == Id(m.definition) \in DOMAIN batch.by_id
      current == batch.by_id[Id(m.definition)]
      time == validate_batch_time(registry, batch, m.known_at)
  IN FirstError(<<
       <<~known /\ target, "CorrectionIdentityMismatch">>,
       <<~known, "UnknownCorrectionTarget">>,
       <<known /\ current.revision # m.supersedes, "StaleCorrection">>,
       <<known /\ current.definition # m.prior, "CorrectionHashMismatch">>,
       <<known /\ current.definition = m.definition, "NoOpCorrection">>,
       <<known /\ ~same_economic_identity(current.definition, m.definition),
         "CorrectionRequiresNewGeneration">>,
       <<Full(registry, batch), "RecordCapacityExceeded">>,
       <<time # "Ok", time>>,
       <<known /\ current.correction_count >= Limits.corrections, "CorrectionCapacityExceeded">> >>)

\* One mutation: already in the catalog, refused, or staged.
ApplyMutation(registry, batch, m) ==
  LET present == IF m.kind = "definition" THEN existing_definition(batch, m)
                 ELSE existing_correction(registry.records \o batch.staged, m)
      error == IF m.kind = "definition" THEN DefinitionError(registry, batch, m)
               ELSE CorrectionError(registry, batch, m)
      count == IF m.kind = "definition" THEN 0
               ELSE batch.by_id[Id(m.definition)].correction_count + 1
  IN IF batch.error # "Ok" THEN batch
     ELSE IF present THEN [batch EXCEPT !.idempotent = @ + 1]
     ELSE IF error # "Ok" THEN [batch EXCEPT !.error = error]
     ELSE Stage(registry, batch, m, m.definition, count)

\* The whole index and the snapshot to be published are checked before anything changes.
PublicationError(registry, batch) ==
  LET definitions == InForce(batch.by_id)
      symbols == SetToSortSeq(SymbolsOf(definitions), <)
      error(i) == validate_symbol(definitions, symbols[i])
      proposed == build_snapshot(registry.records \o batch.staged, batch.known_at)
  IN FirstError(<< <<batch.error # "Ok", batch.error>> >>
                \o [i \in DOMAIN symbols |-> <<error(i) # "Ok", error(i)>>]
                \o << <<batch.staged # <<>> /\ proposed.error # "Ok", "OverlappingListing">> >>)

AdmissionError(registry, expected, mutations) ==
  FirstError(<< <<expected # current_revision(registry), "RevisionConflict">>,
                <<mutations = <<>>, "EmptyBatch">>,
                <<Len(mutations) > Limits.batch, "BatchCapacityExceeded">> >>)

\* The batch is published whole, or the registry is as it was.
publish_batch(registry, batch, error) ==
  IF error # "Ok"
  THEN [error |-> error, registry |-> registry, appended |-> 0, idempotent |-> 0]
  ELSE [error |-> "Ok",
        registry |-> [records |-> registry.records \o batch.staged,
                      by_id |-> batch.by_id,
                      last_known_at |-> IF batch.known_at = -1 THEN registry.last_known_at
                                                              ELSE batch.known_at],
        appended |-> Len(batch.staged),
        idempotent |-> batch.idempotent]

finish_batch(registry, admission, batch) ==
  publish_batch(registry, batch, IF admission # "Ok" THEN admission ELSE PublicationError(registry, batch))

\* append_batch: the registry after it, its outcome and its error.
append_batch(registry, expected, mutations) ==
  finish_batch(registry, AdmissionError(registry, expected, mutations),
               FoldLeft(LAMBDA b, m : ApplyMutation(registry, b, m), StartBatch(registry), mutations))

-----------------------------------------------------------------------------
(* The catalog's writer on its own: any batch against any revision, and the    *)
(* snapshot each publication handed to readers.                                *)

CONSTANTS
  CatalogBatches,   \* batches offered: sequences of mutations
  EventTimes        \* times a reader asks about

VARIABLES
  catalog,    \* the registry
  published   \* the snapshot published at each revision

icVars == <<catalog, published>>

IcInit == catalog = NewRegistry /\ published = <<>>

append(expected, mutations) ==
  \E outcome \in {append_batch(catalog, expected, mutations)} :
    /\ outcome.error = "Ok"
    /\ catalog' = outcome.registry
    /\ published' = IF outcome.appended = 0 THEN published
                    ELSE Append(published, snapshot(outcome.registry).snapshot)

\* Refused batches change nothing; they are the stuttering steps.
IcNext == \E expected \in {current_revision(catalog), 1}, mutations \in CatalogBatches :
            append(expected, mutations)

\* What a reader was given stays true: the snapshot of a revision is the one published then, and the
\* snapshot as known at a time is the last one published by that time, whatever is appended later.
PastSnapshotsFixed ==
  /\ \A r \in DOMAIN published : snapshot_at_revision(catalog, r) = [error |-> "Ok", snapshot |-> published[r]]
  /\ \A time \in EventTimes :
       LET by == {r \in DOMAIN published : published[r].as_known_at <= time}
       IN by # {} => snapshot_as_known_at(catalog, time).snapshot
                       = [published[Max(by)] EXCEPT !.as_known_at = time]

\* A symbol never resolves to two generations at one time, later listings carry later generations,
\* and the index the writer keeps is the one its records rebuild.
ResolutionUnambiguous ==
  /\ \A r \in DOMAIN published : \A symbol \in SymbolsOf(InForce(published[r].entries)) :
       /\ \A time \in EventTimes :
            LET found == resolve_for_product(published[r], symbol, time)
            IN /\ found.error # "AmbiguousHistory"
               /\ \A d \in found.matches : resolve_id(published[r], Id(d), time) = "Ok"
       /\ \A d, e \in {d \in InForce(published[r].entries) : d.symbol = symbol} :
            d.listing < e.listing => d.generation < e.generation
  /\ [id \in DOMAIN catalog.by_id |-> catalog.by_id[id].definition]
       = [id \in DOMAIN Effective(catalog.records) |-> Effective(catalog.records)[id].definition]

\* A reader of the catalog is never contradicted: not by a later append, not by a second answer.
RegistryExact == PastSnapshotsFixed /\ ResolutionUnambiguous
=============================================================================
