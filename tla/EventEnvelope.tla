---------------------------- MODULE EventEnvelope ----------------------------
(***************************************************************************)
(* crates/event-envelope: validated market events and their canonical         *)
(* identity.  A text is a sequence of characters, a decimal an integer (its    *)
(* text is its digits), an Option<T> is <<>> or <<t>>, an enum a number and a  *)
(* payload a record with its kind.  The identity is the sequence of bytes that *)
(* is hashed; a fixed-width integer is one element of it.                      *)
(***************************************************************************)
EXTENDS Results, FiniteSets

CONSTANTS
  MaxText,          \* MAX_METADATA_TEXT and MAX_TEXT
  MaxLevels,        \* MAX_BOOK_LEVELS
  MaxCollection,    \* MAX_COLLECTION
  MaxWire,          \* MAX_EVENT_WIRE_BYTES
  MaxPpm,           \* MAX_QUALITY_SCORE_PPM
  UnitRate               \* the decimal 1 in the units of the model's rates

MaxPriority == 3
UnknownSide == 2    \* Side::Unknown
Recovered == 2      \* AlertStatus::Recovered
Exchange == 0       \* SourceKind::Exchange
Chain == 1          \* SourceKind::Chain
Spot == 0           \* ProductType::Spot

\* Characters are their codes.
Control == 10
Space == 32

valid_metadata_text(text) ==
  /\ text # <<>> /\ Len(text) <= MaxText
  /\ text[1] # Space /\ text[Len(text)] # Space
  /\ Control \notin Range(text)

\* Some(v) satisfies P: Option::is_some_and.
SomeAnd(option, P(_)) == option # <<>> /\ P(option[1])

-----------------------------------------------------------------------------
(* Validation                                                                  *)

\* UncheckedEventMetadata::validate
MetadataError(m) ==
  FirstError(<<
    <<m.schema_version \notin 1 .. 3, "schema_version">>,
    <<m.schema_version < 3 /\ SomeAnd(m.instrument, LAMBDA i : i.product_type # Spot),
      "instrument product identity schema">>,
    <<m.connection_epoch = 0, "connection_epoch">>,
    <<m.subscription_epoch = 0, "subscription_epoch">>,
    <<m.receive_wall < m.connection_started, "receive_wall_timestamp">>,
    <<m.normalization < m.receive_wall, "normalization_timestamp">>,
    <<\/ SomeAnd(m.previous, LAMBDA p : SomeAnd(m.sequence, LAMBDA s : p >= s))
      \/ m.previous # <<>> /\ m.sequence = <<>>, "sequence_number">>,
    <<m.raw_payload_hash = 0, "raw_payload_hash">>,
    <<~valid_metadata_text(m.parser_version), "parser_version">>,
    <<~valid_metadata_text(m.normalizer_version), "normalizer_version">>,
    <<~valid_metadata_text(m.ingestion_instance), "ingestion_instance">>,
    <<SomeAnd(m.source_checksum, LAMBDA c : ~valid_metadata_text(c)), "source_checksum">>,
    <<m.quality_score > MaxPpm, "quality_score_ppm">>,
    <<m.source.kind = Exchange /\ m.venue = <<>>, "venue">>,
    <<SomeAnd(m.instrument, LAMBDA i : m.venue # <<i.venue>>), "instrument_id">> >>)

\* validate_book
BookError(bids, asks, allow_zero_quantity, enforce_uncrossed) ==
  FirstError(<<
    <<Len(bids) + Len(asks) > MaxLevels, "book level capacity">>,
    <<~allow_zero_quantity /\ \E l \in Range(bids) \cup Range(asks) : l.quantity = 0,
      "zero snapshot quantity">>,
    <<\/ \E i \in 1 .. Len(bids) - 1 : bids[i].price <= bids[i + 1].price
      \/ \E i \in 1 .. Len(asks) - 1 : asks[i].price >= asks[i + 1].price, "book ordering">>,
    <</\ enforce_uncrossed /\ bids # <<>> /\ asks # <<>>
      /\ bids[1].price >= asks[1].price, "crossed book">> >>)

\* The predecessor a delta names: exactly the previous sequence in the first schema.
ValidPredecessor(m, first_sequence) ==
  IF m.schema_version = 1
  THEN m.previous = (IF first_sequence = 0 THEN <<>> ELSE <<first_sequence - 1>>)
  ELSE IF m.previous = <<>> THEN first_sequence = 0 ELSE m.previous[1] < first_sequence

validate_score(value) == value <= MaxPpm
Text(text) == valid_metadata_text(text)
OptionalText(option) == \A text \in Range(option) : Text(text)
validate_unit_rate(rate) == rate \in -UnitRate .. UnitRate

TopOfBookOk(p) ==
  /\ p.bid # <<>> \/ p.ask # <<>>
  /\ ~SomeAnd(p.bid, LAMBDA b : SomeAnd(p.ask, LAMBDA a : b.price >= a.price))
  /\ \A l \in Range(p.bid) \cup Range(p.ask) : l.quantity # 0

OptionTickerOk(p) ==
  /\ ~SomeAnd(p.bid_price, LAMBDA b : SomeAnd(p.ask_price, LAMBDA a : b > a))
  /\ p.mark_iv >= 0 /\ validate_unit_rate(p.delta)

StructuredEventOk(p) ==
  /\ \A text \in {p.structured_event_id, p.event_type, p.extractor_model_id, p.extractor_prompt_version} :
       Text(text)
  /\ \A score \in {p.source_reliability_ppm, p.severity_ppm, p.extraction_confidence_ppm} :
       validate_score(score)
  /\ validate_unit_rate(p.direction_prior)
  /\ p.source_document_hash # 0
  /\ \A length \in {Len(p.affected_assets), Len(p.affected_venues), Len(p.affected_protocols),
                    Len(p.extracted_facts)} : length <= MaxCollection
  /\ ~SomeAnd(p.effective_time, LAMBDA from : SomeAnd(p.expected_end_time, LAMBDA to : to <= from))
  /\ \A protocol \in Range(p.affected_protocols) : Text(protocol)
  /\ \A fact \in Range(p.extracted_facts) : Text(fact.key) /\ Text(fact.value)

PredictionOk(p) ==
  /\ \A text \in {p.forecast_id, p.entity_id, p.model_package_id, p.prediction_event_type,
                  p.scenario_summary_id, p.evidence_bundle_id} : Text(text)
  /\ OptionalText(p.supersedes_forecast_id)
  /\ \A score \in {p.calibrated_probability_ppm, p.base_rate_ppm, p.lower_uncertainty_ppm,
                   p.upper_uncertainty_ppm, p.quality_score_ppm, p.applicability_score_ppm} :
       validate_score(score)
  /\ p.forecast_schema_version # 0 /\ p.horizon_seconds # 0
  /\ p.lower_uncertainty_ppm <= p.calibrated_probability_ppm
  /\ p.calibrated_probability_ppm <= p.upper_uncertainty_ppm

AlertOk(p) ==
  /\ Text(p.alert_id) /\ Text(p.rule_id) /\ Text(p.message) /\ OptionalText(p.forecast_id)
  /\ p.priority <= MaxPriority
  /\ (p.status = Recovered) <=> (p.recovered_at # <<>>)
  /\ ~SomeAnd(p.recovered_at, LAMBDA at : at < p.triggered_at)

FundingOk(p) == ~SomeAnd(p.next_funding_time, LAMBDA next : next <= p.observed_at)
LiquidationOk(p) == Text(p.liquidation_id) /\ p.quantity # 0 /\ p.side # UnknownSide
OptionTradeOk(p) ==
  Text(p.trade_id) /\ p.quantity # 0 /\ ~SomeAnd(p.implied_volatility, LAMBDA v : v < 0)
VenueStatusOk(p) == OptionalText(p.message)
ChainBlockOk(p) == Text(p.block_hash) /\ OptionalText(p.parent_hash)
validate_interval(start, end) == start < end
AggregateOk(p) == validate_interval(p.interval_start, p.interval_end)
ChainMetricOk(p) == Text(p.metric_name)
ExternalMarketOk(p) == Text(p.market_id) /\ OptionalText(p.source_native_id)
DataQualityOk(p) == Text(p.component) /\ validate_score(p.score_ppm) /\ OptionalText(p.details)
TradeOk(p) == valid_metadata_text(p.trade_id) /\ p.quantity # 0

\* The payload's own validation in the match of UncheckedEventPayload::validate.
PayloadOk(p) ==
  CASE p.kind = "Trade" -> TradeOk(p)
    [] p.kind = "TopOfBook" -> TopOfBookOk(p)
    [] p.kind = "FundingObservation" -> FundingOk(p)
    [] p.kind = "LiquidationObservation" -> LiquidationOk(p)
    [] p.kind = "OptionTicker" -> OptionTickerOk(p)
    [] p.kind = "OptionTrade" -> OptionTradeOk(p)
    [] p.kind = "VenueStatus" -> VenueStatusOk(p)
    [] p.kind = "ChainBlock" -> ChainBlockOk(p)
    [] p.kind = "ChainTransactionAggregate" -> AggregateOk(p)
    [] p.kind = "ChainMetric" -> ChainMetricOk(p)
    [] p.kind = "ExternalMarketObservation" -> ExternalMarketOk(p)
    [] p.kind = "StructuredEvent" -> StructuredEventOk(p)
    [] p.kind = "DataQualityObservation" -> DataQualityOk(p)
    [] p.kind = "PredictionRecord" -> PredictionOk(p)
    [] p.kind = "AlertEvent" -> AlertOk(p)
    [] OTHER -> TRUE

requires_instrument(kind) ==
  kind \in {"Trade", "TopOfBook", "BookSnapshot", "BookDelta", "InstrumentDefinition",
            "FundingObservation", "OpenInterestObservation", "LiquidationObservation",
            "MarkIndexObservation", "FutureBasisObservation", "OptionTicker", "OptionTrade"}

ChainKinds == {"ChainBlock", "ChainTransactionAggregate", "ChainMempoolObservation", "ChainMetric"}

\* InstrumentDefinition::id
InstrumentOf(d) == [venue |-> d.id.venue, venue_symbol |-> d.id.venue_symbol,
                    product_type |-> d.product_type, generation |-> d.id.generation]

\* UncheckedEventPayload::validate
EventError(m, p) ==
  IF MetadataError(m) # "Ok" THEN MetadataError(m)
  ELSE IF requires_instrument(p.kind) /\ (m.venue = <<>> \/ m.instrument = <<>>)
  THEN "instrument identity"
  ELSE CASE p.kind = "BookSnapshot" ->
              IF BookError(p.bids, p.asks, FALSE, TRUE) # "Ok" THEN BookError(p.bids, p.asks, FALSE, TRUE)
              ELSE IF m.snapshot_kind # "Snapshot" \/ m.sequence # <<p.last_sequence>>
              THEN "SequenceMismatch" ELSE "Ok"
         [] p.kind = "BookDelta" ->
              IF BookError(p.bids, p.asks, TRUE, FALSE) # "Ok" THEN BookError(p.bids, p.asks, TRUE, FALSE)
              ELSE IF \/ p.first_sequence > p.last_sequence \/ m.snapshot_kind # "Delta"
                      \/ m.sequence # <<p.last_sequence>> \/ ~ValidPredecessor(m, p.first_sequence)
              THEN "SequenceMismatch" ELSE "Ok"
         [] OTHER ->
              FirstError(<<
                <<p.kind # "ChainMetric" /\ ~PayloadOk(p), "payload">>,
                <<m.snapshot_kind # "NotApplicable", "snapshot_kind">>,
                <<p.kind \in ChainKinds /\ m.source.kind # Chain, "source kind">>,
                <<p.kind = "VenueStatus" /\ m.venue = <<>>, "venue">>,
                <<p.kind = "InstrumentDefinition" /\ m.instrument # <<InstrumentOf(p.definition)>>,
                  "instrument definition">>,
                <<p.kind = "StructuredEvent" /\ m.source # p.source_identity, "structured event source">>,
                <<~PayloadOk(p), "payload">> >>)

-----------------------------------------------------------------------------
(* The canonical encoding: a layout is a sequence of <<field, type>>, a type    *)
(* is <<"fixed">>, <<"text">>, <<"optional", t>>, <<"sequence", t>> or          *)
(* <<"record", layout>>.                                                        *)

Fixed == <<"fixed">>
TextType == <<"text">>
Decimal == <<"decimal">>
Optional(type) == <<"optional", type>>
SequenceOf(type) == <<"sequence", type>>
RecordOf(layout) == <<"record", layout>>

\* FixedDecimal's text: the digits, after -1 for the minus sign.
Digits[n \in Nat] == IF n < 10 THEN <<n>> ELSE Append(Digits[n \div 10], n % 10)
DecimalText(v) == IF v < 0 THEN <<-1>> \o Digits[-v] ELSE Digits[v]

\* Mutant: an absent value writes nothing.
EncodeOptionalBare(option, encoded) == IF option = <<>> THEN <<>> ELSE encoded

EncodeOptional(option, encoded) == IF option = <<>> THEN <<0>> ELSE <<1>> \o encoded

\* CanonicalWriter
RECURSIVE Encode(_, _)
Encode(type, v) ==
  CASE type[1] = "fixed" -> <<v>>
    [] type[1] = "text" -> <<Len(v)>> \o v
    [] type[1] = "decimal" -> <<Len(DecimalText(v))>> \o DecimalText(v)
    [] type[1] = "optional" -> EncodeOptional(v, Encode(type[2], v[1]))
    [] type[1] = "sequence" -> <<Len(v)>> \o FlattenSeq([i \in DOMAIN v |-> Encode(type[2], v[i])])
    [] type[1] = "record" ->
         FlattenSeq([i \in DOMAIN type[2] |-> Encode(type[2][i][2], v[type[2][i][1]])])

Level == RecordOf(<< <<"price", Decimal>>, <<"quantity", Decimal>>, <<"order_count", Optional(Fixed)>> >>)
SourceType == RecordOf(<< <<"kind", Fixed>>, <<"name", TextType>>, <<"generation", Fixed>> >>)
AssetType == RecordOf(<< <<"namespace", Fixed>>, <<"chain_id", TextType>>, <<"contract_or_mint", TextType>>,
                         <<"canonical_symbol", TextType>>, <<"generation", Fixed>> >>)

\* instrument_definition
DefinitionLayout ==
  << <<"id", RecordOf(<< <<"venue", TextType>>, <<"venue_symbol", TextType>>, <<"generation", Fixed>> >>)>>,
     <<"product_type", Fixed>>, <<"base_asset", AssetType>>, <<"quote_asset", AssetType>>,
     <<"settlement_asset", AssetType>>, <<"contract_multiplier", Decimal>>,
     <<"contract_value_unit", Fixed>>, <<"contract_kind", Fixed>>, <<"expiry_time", Optional(Fixed)>>,
     <<"strike", Optional(Decimal)>>, <<"option_side", Optional(Fixed)>>, <<"price_tick", Decimal>>,
     <<"quantity_step", Decimal>>, <<"listing_time", Fixed>>, <<"delisting_time", Optional(Fixed)>> >>

\* encode_payload, the market records: the tag, then the fields in order.
MarketLayouts == [
  Trade |-> <<0, << <<"trade_id", TextType>>, <<"price", Decimal>>, <<"quantity", Decimal>>,
                    <<"side", Fixed>> >> >>,
  TopOfBook |-> <<1, << <<"bid", Optional(Level)>>, <<"ask", Optional(Level)>> >> >>,
  BookSnapshot |-> <<2, << <<"bids", SequenceOf(Level)>>, <<"asks", SequenceOf(Level)>>,
                           <<"last_sequence", Fixed>> >> >>,
  BookDelta |-> <<3, << <<"bids", SequenceOf(Level)>>, <<"asks", SequenceOf(Level)>>,
                        <<"first_sequence", Fixed>>, <<"last_sequence", Fixed>> >> >>,
  InstrumentDefinition |-> <<4, << <<"definition", RecordOf(DefinitionLayout)>> >> >>,
  FundingObservation |-> <<5, << <<"funding_rate", Decimal>>, <<"observed_at", Fixed>>,
                                 <<"next_funding_time", Optional(Fixed)>> >> >>,
  OpenInterestObservation |-> <<6, << <<"quantity", Decimal>>, <<"quote_notional", Optional(Decimal)>>,
                                      <<"observed_at", Fixed>> >> >>,
  LiquidationObservation |-> <<7, << <<"liquidation_id", TextType>>, <<"price", Decimal>>,
                                     <<"quantity", Decimal>>, <<"side", Fixed>> >> >>,
  MarkIndexObservation |-> <<8, << <<"mark_price", Decimal>>, <<"index_price", Decimal>> >> >>,
  FutureBasisObservation |-> <<9, << <<"future_price", Decimal>>, <<"reference_price", Decimal>>,
                                     <<"basis_rate", Decimal>>,
                                     <<"annualized_basis_rate", Optional(Decimal)>> >> >>,
  OptionTicker |-> <<10, << <<"bid_price", Optional(Decimal)>>, <<"ask_price", Optional(Decimal)>>,
                            <<"mark_price", Decimal>>, <<"mark_iv", Decimal>>, <<"delta", Decimal>>,
                            <<"open_interest", Decimal>> >> >>,
  OptionTrade |-> <<11, << <<"trade_id", TextType>>, <<"price", Decimal>>, <<"quantity", Decimal>>,
                           <<"side", Fixed>>, <<"implied_volatility", Optional(Decimal)>> >> >>,
  VenueStatus |-> <<12, << <<"state", Fixed>>, <<"observed_at", Fixed>>,
                           <<"message", Optional(TextType)>> >> >>]

\* encode_payload, the chain, context and model records
RecordLayouts == [
  ChainBlock |-> <<13, << <<"chain", AssetType>>, <<"block_hash", TextType>>,
                          <<"parent_hash", Optional(TextType)>>, <<"height", Fixed>>, <<"block_time", Fixed>>,
                          <<"confirmation_depth", Fixed>>, <<"finality", Fixed>>,
                          <<"transaction_count", Fixed>> >> >>,
  ChainTransactionAggregate |-> <<14, << <<"chain", AssetType>>, <<"interval_start", Fixed>>,
                          <<"interval_end", Fixed>>, <<"transaction_count", Fixed>>,
                          <<"transferred_value", Optional(Decimal)>>, <<"fee_total", Optional(Decimal)>> >> >>,
  ChainMempoolObservation |-> <<15, << <<"chain", AssetType>>, <<"observed_at", Fixed>>,
                          <<"transaction_count", Fixed>>, <<"virtual_size", Fixed>>,
                          <<"total_fees", Optional(Decimal)>> >> >>,
  ChainMetric |-> <<16, << <<"chain", AssetType>>, <<"metric_name", TextType>>, <<"value", Decimal>>,
                           <<"observed_at", Fixed>> >> >>,
  ExternalMarketObservation |-> <<17, << <<"market_id", TextType>>, <<"value", Decimal>>,
                          <<"observed_at", Fixed>>, <<"source_native_id", Optional(TextType)>> >> >>,
  StructuredEvent |-> <<18, << <<"structured_event_id", TextType>>, <<"event_type", TextType>>,
                          <<"affected_assets", SequenceOf(AssetType)>>,
                          <<"affected_venues", SequenceOf(TextType)>>,
                          <<"affected_protocols", SequenceOf(TextType)>>, <<"source_identity", SourceType>>,
                          <<"source_reliability_ppm", Fixed>>, <<"publication_time", Fixed>>,
                          <<"effective_time", Optional(Fixed)>>, <<"expected_end_time", Optional(Fixed)>>,
                          <<"direction_prior", Decimal>>, <<"severity_ppm", Fixed>>,
                          <<"extraction_confidence_ppm", Fixed>>, <<"human_verified", Fixed>>,
                          <<"source_document_hash", Fixed>>, <<"extractor_model_id", TextType>>,
                          <<"extractor_prompt_version", TextType>>,
                          <<"extracted_facts", SequenceOf(RecordOf(<< <<"key", TextType>>,
                                                                      <<"value", TextType>> >>))>> >> >>,
  DataQualityObservation |-> <<19, << <<"component", TextType>>, <<"observed_at", Fixed>>,
                          <<"score_ppm", Fixed>>, <<"flags", Fixed>>, <<"details", Optional(TextType)>> >> >>,
  PredictionRecord |-> <<20, << <<"forecast_id", TextType>>, <<"issued_at", Fixed>>, <<"entity_id", TextType>>,
                          <<"model_package_id", TextType>>, <<"forecast_schema_version", Fixed>>,
                          <<"prediction_event_type", TextType>>, <<"horizon_seconds", Fixed>>,
                          <<"calibrated_probability_ppm", Fixed>>, <<"raw_score", Decimal>>,
                          <<"base_rate_ppm", Fixed>>, <<"lower_uncertainty_ppm", Fixed>>,
                          <<"upper_uncertainty_ppm", Fixed>>, <<"availability", Fixed>>,
                          <<"quality_score_ppm", Fixed>>, <<"applicability_score_ppm", Fixed>>,
                          <<"scenario_summary_id", TextType>>, <<"evidence_bundle_id", TextType>>,
                          <<"supersedes_forecast_id", Optional(TextType)>> >> >>,
  AlertEvent |-> <<21, << <<"alert_id", TextType>>, <<"rule_id", TextType>>, <<"status", Fixed>>,
                          <<"priority", Fixed>>, <<"triggered_at", Fixed>>, <<"recovered_at", Optional(Fixed)>>,
                          <<"forecast_id", Optional(TextType)>>, <<"message", TextType>> >> >>]

Layouts == MarketLayouts @@ RecordLayouts

encode_payload(p) == <<Layouts[p.kind][1]>> \o Encode(RecordOf(Layouts[p.kind][2]), p)

\* encode_identity_metadata: a product distinguishes instruments from the third schema on, the
\* previous sequence events from the second.
encode_identity_metadata(m) ==
  LET instrument == << <<"venue", TextType>>, <<"venue_symbol", TextType>> >>
                    \o (IF m.schema_version >= 3 THEN << <<"product_type", Fixed>> >> ELSE <<>>)
                    \o << <<"generation", Fixed>> >>
      layout == << <<"source", SourceType>>, <<"venue", Optional(TextType)>>,
                   <<"instrument", Optional(RecordOf(instrument))>>, <<"exchange_timestamp", Optional(Fixed)>>,
                   <<"transaction_timestamp", Optional(Fixed)>>, <<"sequence", Optional(Fixed)>> >>
                \o (IF m.schema_version >= 2 THEN << <<"previous", Optional(Fixed)>> >> ELSE <<>>)
  IN Encode(RecordOf(layout), m)

canonical_event_id_unchecked(m, p) ==
  <<m.schema_version>> \o encode_identity_metadata(m) \o encode_payload(p)

-----------------------------------------------------------------------------
(* The envelope and its wire form                                              *)

\* The length of the JSON, as far as the bound is concerned.
WireSize(m, p) ==
  Len(canonical_event_id_unchecked(m, p)) + Len(m.parser_version) + Len(m.normalizer_version)
  + Len(m.ingestion_instance)

\* EventEnvelope::new
NewEnvelope(m, p) ==
  Checked(<< Failing(EventError(m, p)), <<WireSize(m, p) > MaxWire, "WireTooLarge">> >>,
          [id |-> canonical_event_id_unchecked(m, p), event_type |-> p.kind, metadata |-> m, payload |-> p])

verify(envelope) == canonical_event_id_unchecked(envelope.metadata, envelope.payload) = envelope.id

\* Deserialize for EventEnvelope: the wire's identity and type are claims that are checked.
Deserialize(wire) ==
  Then(NewEnvelope(wire.metadata, wire.payload), LAMBDA envelope :
    Checked(<< <<envelope.event_type # wire.event_type, "EventTypeMismatch">>,
               <<envelope.id # wire.id, "IdentityMismatch">> >>, envelope))

OrInvalid(result) == IF result.ok THEN result ELSE Fail("InvalidWire")

from_json_slice(wire) ==
  IF WireSize(wire.metadata, wire.payload) > MaxWire THEN Fail("WireTooLarge")
  ELSE OrInvalid(Deserialize(wire))
=============================================================================
