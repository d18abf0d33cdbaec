----------------------------- MODULE CuspEngine ------------------------------
(***************************************************************************)
(* The online cusp engine and its two-branch Bayesian filter (crates/cusp:     *)
(* online.rs and branch_tracker.rs).  Probabilities are exact fractions.         *)
(*                                                                         *)
(* Left to the environment: the sampled control points (parameter and feature     *)
(* noise drawn around the fitted maps), and each branch's mean emission            *)
(* likelihood over the samples that have a root for it, a positive number            *)
(* (log_emission takes the exponential of a finite value).                            *)
(***************************************************************************)
EXTENDS CuspModel

CONSTANTS MinSamples, MaxSamples, MaxBranchObservations,
          Cadence,             \* nanoseconds of the configured cadence
          TransitionProbability, SwitchProbability,
          Fit,                 \* the fit: [converged, dataset, fold, parameters, map]
          Parameters,          \* its posterior samples
          ProductionQuality, ResearchQuality

QualityRequirementAtLeast(stronger, weaker) ==
  /\ stronger.score >= weaker.score
  /\ stronger.coverage >= weaker.coverage
  /\ stronger.states \subseteq weaker.states

\* OnlineConfig and BranchTrackerConfig.
ConfigOk ==
  /\ QualityRequirementAtLeast(ProductionQuality, ResearchQuality)
  /\ ~FLess(TransitionProbability, Whole(0)) /\ FLess(TransitionProbability, Frac(1, 2))
  /\ ~FLess(SwitchProbability, Frac(1, 2)) /\ ~FLess(Whole(1), SwitchProbability)

meets(quality, requirement) ==
  /\ quality.score >= requirement.score
  /\ quality.coverage >= requirement.coverage
  /\ quality.state \in requirement.states

-----------------------------------------------------------------------------
(* The branch tracker.                                                         *)

NewBranchTracker(initial) ==
  [posterior |-> [b \in Branches |->
     CASE initial = NoBranch -> Frac(1, 2)
       [] initial = b -> Whole(1)
       [] OTHER -> Whole(0)],
   most_likely |-> initial, last_roots |-> [b \in Branches |-> {}], last_as_of |-> 0]

\* A plausible bug: the filter forgets that a branch may be left.
predicted_posterior_static(tracker) == tracker.posterior
predicted_posterior(tracker) ==
  [b \in Branches |->
     FAdd(FMul(tracker.posterior[b], FSub(Whole(1), TransitionProbability)),
          FMul(tracker.posterior[Other(b)], TransitionProbability))]

RootsOf(observations, branch, previous) ==
  FlattenSeq([i \in DOMAIN observations |->
                SetToSeq(root_for(observations[i], branch, previous))])

\* The winner, unless the branch followed so far is still possible and the winner is
\* short of the switching probability.
SelectedBranch(previous, posterior) ==
  LET winner == IF FLess(posterior["Lower"], posterior["Upper"]) THEN "Upper" ELSE "Lower"
  IN IF /\ previous \notin {NoBranch, winner}
        /\ FLess(posterior[winner], SwitchProbability)
        /\ FPositive(posterior[previous])
     THEN previous ELSE winner

Hysteresis(previous, selected) ==
  IF previous \in {NoBranch, selected}
  THEN IF selected = "Lower" THEN "FollowingLower" ELSE "FollowingUpper"
  ELSE IF selected = "Upper" THEN "JumpedLowerToUpper" ELSE "JumpedUpperToLower"

BranchWeights(tracker, observations, likelihood, predicted) ==
  [b \in Branches |->
     FMul(FMul(predicted[b], likelihood[b]),
          Frac(Len(RootsOf(observations, b, tracker.most_likely)), Len(observations)))]

RootMemory(roots) ==
  IF roots = <<>> THEN {} ELSE {Mean([i \in DOMAIN roots |-> Whole(roots[i])])}

\* The tracker that has decided for a branch.
Decided(as_of, observations, posterior, selected) ==
  [posterior |-> posterior, most_likely |-> selected,
   last_roots |-> [b \in Branches |-> RootMemory(RootsOf(observations, b, selected))],
   last_as_of |-> as_of]

\* The weights normalised, unless no branch has any.
Weighed(tracker, as_of, observations, weight, total) ==
  IF total = Whole(0) THEN Fail("NoStableBranch")
  ELSE LET posterior == [b \in Branches |-> FDiv(weight[b], total)]
       IN Done(Decided(as_of, observations, posterior, SelectedBranch(tracker.most_likely, posterior)))

NormalizedWeights(tracker, as_of, observations, weight) ==
  Weighed(tracker, as_of, observations, weight, FAdd(weight["Lower"], weight["Upper"]))

\* BranchTracker::update: the tracker after it, or the error that leaves it alone.
TrackerUpdate(tracker, as_of, observations, likelihood) ==
  IF \/ as_of <= 0 \/ Len(observations) \notin 1..MaxBranchObservations
     \/ tracker.last_as_of # 0 /\ as_of <= tracker.last_as_of
  THEN Fail("InvalidObservation")
  ELSE NormalizedWeights(tracker, as_of, observations,
                         BranchWeights(tracker, observations, likelihood, predicted_posterior(tracker)))

-----------------------------------------------------------------------------
(* The engine.                                                                 *)

EngineError ==
  FirstError(<<
    <<Parameters.count \notin MinSamples..MaxSamples, "SampleCapacity">>,
    <<\/ ~Fit.converged
      \/ Parameters.dataset # Fit.dataset \/ Parameters.fold # Fit.fold
      \/ Parameters.mode # Fit.parameters
      \/ Parameters.quality = "Unavailable"
      \/ Parameters.digest = 0 \/ Parameters.laplace = 0, "EvidenceMismatch">> >>)

\* frozen_model_evidence: what the served model is identified by.
ModelEvidence == <<Fit, Parameters, TransitionProbability, SwitchProbability, Cadence>>

NewEngine(initial) == [tracker |-> NewBranchTracker(initial), last_as_of |-> 0]

CadenceOk(engine, as_of) ==
  /\ as_of > 0 /\ as_of % Cadence = 0
  /\ engine.last_as_of # 0 => as_of - engine.last_as_of >= Cadence

\* The evidence covers the tracker before and after, the input and the outputs.
Snapshot(input, before, after, fields) ==
  fields @@ [as_of |-> input.as_of, asset |-> input.asset, quality |-> input.quality,
             model |-> ModelEvidence, uncertainty |-> Parameters.quality, prior |-> before, posterior |-> after]

\* The tracker is not updated, but the point in time is spent.
Unavailable(engine, input, reason) ==
  Done([engine |-> [engine EXCEPT !.last_as_of = input.as_of],
        snapshot |-> Snapshot(input, engine.tracker, engine.tracker,
          [availability |-> "Unavailable", reason |-> reason, branch |-> NoBranch,
           probability |-> <<>>, hysteresis |-> "None", missing_optional |-> {}, barrier |-> {},
           region |-> <<>>])])

Observed(drawn) == branch_observation(analyze_equilibria(drawn).value)

\* The snapshot of an accepted point, and the engine that has followed it.
Available(engine, input, central) ==
  LET equilibria == analyze_equilibria(Controls(central.alpha[1], central.beta[1])).value
      observations == [i \in DOMAIN input.drawn |-> Observed(input.drawn[i]).value]
  IN Then(TrackerUpdate(engine.tracker, input.as_of, observations, input.likelihood),
       LAMBDA tracker :
         LET selected == tracker.most_likely
             states == {s \in branch_states(equilibria, selected) : s.branch = selected}
         IN Done([engine |-> [tracker |-> tracker, last_as_of |-> input.as_of],
                  snapshot |-> Snapshot(input, engine.tracker, tracker,
                    [availability |-> IF /\ Parameters.quality = "ProductionCandidate"
                                         /\ meets(input.quality, ProductionQuality)
                                         /\ input.covariance # <<>>
                                         /\ central.missing_optional = {}
                                      THEN "ResearchAvailable" ELSE "ResearchDegraded",
                     reason |-> "None",
                     branch |-> selected,
                     probability |-> tracker.posterior,
                     hysteresis |-> Hysteresis(engine.tracker.most_likely, selected),
                     missing_optional |-> central.missing_optional,
                     barrier |-> UNION {s.barrier : s \in states},
                     region |-> Frac(Len(SelectSeq(input.drawn, inside_cusp)),
                                     Len(input.drawn))])]))

\* The update once the map has, or has not, evaluated the features.
Evaluated(engine, input, central) ==
  IF ~central.ok /\ central.error = "RequiredFeatureMissing"
  THEN Unavailable(engine, input, "RequiredFeatureMissing")
  ELSE Then(central, LAMBDA evaluation : Available(engine, input, evaluation))

\* CuspEngine::update.
EngineUpdate(engine, input) ==
  IF ~CadenceOk(engine, input.as_of) THEN Fail("Cadence")
  ELSE IF ~meets(input.quality, ResearchQuality) THEN Unavailable(engine, input, "QualityRejected")
  ELSE Evaluated(engine, input, evaluate_detailed(Fit.map, input.asset, input.values, input.covariance))

-----------------------------------------------------------------------------
(***************************************************************************)
(* The bounded snapshot history behind the cusp service                       *)
(* (crates/local-api/src/cusp_service.rs): publication, eviction, the current    *)
(* state, history pages, and what a snapshot becomes on the wire.                  *)
(***************************************************************************)

CONSTANTS CapacityPerAsset, AssetCapacity, ModelCapacity, RecordCapacity,
          MaxHistoryRequest,
          PartsPerUnit       \* the wire's parts per million, scaled down

EmptyStore == [records |-> <<>>, gate_by_model |-> <<>>]

TotalRecords(store) == FoldFunction(LAMBDA history, sum : Len(history) + sum, 0, store.records)

\* A snapshot is whole: every structural field, or none of them when unavailable.
validate_snapshot(s) ==
  /\ s.as_of > 0
  /\ s.evidence # 0 /\ s.model # 0
  /\ IF s.availability = "Unavailable"
     THEN ~s.structural /\ s.lower = <<>>
     ELSE s.structural /\ s.lower # <<>>

\* Rust's round of a fraction of PartsPerUnit.
probability_ppm(p) == (2 * p[1] * PartsPerUnit + p[2]) \div (2 * p[2])

\* The upper branch gets what the rounded lower one leaves.
branch_probabilities(lower) ==
  IF lower = <<>> THEN <<>>
  ELSE <<probability_ppm(lower), PartsPerUnit - probability_ppm(lower)>>

availability(s, decision) ==
  CASE s.availability = "Unavailable" /\ s.state \in {"unhealthy", "quarantined"} -> "SourceUnhealthy"
    [] s.availability = "Unavailable" -> "InsufficientData"
    [] decision = "ResearchOnly" -> "Experimental"
    [] s.availability = "ResearchAvailable" -> "Available"
    [] OTHER -> "Degraded"

availability_reason(s, decision) ==
  IF s.availability = "Unavailable" THEN s.reason
  ELSE IF decision = "ResearchOnly" THEN "ablation_gate_research_only"
  ELSE IF s.availability = "ResearchDegraded" THEN "research_degraded" ELSE ""

\* The degradation reasons of quality_summary, one per cause.
quality_summary(s, decision) ==
  LET causes == << <<s.state # "healthy", "source_health">>,
                   <<~s.full_coverage, "feature_coverage">>,
                   <<s.missing_optional, "missing_optional_features">>,
                   <<s.uncertainty # "ProductionCandidate", "uncertainty_quality">>,
                   <<decision = "ResearchOnly", "not_used_in_production_probability">> >>
  IN {causes[i][2] : i \in {j \in DOMAIN causes : causes[j][1]}}

snapshot_to_proto(s, gate) ==
  [state_id |-> s.evidence, model |-> s.model, gate_evidence |-> gate.evidence,
   availability |-> availability(s, gate.decision),
   availability_reason |-> availability_reason(s, gate.decision),
   branch_probabilities |-> branch_probabilities(s.lower),
   quality |-> quality_summary(s, gate.decision),
   weight_eligibility |-> gate.decision,
   production_use |-> "NotUsedInProductionProbability"]

-----------------------------------------------------------------------------

HistoryOf(store, asset) == IF asset \in DOMAIN store.records THEN store.records[asset] ELSE <<>>

WithEntry(records, asset, history) ==
  [a \in DOMAIN records \union {asset} |-> IF a = asset THEN history ELSE records[a]]

\* The asset with the oldest front record goes first, ties by asset order; an asset left
\* without records disappears.
evict_oldest_record(records) ==
  LET front(a) == records[a][1].as_of
      oldest == CHOOSE a \in DOMAIN records : \A b \in DOMAIN records :
                  front(a) < front(b) \/ (front(a) = front(b) /\ a <= b)
  IN IF Len(records[oldest]) = 1 THEN Restrict(records, DOMAIN records \ {oldest})
     ELSE [records EXCEPT ![oldest] = Tail(@)]

PublishError(store, s, gate) ==
  FirstError(<<
    <<~validate_snapshot(s), "InvalidSnapshot">>,
    <<s.model # gate.candidate_model \/ gate.evidence = 0, "ModelEvidenceMismatch">>,
    <<s.asset \notin DOMAIN store.records /\ Cardinality(DOMAIN store.records) = AssetCapacity,
      "AssetCapacity">>,
    <<s.model \notin DOMAIN store.gate_by_model
        /\ Cardinality(DOMAIN store.gate_by_model) = ModelCapacity, "ModelCapacity">>,
    <<s.model \in DOMAIN store.gate_by_model
        /\ store.gate_by_model[s.model] # gate.evidence, "GateEvidenceMismatch">>,
    <<HistoryOf(store, s.asset) # <<>> /\ Last(HistoryOf(store, s.asset)).as_of >= s.as_of,
      "OutOfOrderSnapshot">> >>)

\* The records after making room for one more of the asset.
RoomFor(store, asset) ==
  IF Len(HistoryOf(store, asset)) = CapacityPerAsset
  THEN [store.records EXCEPT ![asset] = Tail(@)]
  ELSE IF TotalRecords(store) = RecordCapacity THEN evict_oldest_record(store.records)
  ELSE store.records

\* A plausible bug: the gate a model was first served with is forgotten with its records.
PublishForgetful(store, s, gate) ==
  LET records == RoomFor(store, s.asset)
      kept == UNION {{h[i].state.model : i \in DOMAIN h} : h \in Range(records)}
      record == [as_of |-> s.as_of, state |-> snapshot_to_proto(s, gate)]
      history == Append(IF s.asset \in DOMAIN records THEN records[s.asset] ELSE <<>>, record)
  IN Checked(<< Failing(PublishError(store, s, gate)) >>,
             [records |-> WithEntry(records, s.asset, history),
              gate_by_model |-> Restrict(WithEntry(store.gate_by_model, s.model, gate.evidence),
                                         kept \union {s.model})])
\* CuspSnapshotStore::publish: the store after it, or the error.
Publish(store, s, gate) ==
  LET records == RoomFor(store, s.asset)
      record == [as_of |-> s.as_of, state |-> snapshot_to_proto(s, gate)]
      history == Append(IF s.asset \in DOMAIN records THEN records[s.asset] ELSE <<>>, record)
  IN Checked(<< Failing(PublishError(store, s, gate)) >>,
             [records |-> WithEntry(records, s.asset, history),
              gate_by_model |-> WithEntry(store.gate_by_model, s.model, gate.evidence)])

current_record(store, asset) == Last(HistoryOf(store, asset))

\* The latest `limit` records before the exclusive cursor (0: none), oldest first.
history_records(store, asset, limit, cursor) ==
  LET before == SelectSeq(HistoryOf(store, asset),
                          LAMBDA r : cursor = 0 \/ r.as_of < cursor)
  IN Checked(<< <<limit \notin 1..MaxHistoryRequest \/ cursor < 0, "InvalidHistoryRequest">> >>,
             SubSeq(before, Max({1, Len(before) - limit + 1}), Len(before)))
=============================================================================
