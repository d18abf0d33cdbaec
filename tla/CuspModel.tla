------------------------------ MODULE CuspModel ------------------------------
(***************************************************************************)
(* The structural analysis of one control point (crates/cusp: types.rs,      *)
(* potential.rs, roots.rs, equilibria.rs, barrier.rs, fold_distance.rs and    *)
(* the branch naming of online.rs).  The arithmetic is exact: a control point *)
(* is a pair of integers whose real equilibria are integers (IntegerRooted),   *)
(* so that the trigonometric and Cardano branches of roots.rs, with their       *)
(* polishing and round-off tolerances, all return the roots found here.           *)
(***************************************************************************)
EXTENDS Results, FiniteSets, FiniteSetsExt, Functions

CONSTANT RootBound       \* the integer roots searched

Controls(alpha, beta) == [alpha |-> alpha, beta |-> beta]
discriminant(c) == 4 * c.beta^3 - 27 * c.alpha^2
inside_cusp(c) == c.beta > 0 /\ discriminant(c) > 0

\* Four times the potential, which keeps it an integer.
Potential4(y, c) == y^4 - 2 * c.beta * y^2 - 4 * c.alpha * y
gradient(y, c) == y^3 - c.beta * y - c.alpha
hessian(y, c) == 3 * y^2 - c.beta

fold_point(s) == Controls(-2 * s^3, 3 * s^2)

\* The sorted distinct real roots, each with its multiplicity.
real_equilibria(c) ==
  LET roots == SetToSortSeq({y \in (-RootBound)..RootBound : gradient(y, c) = 0}, <)
      multiplicity(y) == IF hessian(y, c) # 0 THEN 1 ELSE IF y = 0 THEN 3 ELSE 2
  IN [i \in DOMAIN roots |-> [value |-> roots[i], multiplicity |-> multiplicity(roots[i])]]

IntegerRooted(c) ==
  LET found == Len(real_equilibria(c))
  IN IF discriminant(c) > 0 THEN found = 3
     ELSE IF discriminant(c) < 0 THEN found = 1
     ELSE found = (IF c = Controls(0, 0) THEN 1 ELSE 2)

classify_root(root, c) ==
  [value |-> root.value, multiplicity |-> root.multiplicity,
   stability |-> IF hessian(root.value, c) > 0 THEN "Stable"
                 ELSE IF hessian(root.value, c) < 0 THEN "Unstable" ELSE "NeutralAtTolerance",
   restoring_force |-> IF hessian(root.value, c) > 0 THEN hessian(root.value, c) ELSE 0]

determine_topology(roots) ==
  LET stabilities == [i \in DOMAIN roots |-> roots[i].stability]
      multiplicities == [i \in DOMAIN roots |-> roots[i].multiplicity]
  IN CASE stabilities = <<"Stable">> /\ multiplicities = <<1>> -> Done("OneStable")
       [] stabilities = <<"NeutralAtTolerance">> /\ multiplicities = <<3>> -> Done("Critical")
       [] multiplicities \in {<<1, 2>>, <<2, 1>>}
          /\ Range(stabilities) = {"Stable", "NeutralAtTolerance"} -> Done("Fold")
       [] multiplicities = <<1, 1, 1>> /\ stabilities = <<"Stable", "Unstable", "Stable">>
            -> Done("ThreeBranches")
       [] OTHER -> Fail("InvalidEquilibriumTopology")

\* Four times the heights, from the root gaps rather than from the potential.
adjacent_barriers(roots) ==
  LET a == roots[1].value  b == roots[2].value  c == roots[3].value
  IN << [stable |-> a, unstable |-> b, height |-> c * (b - a)^3],
        [stable |-> c, unstable |-> b, height |-> -a * (c - b)^3] >>

analyze_equilibria(c) ==
  LET roots == [i \in DOMAIN real_equilibria(c) |-> classify_root(real_equilibria(c)[i], c)]
  IN Then(determine_topology(roots),
          LAMBDA topology :
            Done([controls |-> c, topology |-> topology, roots |-> roots,
                  barriers |-> IF topology = "ThreeBranches" THEN adjacent_barriers(roots)
                                                             ELSE <<>>]))

-----------------------------------------------------------------------------
(* Physical branches.                                                          *)

Branches == {"Lower", "Upper"}
NoBranch == "NoBranch"
Other(branch) == IF branch = "Lower" THEN "Upper" ELSE "Lower"

StableRoots(equilibria) ==
  LET stable == SelectSeq(equilibria.roots, LAMBDA r : r.stability = "Stable")
  IN [i \in DOMAIN stable |-> stable[i].value]

\* The stable roots of one posterior sample, in the order of the physical state.
BranchObservation(roots) ==
  Checked(<< <<Len(roots) \notin 1..2, "InvalidObservation">>,
             <<HasDuplicates(roots), "InvalidObservation">>,
             <<Len(roots) = 2 /\ (Min(Range(roots)) >= 0 \/ Max(Range(roots)) <= 0),
               "InvalidObservation">> >>,
          SetToSortSeq(Range(roots), <))

branch_observation(equilibria) ==
  BranchObservation(
    IF StableRoots(equilibria) = <<>> /\ equilibria.topology = "Critical"
    THEN [i \in DOMAIN equilibria.roots |-> equilibria.roots[i].value]
    ELSE StableRoots(equilibria))

\* The branches one stable root stands for; a zero root follows the preferred branch.
physical_branches(root, stable, preferred) ==
  IF Len(stable) = 2 THEN {IF root = stable[1] THEN "Lower" ELSE "Upper"}
  ELSE IF root < 0 THEN {"Lower"}
  ELSE IF root > 0 THEN {"Upper"}
  ELSE IF preferred = NoBranch THEN Branches ELSE {preferred}

\* The root, barrier and restoring force of every branch that has a stable root.
branch_states(equilibria, preferred) ==
  LET stable == StableRoots(equilibria)
      barriers(y) == {equilibria.barriers[i].height : i \in
                        {j \in DOMAIN equilibria.barriers : equilibria.barriers[j].stable = y}}
      force(y) == CHOOSE f \in {equilibria.roots[i].restoring_force : i \in
                        {j \in DOMAIN equilibria.roots : equilibria.roots[j].value = y}} : TRUE
  IN UNION { {[branch |-> b, root |-> y, barrier |-> barriers(y), restoring_force |-> force(y)]
                : b \in physical_branches(y, stable, preferred)} : y \in Range(stable) }

\* The root an observation gives a branch, given the branch selected so far: {} or one root.
root_for(observation, branch, previous) ==
  IF Len(observation) = 2
  THEN {IF branch = "Lower" THEN observation[1] ELSE observation[2]}
  ELSE IF \/ observation[1] < 0 /\ branch = "Lower"
          \/ observation[1] > 0 /\ branch = "Upper"
          \/ observation[1] = 0 /\ previous \in {branch, NoBranch}
       THEN {observation[1]} ELSE {}

-----------------------------------------------------------------------------
(***************************************************************************)
(* The fitted map from features to the cusp controls (crates/cusp:             *)
(* control_schema.rs and controls.rs).  The schema's features and groups,        *)
(* which the code sorts by identity, are functions of their identities;           *)
(* coefficients and normalised values are exact fractions.                        *)
(***************************************************************************)

CONSTANTS MaxControlFeatures, MaxControlGroups, MaxAssetOverrides

\* The first definition of an identity in a vector, as binary_search finds it.
Lookup(entries, key, default, F(_)) ==
  LET found == SelectSeq(entries, LAMBDA e : e.key = key)
  IN IF found = <<>> THEN default ELSE F(found[1])

Keys(entries) == [i \in DOMAIN entries |-> entries[i].key]

SchemaError(schema) ==
  LET groups == schema.groups  features == schema.features
  IN FirstError(<<
       <<schema.version = 0, "InvalidVersion">>,
       <<Len(groups) \notin 1..MaxControlGroups, "InvalidGroupCount">>,
       <<Len(features) \notin 1..MaxControlFeatures, "InvalidFeatureCount">>,
       <<\E g \in Range(groups) : g.penalty < 0, "InvalidSparsePenalty">>,
       <<HasDuplicates(Keys(groups)), "DuplicateGroup">>,
       <<\E f \in Range(features) : f.scale <= 0, "InvalidNormalization">>,
       <<HasDuplicates(Keys(features)), "DuplicateFeature">>,
       <<\E f \in Range(features) : f.group \notin Range(Keys(groups)),
         "UnknownFeatureGroup">> >>)

\* Control values in key order; missingness is data.
ControlVector(values) ==
  Checked(<< <<Len(values) \notin 1..MaxControlFeatures, "InvalidFeatureCount">>,
             <<HasDuplicates(Keys(values)), "DuplicateFeature">> >>,
          values)

-----------------------------------------------------------------------------
(* Linear controls: [intercept, shared, by_asset], coefficients keyed.          *)

\* The shared list, then the assets' own in the order of their identities.
CoefficientLists(control) ==
  <<control.shared>> \o [i \in DOMAIN control.by_asset |-> control.by_asset[i].coefficients]

CoefficientsError(list) ==
  FirstError(<< <<Len(list) > MaxControlFeatures, "NonFiniteValue">>,
                <<HasDuplicates(Keys(list)), "DuplicateCoefficient">> >>)

LinearError(control) ==
  LET lists == CoefficientLists(control)
  IN FirstError(<< <<HasDuplicates(Keys(control.by_asset)), "DuplicateAssetOverride">>,
                   <<Len(control.by_asset) > MaxAssetOverrides, "AssetOverrideCapacity">> >>
                \o [i \in DOMAIN lists |->
                      Failing(CoefficientsError(lists[i]))])

\* Shared coefficient plus the asset's own.
coefficient(control, asset, key) ==
  LET within(list) == Lookup(list, key, 0, LAMBDA e : e.coefficient)
  IN within(control.shared)
     + within(Lookup(control.by_asset, asset, <<>>, LAMBDA a : a.coefficients))

SignPermits(sign, value) ==
  \/ sign = "Any"
  \/ sign = "NonNegative" /\ value >= 0
  \/ sign = "NonPositive" /\ value <= 0

\* target is "Alpha" or "Beta"; a feature permits one, both or neither of them.
MappingError(schema, control, target) ==
  LET entries == FlattenSeq(CoefficientLists(control))
      featureOf(e) == Lookup(schema.features, e.key, [targets |-> {}, group |-> 0], LAMBDA f : f)
      signOf(e) == Lookup(schema.groups, featureOf(e).group, "Any", LAMBDA g : g.sign[target])
  IN FirstError(FlattenSeq([i \in DOMAIN entries |->
       << <<target \notin featureOf(entries[i]).targets, "CoefficientTargetMismatch">>,
          <<~SignPermits(signOf(entries[i]), entries[i].coefficient),
            "SignConstraintViolation">> >>]))

\* Variances of a 2x2 covariance [alpha, cross, beta]: positive definite.
CovarianceOk(cov) ==
  /\ FPositive(cov.alpha) /\ FPositive(cov.beta)
  /\ FPositive(FSub(FMul(cov.alpha, cov.beta), FSquare(cov.cross)))

MapError(map) ==
  LET errors == <<LinearError(map.alpha), LinearError(map.beta)>>
  IN FirstError(<<
       <<map.version = 0, "InvalidVersion">>,
       <<map.version # map.schema.version, "VersionMismatch">>,
       <<map.normalization_hash = 0, "ZeroNormalizationHash">>,
       Failing(SchemaError(map.schema)),
       Failing(errors[1]),
       Failing(errors[2]),
       <<~CovarianceOk(map.residual), "InvalidControlCovariance">>,
       <<MappingError(map.schema, map.alpha, "Alpha") # "Ok",
         MappingError(map.schema, map.alpha, "Alpha")>>,
       <<MappingError(map.schema, map.beta, "Beta") # "Ok",
         MappingError(map.schema, map.beta, "Beta")>> >>)

-----------------------------------------------------------------------------
(* Evaluation of a validated map at one asset and feature vector.               *)

normalized(feature, datum) ==
  IF datum.present THEN Frac(datum.value - feature.center, feature.scale) ELSE Whole(0)

evaluate_linear(control, asset, schema, values) ==
  FoldLeft(FAdd, Whole(control.intercept),
    [i \in DOMAIN schema.features |->
       FMul(Whole(coefficient(control, asset, schema.features[i].key)),
            normalized(schema.features[i], values[i].datum))])

sensitivity(control, asset, feature) ==
  Frac(coefficient(control, asset, feature.key), feature.scale)

\* covariance is a matrix over the schema's features; a missing feature contributes nothing.
propagate_covariance(map, asset, values, covariance) ==
  LET features == map.schema.features
      slope(control, i) == IF values[i].datum.present
                           THEN sensitivity(control, asset, features[i]) ELSE Whole(0)
      quadratic(left, right) ==
        FSum([i \in DOMAIN features |-> FSum([j \in DOMAIN features |->
          FMul(FMul(slope(left, i), Whole(covariance.matrix[i][j])), slope(right, j))])])
  IN [alpha |-> FAdd(map.residual.alpha, quadratic(map.alpha, map.alpha)),
      cross |-> FAdd(map.residual.cross, quadratic(map.alpha, map.beta)),
      beta |-> FAdd(map.residual.beta, quadratic(map.beta, map.beta))]

\* covariance is <<>> when none is supplied, and [order, matrix] otherwise, as one element.
evaluate_detailed(map, asset, values, covariance) ==
  LET features == map.schema.features
      missing == {i \in DOMAIN features : ~values[i].datum.present}
      propagated == propagate_covariance(map, asset, values, covariance[1])
  IN IF Keys(values) # Keys(features) \/ (covariance # <<>> /\ covariance[1].order # Keys(features))
     THEN Fail("FeatureSetMismatch")
     ELSE IF \E i \in missing : features[i].required THEN Fail("RequiredFeatureMissing")
     ELSE IF covariance # <<>> /\ ~CovarianceOk(propagated) THEN Fail("InvalidControlCovariance")
     ELSE Done([alpha |-> evaluate_linear(map.alpha, asset, map.schema, values),
                beta |-> evaluate_linear(map.beta, asset, map.schema, values),
                covariance |-> IF covariance = <<>> THEN map.residual ELSE propagated,
                missing_optional |-> {features[i].key : i \in missing}])

-----------------------------------------------------------------------------
(***************************************************************************)
(* The walk-forward gate that decides whether a cusp model may carry          *)
(* production weight (crates/cusp/src/ablation.rs).  Scores are integers out   *)
(* of ScoreScale, derived ratios exact fractions, and the code's parts per       *)
(* million are parts of PartsPer, so that its rounding is visible.               *)
(***************************************************************************)

CONSTANTS MaxFolds, MaxObservationsPerFold, MaxAttemptedVariants,
          ScoreScale,      \* the score 1.0
          PartsPer,        \* PARTS_PER_MILLION, scaled down
          Policy           \* GatePolicy::default, scaled down with PartsPer

RequiredBaselines == {"volatility", "leverage", "regime", "microstructure"}

FoldError(fold) ==
  FirstError(<<
    <<~fold.named, "InvalidIdentity">>,
    <<fold.start <= 0 \/ fold.end <= fold.start, "InvalidFoldPeriod">>,
    <<\/ fold.observations \notin 1..MaxObservationsPerFold
      \/ fold.positives > fold.observations
      \/ fold.episodes > fold.positives, "InvalidCount">>,
    <<\/ fold.candidate \notin 0..ScoreScale \/ fold.baseline \notin 1..ScoreScale
      \/ fold.calibration_error \notin 0..ScoreScale
      \/ fold.alert_delta \notin (-ScoreScale)..ScoreScale, "MetricOutOfRange">> >>)

brier_skill(fold) == FSub(Whole(1), Frac(fold.candidate, fold.baseline))
improved(fold) == fold.candidate < fold.baseline

\* The report's evidence is everything in it: the report itself stands for its hash.
AblationReport(input) ==
  LET failing == SelectSeq(input.folds, LAMBDA f : FoldError(f) # "Ok")
  IN Checked(<<
    <<input.schema_version # 1, "UnsupportedSchema">>,
    <<0 \in {input.dataset, input.candidate_model, input.baseline_model}, "InvalidIdentity">>,
    <<input.candidate_model = input.baseline_model, "InvalidIdentity">>,
    <<Len(input.folds) \notin 1..MaxFolds, "FoldCapacity">>,
    <<input.drift < 0, "MetricOutOfRange">>,
    <<input.attempted_variants \notin 1..MaxAttemptedVariants, "InvalidCount">>,
    <<HasDuplicates(input.baselines), "DuplicateBaseline">>,
    <<failing # <<>>, IF failing = <<>> THEN "Ok" ELSE FoldError(failing[1])>>,
    <<HasDuplicates([i \in DOMAIN input.folds |-> input.folds[i].id]), "DuplicateFold">>,
    <<\E i \in 1..(Len(input.folds) - 1) : input.folds[i].end > input.folds[i + 1].start,
      "NonChronologicalFolds">> >>,
    input)

-----------------------------------------------------------------------------

FoldTotal(folds, F(_)) == FoldLeft(LAMBDA sum, f : sum + F(f), 0, folds)

aggregate_brier_skill(folds) ==
  FSub(Whole(1), Frac(FoldTotal(folds, LAMBDA f : f.candidate * f.observations),
                      FoldTotal(folds, LAMBDA f : f.baseline * f.observations)))

aggregate_alert_budget_delta(folds) ==
  Frac(FoldTotal(folds, LAMBDA f : f.alert_delta * f.observations),
       ScoreScale * FoldTotal(folds, LAMBDA f : f.observations))

\* Rust's round: to the nearest integer, halves away from zero.
to_ppm(x) ==
  LET scaled == x[1] * PartsPer
  IN IF scaled >= 0 THEN (2 * scaled + x[2]) \div (2 * x[2])
     ELSE -((2 * (-scaled) + x[2]) \div (2 * x[2]))

\* A plausible bug: the fraction of improved folds rounded like the other metrics.
fraction_ppm_rounded(numerator, denominator) == to_ppm(Frac(numerator, denominator))
fraction_ppm(numerator, denominator) == (numerator * PartsPer) \div denominator

calibrated(fold) ==
  /\ fold.slope * PartsPer >= Policy.slope_minimum * ScoreScale
  /\ fold.slope * PartsPer <= Policy.slope_maximum * ScoreScale
  /\ Abs(fold.intercept) * PartsPer <= Policy.intercept_maximum * ScoreScale
  /\ fold.calibration_error * PartsPer <= Policy.calibration_error_maximum * ScoreScale

GateChecks(report) ==
  LET folds == report.folds
      better == SelectSeq(folds, improved)
      recent == folds[Len(folds)]
  IN [required_baselines |-> RequiredBaselines \subseteq Range(report.baselines),
      positive_primary_score |-> to_ppm(aggregate_brier_skill(folds)) > 0,
      improved_fold_fraction |->
        fraction_ppm(Len(better), Len(folds)) >= Policy.improved_fraction_minimum,
      minimum_positive_events |->
        FoldTotal(folds, LAMBDA f : f.positives) >= Policy.positive_events_minimum,
      independent_episodes |->
        FoldTotal(folds, LAMBDA f : f.episodes) >= Policy.episodes_minimum,
      multi_regime_improvement |->
        Cardinality({f.regime : f \in Range(better)}) >= Policy.regimes_minimum,
      recent_fold_safety |-> to_ppm(brier_skill(recent)) >= Policy.recent_skill_minimum,
      calibration |-> \A f \in Range(folds) : calibrated(f),
      alert_budget_improvement |-> to_ppm(aggregate_alert_budget_delta(folds)) > 0,
      coefficient_stability |-> to_ppm(Frac(report.drift, ScoreScale)) <= Policy.drift_maximum,
      sign_scaling_parity |-> report.sign_scaling_parity,
      numerical_reliability |-> report.numerical_failures = 0]

\* CuspGate::evaluate of a validated report; its evidence covers the decision and the report.
EvaluateGate(report) ==
  LET checks == GateChecks(report)
      decision == IF \A kind \in DOMAIN checks : checks[kind]
                  THEN "EligibleForProductionWeight" ELSE "ResearchOnly"
  IN [decision |-> decision, checks |-> checks, candidate_model |-> report.candidate_model,
      evidence |-> <<decision, checks, report>>]
=============================================================================
