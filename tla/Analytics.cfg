SPECIFICATION Spec
CONSTANTS
  MaxI64 = 40
  MaxPartitions = 4
  MaxMemberships = 4
  MaxTimers = 4
  MaxEwmaSamples = 3
  MaxRevisions = 4
  MaxSources = 4
  MaxScore = 10
  MaxDefinitions = 128
  InternalInterval = 2
  PublishedInterval = 4
  MaxFeatures = 4
  HealthyScore = 9
  DegradedScore = 7
  StartTime = 1
  TickCapacity = 3
  Targets = {3, 4, 6, 9}
  Definitions <- MCDefinitions
  InputsAt <- MCInputsAt
  MaxSnapshots = 3
  MaxTriggerSources = 4
  MaxTriggerObservations = 12
  HealthyQuality = 9
  One = 4
  NotBuilt = NotBuilt
  RootBound = 5
  MaxControlFeatures = 2
  MaxControlGroups = 2
  MaxAssetOverrides = 1
  MinSamples = 2
  MaxSamples = 4
  MaxBranchObservations = 4
  Cadence = 5
  TransitionProbability <- MCTransition
  SwitchProbability <- MCSwitch
  Fit <- MCFit
  Parameters <- MCParameters
  ProductionQuality <- MCProduction
  ResearchQuality <- MCResearch
  MaxFolds = 3
  MaxObservationsPerFold = 4
  MaxAttemptedVariants = 4
  ScoreScale = 10
  PartsPer = 10
  Policy <- MCPolicy
  CapacityPerAsset = 2
  AssetCapacity = 2
  ModelCapacity = 2
  RecordCapacity = 3
  MaxHistoryRequest = 2
  PartsPerUnit = 8
  MaxUpdates = 3
  MaxPublished = 4
  NotChosen = NotChosen
  MaxPriceObservations = 8
  MaxHorizons = 4
  Minute = 1
  Day = 8
  Lateness = 1
  Rolling <- MCRolling
  OneSecond = 2
  OneMinute = 4
  FifteenMinutes = 6
  MaxText = 3
  MaxLevels = 3
  MaxCollection = 2
  MaxWire = 200
  MaxPpm = 2
  UnitRate = 1
INVARIANTS AlgorithmsExact ServingExact EmissionBound
PROPERTIES EngineFollows
CHECK_DEADLOCK FALSE
