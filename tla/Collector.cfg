SPECIFICATION MCSpec
CONSTANTS
    s1 = s1
    s2 = s2
    Sources <- MCSources
    Tiers = {"A", "B"}
    Policies <- MCPolicies
    Limit <- MCLimit
    SourceCount = 2
    QualityEventCapacity = 3
    LedgerCapacity = 2
    MaximumAttempts = 2
    MaxTime = 3
    MaxSequence = 4
    MaxEpoch = 2
    MaxCommandId = 2
    StartEpochs = {1}
    MaxRecorded = 3
    MaxAdmissions = 2
    Keys = {"k1", "k2", "k3"}
    Capacity = 2
    MaxCounter = 3
    Producers = {"p", "q"}
    ItemCapacity = 1
    ByteCapacity = 2
    Interval = 2
    None = None
    Offered <- SplitOffer
    ReceiveTimes = {1, 3}
    MaxStreamSequence = 2
INVARIANTS SupervisorConsistent TrackerExact PermitsConserved LossCovered
PROPERTIES BookSendEnds
CHECK_DEADLOCK FALSE
