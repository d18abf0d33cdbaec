CONSTANTS
    Versions = {1, 2}
    Batches = {1, 2, 3}
    Contents = {1, 2}
    Coverage <- MCCoverage
    KnownAt = {0, 1}
    MaximumCorrectionDepth = 1
    MaximumActiveFragments = 2
    MaximumPartitionRows = 2
    MaximumPartitionBytes = 3
    CompactOverhead = 1
    FaultBudgets <- MCBudgets
SPECIFICATION MCSpec
INVARIANTS
    PublicationWhole
    
PROPERTIES AckedEventuallyPublished
