SPECIFICATION FairSpec
CONSTANTS
    Markets <- Cramped
    Prices = {1, 2, 3}
    ChecksumDepth = 1
    Quantities = {1}
    MaxSessions = 2
    Faults = {"lost", "malformed"}
PROPERTIES
    EventuallySynchronized
CHECK_DEADLOCK FALSE
