SPECIFICATION Spec
CONSTANTS
    Markets <- AllMarkets
    Prices = {1, 2, 3}
    ChecksumDepth = 1
    Quantities = {1, 2}
    MaxSessions = 2
    Faults = {"lost", "repeated", "malformed", "reset"}
 
PROPERTIES NeverRollsBack 
CHECK_DEADLOCK FALSE
