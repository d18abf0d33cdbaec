SPECIFICATION FairSpec
CONSTANTS
    SessionVenues = {"binance", "bybit"}
    Instruments = {"a", "b"}
    CommandCapacity = 2
    OutputCapacity = 1
    LifecycleCapacity = 1
    HistoryLimit = 1
    MaxCommandId = 2
    MaxInputs = 4
INVARIANTS DurableBeforePublished SessionConsistent
PROPERTIES SessionHistory InterruptEnds
CHECK_DEADLOCK FALSE
