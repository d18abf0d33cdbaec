SPECIFICATION MCSpec
CONSTANTS
  Limits <- MCLimits
  c1 = c1
  Callers = {c1, c2}
  Requests <- MCRequests
  AuditEvents <- MCAuditEvents
  QueueCapacity = 1
  ReaderConcurrency = 1
  MaxGeneration = 2
  MaxFailures = 1
  CatalogBatches <- MCBatches
  EventTimes = {0, 1, 2, 3}
INVARIANTS  RegistryExact
PROPERTIES StoreDrains
CHECK_DEADLOCK FALSE
