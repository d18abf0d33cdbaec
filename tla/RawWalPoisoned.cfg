SPECIFICATION Spec
CONSTANTS
    Streams = {s1}
    MaxSeq = 3
    MaxSegments = 4
    MaxSegmentRecords = 2
    MaxProcessCrashes = 0
    MaxPowerLosses = 0
    MaxIoErrors = 1
PROPERTIES ReopenedAfterFailure
CHECK_DEADLOCK FALSE
