SPECIFICATION FairSpec
CONSTANTS
    Streams = {s1}
    MaxSeq = 3
    MaxSegments = 4
    MaxSegmentRecords = 2
    MaxProcessCrashes = 1
    MaxPowerLosses = 2
    MaxIoErrors = 1
INVARIANTS AckedReadable AckedDurable RecoverySound
PROPERTIES SealedImmutable EventuallyReady
CHECK_DEADLOCK FALSE
