\* Every request on a line that works, and on one that loses a byte.
CONSTANTS
    SECZ = 25
    Paths = {0, 1}
    ReadOnly = {1}
    Images <- MCImages
    Clock <- MCClock
    Blocks = {0, 8388608}
    Drives = {0, 1, 2}
    WriteLsns = {4}
    WriteData <- MCWriteData
    Others <- MCAll
    Late = FALSE
    Noise <- MCNoise
    MaxCalls = 3
    MaxLoss = 1
    MaxNoise = 0
SPECIFICATION FairSpec
INVARIANTS TypeOK SyncInv InStep Succeeds
PROPERTIES CallsEnd
CHECK_DEADLOCK FALSE
