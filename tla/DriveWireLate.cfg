\* An answer comes after the client gave up on it; no byte is lost.
CONSTANTS
    SECZ = 2
    Paths = {0, 1}
    ReadOnly = {1}
    Images <- MCImages
    Clock <- MCClock
    Blocks = {0, 1}
    Drives = {0}
    WriteLsns = {}
    WriteData <- MCWriteData
    Others <- MCNone
    Late = TRUE
    Noise <- MCNoise
    MaxCalls = 3
    MaxLoss = 0
    MaxNoise = 0
SPECIFICATION Spec
INVARIANT ZeroIsOk
CHECK_DEADLOCK FALSE
