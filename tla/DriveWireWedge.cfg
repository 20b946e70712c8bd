\* One byte of a request is lost.
CONSTANTS
    SECZ = 2
    Paths = {0, 1}
    ReadOnly = {1}
    Images <- MCImages
    Clock <- MCClock
    Blocks = {0, 1}
    Drives = {0}
    WriteLsns = {}
    WriteData <- MCWriteData
    Others <- MCNone
    Late = FALSE
    Noise <- MCNoise
    MaxCalls = 2
    MaxLoss = 1
    MaxNoise = 0
SPECIFICATION FairSpec
PROPERTY ReadTimesOut
CHECK_DEADLOCK FALSE
