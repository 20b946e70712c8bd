\* A bad line: one byte lost, one byte of an answer changed, answers late.
CONSTANTS
    SECZ = 2
    Paths = {0, 1}
    ReadOnly = {1}
    Images <- MCImages
    Clock <- MCClock
    Blocks = {0, 128}
    Drives = {0, 2}
    WriteLsns = {257}
    WriteData <- MCWriteData
    Others <- MCNone
    Late = TRUE
    Noise <- MCNoise
    MaxCalls = 3
    MaxLoss = 1
    MaxNoise = 1
SPECIFICATION Spec
INVARIANTS ReadHonest WriteHonest
PROPERTIES OnlyAsked
CHECK_DEADLOCK FALSE
