SPECIFICATION FairSpec
CONSTANTS
    Names <- MCNames
    Disks <- MCDisks
    Zero <- MCZero
    BSZ = 4
    IPB = 2
    NDirect = 2
    PSZ = 8
    CMDAT = 5
    FxCells <- MCFxCells
    Fx <- MCFx
    Bounce <- MCBounce
    BootVars <- MCBootVars
    Typed <- MCTyped
    Message <- MCMessage
    SECOND = 60
    TIMEMOD = 256
    Timers <- MCTimers
    MaxFaults = 1
    MaxReads = 8
    MaxTyped = 3
INVARIANTS TypeOK Loaded CdIsDir
PROPERTIES FailsForReason RetryWorks BootEnds
CHECK_DEADLOCK FALSE
