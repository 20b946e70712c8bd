SPECIFICATION Spec
CONSTANTS
    ALPHA = 3
    BITS0 = 3
    BYTE = 2
    Argvs <- MCArgvs
    Texts <- MCTexts
    OldZs <- MCZs
    OldFiles <- MCFiles
    DMAX = 4
    BUFZ = 2
    MaxFaults = 1
INVARIANTS TypeOK InStep Decoded Grounded Fits OldKept
CHECK_DEADLOCK FALSE
