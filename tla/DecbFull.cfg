\* A file that does not fit.
CONSTANTS
    FATZ = 4
    SECZ = 2
    SPG = 2
    NDIR = 2
    HALF = 2
    DIR1 = 1
    Names = {"A", "B"}
    Byte <- MCByte
    HostFiles <- MCShapes
    RoomAssumed = FALSE
    BootHeeded = TRUE
    MaxFail = 0
SPECIFICATION Spec
INVARIANT PutStatusHonest
