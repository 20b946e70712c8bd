\* putboot on a disk with a file on the boot track.
CONSTANTS
    FATZ = 4
    SECZ = 2
    SPG = 2
    NDIR = 2
    HALF = 2
    DIR1 = 1
    Names = {"A", "B"}
    Byte <- MCByte
    HostFiles <- MCShapes
    RoomAssumed = TRUE
    BootHeeded = FALSE
    MaxFail = 0
SPECIFICATION Spec
PROPERTY BootKeepsFiles
