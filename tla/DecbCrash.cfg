\* Processes die half way, the disk may fill up, and the image is used again.
CONSTANTS
    FATZ = 5
    SECZ = 1
    SPG = 1
    NDIR = 2
    HALF = 2
    DIR1 = 1
    Names = {"A", "B"}
    Byte <- MCByte
    HostFiles <- MCSmallAndBig
    RoomAssumed = FALSE
    BootHeeded = TRUE
    MaxFail = 1
SPECIFICATION FairSpec
INVARIANT NoLeak
PROPERTY Terminates
