\* Every command on three names; no process dies, every file fits.
CONSTANTS
    FATZ = 4
    SECZ = 2
    SPG = 2
    NDIR = 2
    HALF = 2
    DIR1 = 1
    A = A
    B = B
    C = C
    Names = {A, B, C}
    Byte <- MCByte
    HostFiles <- MCFiles
    RoomAssumed = TRUE
    BootHeeded = TRUE
    MaxFail = 0
SYMMETRY MCSymmetry
SPECIFICATION Spec
INVARIANTS TypeOK FatSound DamageWindow GetFaithful FilesInv
PROPERTIES ReservedKept ImplementsFileStore
