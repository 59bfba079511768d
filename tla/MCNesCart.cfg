SPECIFICATION Spec
CONSTANTS
    NULL = NULL
    Blocks = {1, 2, 3, 4, 5, 6, 7, 8, 9, 10, 11}
    Pick <- First
    Roms <- Names
    Header <- Cartridges
    Found <- FoundHeaders
    MaxOpen = 2
    BankSize = 2
    PrgStart = 4
\* A call may not return: no memory is as large as st_size says, or an invalid
\* pointer was used.
CHECK_DEADLOCK FALSE
INVARIANTS
    TypeOK
    LoadedIsWhole
    OnlyImagesAndMappersLeak
    ReadsLoadedRom
