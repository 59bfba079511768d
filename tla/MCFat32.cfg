SPECIFICATION Spec
CONSTANTS
    NULL = NULL
    Volumes <- SomeCards
    Paths <- SomePaths
    PerSector = 2
    Half = 8
    End = End
    LongNames = {"a long rom.nes"}
    MaxLost = 1
\* init_fatfs may return NULL, and where memory nobody filled is read the model stops.
CHECK_DEADLOCK FALSE
INVARIANTS
    TypeOK
    FileIsTheNamed
    FopenFinds
    OnlyKnownLeaks
PROPERTIES
    CallsReturn
