SPECIFICATION Spec
CONSTANTS
    FirstPage = 2
    NumPages = 5
    PageSize = 4
    Word = 32
    SysMem = 3
    MaxRequest = 6
    Junk <- CallerData
INVARIANTS
    TypeOK
    OneHolder
    ListIsOneChunk
    MemUsedCountsHeld
PROPERTIES
    LostStaysLost
    ServableCallsReturn
    ImplementsContract
