SPECIFICATION Spec
CONSTANTS
    NULL = NULL
    Wild = Wild
    Addresses = {a1, a2, a3}
    FirstFd = 3
    NumFiles = 5
    NumDirs = 2
    Files <- TwoFiles
    Dirs <- OneDir
    Readable <- BufferOf
    Entries <- EntriesOf
\* Once an invalid pointer was followed nothing is known, and the model stops.
CHECK_DEADLOCK FALSE
SYMMETRY AddressesAlike
INVARIANTS
    TypeOK
    TablesHoldOpen
PROPERTIES
    ClosedDirIsLeftAlone
    
