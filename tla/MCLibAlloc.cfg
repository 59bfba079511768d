SPECIFICATION Spec
CONSTANTS
    FirstPage = 1
    NumPages = 5
    l_pageSize = 8
    l_pageCount = 2
    TagSize = 1
    MINEXP = 1
    MAXEXP = 5
    MAXCOMPLETE = 1
    Sizes = {0, 4, 8, 17}
INVARIANTS
    TypeOK
    Tiling
    FreeListsHoldFreeTags
    Coalesced
    CompletePagesCounted
    UsedTagsAreHeld
PROPERTIES
    KeepsContracts
    CallsReturn
