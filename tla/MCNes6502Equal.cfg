CONSTANTS
    NULL = NULL
    Carts <- Programs
    Banks <- BanksOf
    Prg <- Images
    Leftover <- Memory
    Loops <- CountdownAt
    MaxExecuted <- Instructions
    MaxSignals <- Signals
SPECIFICATION Spec
CHECK_DEADLOCK FALSE
PROPERTY EqualIsNoticed
