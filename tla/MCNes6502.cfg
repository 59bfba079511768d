CONSTANTS
    NULL = NULL
    Carts <- Programs
    Banks <- BanksOf
    Prg <- Images
    Leftover <- Memory
    Loops <- CountdownAt
    MaxExecuted <- Instructions
    MaxSignals <- Signals
SPECIFICATION Spec
CHECK_DEADLOCK FALSE
INVARIANT TypeOK
PROPERTIES
    Follows6502
    NoFlagIsMadeUp
    PulledIsPushed
    CountdownIsExact
