\* Every call may fail, and mappings may be wrong; an oops is the end.
CONSTANTS
    Mappings <- MCAllMappings
    ValidGpios = {0, 1, 2, 3, 4, 5, 6, 7}
    MayFail <- MCAllFail
SPECIFICATION Spec
INVARIANTS TypeOK UnloadedHoldsNothing HandlersHaveContext LoadedPinsDistinct UnloadedKeepsNoDevice
PROPERTY OnlyLateTimersFault
CHECK_DEADLOCK FALSE
