\* One key under failing dispatches, transposition and calibration.
CONSTANTS
    Keys = {1}
    Note <- MCNote1
    ActiveHigh <- MCHighLow
    SMP = FALSE
    TransposeArgs <- MCTransposeArgs
    Client = 128
    DispatchFails = TRUE
    U32 = 65536
    StrokeTimes = {5}
    MinParam = 2
    MaxParam = 8
    LastInit = 5
    Curves = {}
SPECIFICATION FairSpec
INVARIANTS TypeOK FlagMeansTimer
PROPERTIES KeySettles HangsOnlyByTransposing
