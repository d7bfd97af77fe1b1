\* Two keys; strokes with a note and, after calibrating, without.
CONSTANTS
    Keys = {1, 2}
    Note <- MCNote2
    ActiveHigh <- MCHighLow
    SMP = FALSE
    TransposeArgs = {}
    Client = 128
    DispatchFails = FALSE
    U32 = 65536
    StrokeTimes = {5}
    MinParam = 2
    MaxParam = 8
    LastInit = 5
    Curves = {}
SPECIFICATION Spec
INVARIANTS KeyFollowsStartButton SoundingIsPressed
PROPERTY IsInstrument
