\* Linear curve; every minimum/maximum pair that strokes and calibrations reach.
CONSTANTS
    U32 = 1048576
    StrokeTimes <- MCStrokeTimes
    MinParam = 4
    MaxParam = 260
    LastInit = 133
    Curves = {"LINEAR"}
SPECIFICATION CalSpec
INVARIANTS VelocityInRange SlowerIsNotLouder LinearIsTheLine MaxStrokeIsSilent
