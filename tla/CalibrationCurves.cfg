\* All four curves: the range promised for the velocity does not hold.
CONSTANTS
    U32 = 1073741824
    StrokeTimes <- MCRealTimes
    MinParam = 1000
    MaxParam = 4100
    LastInit = 3000
    Curves = {"LINEAR", "CONCAVE", "CONVEX", "SATURATED"}
SPECIFICATION CalSpec
INVARIANT VelocityInRange
