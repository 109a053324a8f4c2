SPECIFICATION Spec
CONSTANTS
    o1 = o1
    o2 = o2
    v1 = v1
    v2 = v2
    here = here
    there = there
    Object = {o1, o2}
    Region <- MCRegion
    Value = {v1, v2}
    NULL = NULL
    Wild = Wild
    Garbage = Garbage
    Outside = Outside
    MaxDims = 1
    Dim = {0, 1, 4, 8}
    Word = 16
    DoubleSize = 4
    MaxFailures = 1
INVARIANTS
    PointersHome
    BlocksOwned
    ShapeTells
    CopyFaithful
