SPECIFICATION Spec
CONSTANTS
    p1 = p1
    p2 = p2
    NoSeg = NoSeg
    Process = {p1, p2}
    Seg = {s1, s2, s3}
    Cleanup <- MCCleanup
    Blocking = {p2}
    Limit <- CrashAndPaste
    MaxCount = 3
INVARIANTS
    ValidMeansLive
    MapsOnlyBuilt
    DestroyedOnce
    SharedWithoutReinit
    CountCoversUsers
    AllClosedUnlinks
SYMMETRY Symmetry
