SPECIFICATION FairSpec
CONSTANTS
    p1 = p1
    p2 = p2
    NoSeg = NoSeg
    Process = {p1, p2}
    Seg = {s1, s2, s3}
    Cleanup <- MCCleanup
    Blocking = {p2}
    Limit <- Descriptor
    MaxCount = 3
PROPERTIES
    RevalidateEnds
    InvalidatedIsUnlinked
