SPECIFICATION Spec
CONSTANTS
    p1 = p1
    p2 = p2
    NoSeg = NoSeg
    Process = {p1, p2}
    Seg = {s1, s2, s3}
    Cleanup <- MCLast
    Blocking = {}
    Limit <- Undisturbed
    MaxCount = 3
PROPERTY StaysValidUntilClosed
