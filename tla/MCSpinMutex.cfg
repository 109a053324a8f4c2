SPECIFICATION FairSpec
CONSTANTS
    t1 = t1
    t2 = t2
    t3 = t3
    h1 = h1
    h2 = h2
    h3 = h3
    h4 = h4
    NoHandle = NoHandle
    Thread = {t1, t2, t3}
    Handle = {h1, h2, h3, h4}
    Owner <- MCOwner
    Adaptive <- MCAdaptive
    Tid <- MCTid
    MaxLevel = 7
INVARIANTS
    Exclusion
    UnlockMatches
    LevelAccounts
PROPERTIES
    OwnershipThroughZero
    ImplementsRWLock
    CallsEnd
