SPECIFICATION Spec
CONSTANTS
    store = store
    list = list
    elem = elem
    t1 = t1
    t2 = t2
    h1 = h1
    h2 = h2
    h3 = h3
    h4 = h4
    NoField = NoField
    NoThread = NoThread
    NoHandle = NoHandle
    Field = {store, list, elem}
    Parent <- MCParent
    Thread = {t1, t2}
    Handle = {h1, h2, h3, h4}
    Owner <- MCOwner
    Target <- MCTarget
    MaxLost = 3
INVARIANT QuietMeansUnlocked
