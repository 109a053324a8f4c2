SPECIFICATION BSpec
CONSTANTS
    Store = Store
    List = List
    p = p
    q = q
    v = v
    b1 = b1
    b2 = b2
    b3 = b3
    None = None
    NoField = NoField
    NoThread = NoThread
    NoHandle = NoHandle
    NoBlock = NoBlock
    Field = {Store, List}
    Parent <- MCParent
    Thread = {p, q}
    Handle <- MCHandle
    Owner <- MCOwner
    Target <- MCTarget
    Value = {v}
    Block = {b1, b2, b3}
    MaxLength = 2
    MaxLost = 2
SYMMETRY Symmetry
INVARIANTS
    
    IterNeverThrows
    
PROPERTIES
    IterationStable
