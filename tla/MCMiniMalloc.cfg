SPECIFICATION Spec
CONSTANTS
    Arena = {7, 14}
    Bits = 12
    Request = {1, 2, 4, 7, 8}
INVARIANTS
    NodesTile
    Coalesced
    FreeListsSound
    FindsMemory
    ClassesMatch
PROPERTIES
    ImplementsHeap
