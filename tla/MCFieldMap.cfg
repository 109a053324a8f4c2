SPECIFICATION Spec
CONSTANTS
  Name = {a, b}
  Object = {o1, o2, o3, o4}
  Root = root
  NULL = NULL
  MaxLength = 2
  MaxFailures = 1
  MaxCalls = 5
SYMMETRY Symmetry
INVARIANTS
    TreeOwned
    CheckPasses
    CopyFaithful
PROPERTIES
    CopyKeepsOthers
