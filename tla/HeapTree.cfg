\* Three pages of two nodes; kinds do not steer the tree.
SPECIFICATION MCSpec
CONSTANTS
  Addresses <- MCAddresses
  Kinds = {k}
  Pages = {p, q, r}
  NodesPerPage = 2
  PAGE_SIZE = 2
  MEMORY = 16
  Space <- MCSpace
  MaxPages = 3
  Requests = {1, 2, 3}
  MaxHeapAddress = 12
  MaxHolders = 3
INVARIANTS SearchTree NodesOnce LiveTracked
PROPERTY ImplementsRegistry
SYMMETRY MCSymmetry
CHECK_DEADLOCK FALSE
