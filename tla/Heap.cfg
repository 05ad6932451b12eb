\* Two callers, two sizes of block, two pages left after initHeap.
SPECIFICATION MCSpec
CONSTANTS
  Callers = {c, d}
  Kinds = {"small", "big"}
  PageSize = 8
  NodesPerPage = 3
  Pages <- MCPages
  Addresses <- MCAddresses
  Unit <- MCUnit
  SlabsPerPage <- MCSlabsPerPage
INVARIANTS SlabsOK PagesOnce HeldKept
PROPERTIES ImplementsOwnership SSpec
SYMMETRY MCSymmetry
CHECK_DEADLOCK FALSE
