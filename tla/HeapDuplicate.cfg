\* Does the heap ever find that it gave a block twice?
SPECIFICATION MCSpec
CONSTANTS
  Callers = {c, d}
  Kinds = {"small", "big"}
  PageSize = 8
  NodesPerPage = 3
  Pages <- MCPages
  Addresses <- MCAddresses
  Unit <- MCUnit
  SlabsPerPage <- MCSlabsPerPage
INVARIANTS NoInternalError
CHECK_DEADLOCK FALSE
