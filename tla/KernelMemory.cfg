\* initPMM on every small map, two clients that keep to pmm.h on eight of them.
CONSTANTS
  c1 = c1
  c2 = c2
  Clients = {c1, c2}
  NumPages = 8
  PageSize = 4
  Maps <- MCMaps
  VideoPages = {3}
  Pdes <- MCPdes
  LowPdes <- MCLowPdes
  BootMap <- MCBootMap
SPECIFICATION MCSpec
INVARIANTS
  AvailableAsMapped
  Exclusive
  MappedFramesKept
  NoAvailableLeak
  LeaksOnlyLastPages
  NullNeverFree
PROPERTIES
  FreeSucceeds
  RefinesOwnership
CHECK_DEADLOCK FALSE
