\* Frames allocated to the end of memory, one given back behind.
CONSTANTS
  c1 = c1
  Clients = {c1}
  NumPages = 8
  PageSize = 4
  Maps <- ShownMaps
  VideoPages = {3}
  Pdes <- MCPdes
  LowPdes <- MCLowPdes
  BootMap <- MCBootMap
SPECIFICATION KSpec
INVARIANT
  HangsOnlyWhenFull
CHECK_DEADLOCK FALSE
