\* The driver and a reader of its ring, with every kind of scan code.
CONSTANTS
  KBD_BUFFER_SIZE = 3
  KBD_MAX_ERRORS = 1
  PhysKeys = {"a", "F3", "up", "rctrl", "lshift", "rshift", "caps", "prtsc", "error"}
  Make <- MCMake
  Break <- MCBreak
  Typematic <- MCTypematic
  NoKey = NoKey
  Late = TRUE
  MaxWire = 4
SPECIFICATION DeskSpec
INVARIANTS
  DisabledByErrors
  ShiftFollowsKeys
PROPERTIES
  RefinesMailbox
CHECK_DEADLOCK FALSE
