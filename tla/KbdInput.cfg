\* Lines of at most two characters, typed with every kind of editing key.
CONSTANTS
  KBD_BUFFER_SIZE = 2
  KBD_MAX_ERRORS = 0
  PhysKeys = {"a", "bs", "enter", "esc"}
  Make <- MCMake
  Break <- MCBreak
  Typematic <- MCTypematic
  NoKey = NoKey
  Late = FALSE
  MaxWire = 1
  BuffLen = 4
  NUL = NUL
  Exit <- MCExit
  Residue <- MCResidue
SPECIFICATION ISpec
INVARIANTS
  NeverToldEmpty
  StringReturned
PROPERTIES
  RefinesEditor
  EnterReturns
  KeysAreRead
