\* Strings of 48, 6 and 6 characters, two regions, words of two bytes.
SPECIFICATION CLSpec
CONSTANTS
  CmdSize = 48
  LoaderSize = 6
  ModSize = 6
  MaxRegions = 2
  Word = 65536
  Wide = 65536
  BootTags <- MCBootTags
  Typed <- MCTyped
  Residue <- MCResidue
INVARIANTS SaysTheTags OptionsHeard
PROPERTY CommandIsItsWords
CHECK_DEADLOCK FALSE
