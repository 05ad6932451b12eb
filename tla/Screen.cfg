\* What is on a screen of three lines of two characters.
CONSTANTS
  Rows = 3
  Cols = 2
  Word = 8
  Glyphs = {"a", "b", " "}
  Blank = " "
  MaxLine = 4
SPECIFICATION Spec
PROPERTY
  RefinesTeletype
