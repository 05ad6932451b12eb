\* All keys echoed while the handler prints.
CONSTANTS
  Rows = 3
  Cols = 3
  Word = 8
  MsgLen = 2
  MaxLine = 3
SPECIFICATION Spec
INVARIANTS
  CursorOnScreen
  RowOnScreen
