SPECIFICATION MCSpec
CONSTANTS
  Faults = {0, 2, 3, 5, 6, 7, 8, 9, 10, 11, 12, 13, 14, 16, 17, 18, 19, 20, 21}
  Lines = {0, 1}
  MaxFrames = 2
  TickLimit = 2
CHECK_DEADLOCK FALSE
INVARIANT LinesDoNotNest UnmaskedHasGate
PROPERTY ReturnsToInterrupted ReportsTheFault LinesServed
