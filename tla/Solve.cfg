CONSTANTS
  Names = {"f", "g"}
  LabelNames = {"x", "y"}
  Nesting = 4
  Bodies <- MCBodies
  Solved <- MCSolved
  Held <- MCHeld
  LabelValues <- MCLabelValues
  MaxDepth = 8
  Careful = TRUE
  None = None
SPECIFICATION Spec
VIEW WithoutLast
INVARIANTS TypeOK CallsRestore
PROPERTIES Answers ErrorsTell
CHECK_DEADLOCK FALSE
