CONSTANTS
  Names = {"f", "g"}
  LabelNames = {"x", "y"}
  Nesting = 4
  Bodies <- MCBodies
  Solved <- MCSolved
  Held <- MCHeld
  LabelValues <- MCLabelValues
  MaxDepth = 8
  Careful = FALSE
  None = None
SPECIFICATION Spec
VIEW WithoutLast
INVARIANT LabelsKept
CHECK_DEADLOCK FALSE
