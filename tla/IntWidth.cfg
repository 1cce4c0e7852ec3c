CONSTANTS
  Bits = 8
  Sizes = {1, 2, 4, 8}
  Magnitudes = {0, 1, 2, 3, 7, 8, 128, 255}
  None = None
SPECIFICATION Spec
INVARIANTS TypeOK TrapsAtLeast
PROPERTIES Implements OperationsRight
CHECK_DEADLOCK FALSE
