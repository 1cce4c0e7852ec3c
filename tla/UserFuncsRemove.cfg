CONSTANTS
  Threads = {t1}
  Names = {f, g, h}
  Variables = {f}
  MaxCalls = 1
  RemoveCalled = TRUE
  None = None
SPECIFICATION Spec
INVARIANTS SearchEnds
CHECK_DEADLOCK FALSE
