CONSTANTS
  Threads = {t1}
  Names = {f, g, h}
  Variables = {f}
  MaxCalls = 2
  RemoveCalled = FALSE
  None = None
SPECIFICATION Spec
INVARIANTS TypeOK NoCircularCall CallsDefined SearchEnds NoShadowing
PROPERTIES Implements
CHECK_DEADLOCK FALSE
