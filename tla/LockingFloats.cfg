CONSTANTS
  Threads = {t1, t2}
  Calls = {"tms_solve_e", "tms_int_solve_e"}
  Nested = {"float32", "float"}
  MaxNested = 1
  MaxCalls = 1
  None = None
SPECIFICATION FairSpec
INVARIANTS NoDeadlock
CHECK_DEADLOCK FALSE
