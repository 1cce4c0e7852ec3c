CONSTANTS
  Threads = {t1, t2}
  Calls = {"tms_parse_expr", "tms_parse_int_expr", "tms_evaluate", "tms_int_evaluate",
    "tms_solve", "tms_solve_e", "tms_int_solve_e", "tms_int_solve_e_wmask",
    "tms_set_var", "tms_set_int_var", "tms_set_int_mask", "tms_remove_var",
    "tms_remove_ufunc", "tms_set_ufunction", "tms_set_int_ufunction", "tmsolve_reset"}
  Nested = {"args", "float32"}
  MaxNested = 1
  MaxCalls = 2
  None = None
SPECIFICATION FairSpec
INVARIANTS TypeOK HeldUntilReleased NoRace
PROPERTIES MaskOneTime CallsReturn
CHECK_DEADLOCK FALSE
