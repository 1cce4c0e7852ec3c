CONSTANTS
  Threads = {one, another}
  Facilities = {PARSER, INT_PARSER}
  EH_MAX_ERRORS = 4
  MaxSaves = 4
SPECIFICATION Spec
SYMMETRY Alike
INVARIANTS TypeOK WithinTable
PROPERTIES ClearsPrinted Implements
CHECK_DEADLOCK FALSE
