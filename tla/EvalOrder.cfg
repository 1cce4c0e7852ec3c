CONSTANTS
  MaxOps = 4
  MaxPriority = 3
  MaxGeneration = 1
SPECIFICATION FairSpec
INVARIANTS TypeOK RightAnswer OperandsKept
PROPERTIES Implements Terminates
CHECK_DEADLOCK FALSE
