CONSTANTS
  INT64_MAX = 1023
  INT32_MAX = 31
  Largest = 127
  Operands <- MCOperands
  MaxArgs = 3
  Values <- MCValues
  Moduli <- MCModuli
  Numbers <- MCNumbers
SPECIFICATION FairSpec
INVARIANTS TypeOK AnswersCorrect
PROPERTIES Terminates
CHECK_DEADLOCK FALSE
