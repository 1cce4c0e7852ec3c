CONSTANTS
  Keys = {1, 2, 3, 4}
  Items <- MCItems
  HashValues = {0, 3, 7}
  Hashes <- MCHashes
  MinBuckets = 4
  LoadFactor = 75
  ShrinkFactor = 30
  None = None
SPECIFICATION Spec
INVARIANTS TypeOK WellFormed
PROPERTIES Implements OperationsEnd
