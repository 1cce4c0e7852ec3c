CONSTANTS
  Digits = {"0", "1"}
  Letters = {"x", "e", "i", "f", "s"}
  MaxPieces = 4
  BufferSize = 4
  Inputs <- MCInputs
  Simple <- MCSimple
  Called <- MCCalled
  Variables <- MCVariables
  None = None
SPECIFICATION Spec
INVARIANTS TypeOK TreeRight LinksRight CopyStands TextRead
CHECK_DEADLOCK FALSE
