SPECIFICATION FairSpec
CONSTANTS
  Programs <- SomePrograms
  Arguments <- TwoQubits
  Touches <- Qubitwise
  Alphabet <- SomeGates
  MaxLength = 4
INVARIANTS
  MeaningPreserved
  NothingLeftToCancel
PROPERTY FixpointReached
CHECK_DEADLOCK FALSE
