SPECIFICATION Spec
CONSTANTS
  NQ = 2
  Programs <- SomePrograms
  MaxLength = 3
  MaxBody = 2
INVARIANTS
  MeaningPreserved
  ChannelMatches
  NothingOverlooked
PROPERTY DeletedStaysDeleted
CHECK_DEADLOCK FALSE
