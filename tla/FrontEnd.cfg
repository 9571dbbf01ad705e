SPECIFICATION MCSpec
CONSTANTS
  Programs <- SomePrograms
  Overrides <- SomeOverrides
  MaxLength = 3
INVARIANTS
  MeaningPreserved
  AncillasKeptApart
  BarriersKept
  OutputIsClosed
CHECK_DEADLOCK FALSE
