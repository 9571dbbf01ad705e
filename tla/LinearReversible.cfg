SPECIFICATION Spec
CONSTANTS
  NQ = 4
  Operators <- SomeOperators
  Graphs <- SomeGraphs
  Methods = {"jordan", "elim", "steiner"}
  ShortestPaths <- EveryPath
  SteinerTrees <- EveryTree
INVARIANTS
  ColumnsDone
  Synthesized
  OnCouplings
PROPERTY SynthesisEnds
CHECK_DEADLOCK FALSE
