SPECIFICATION Spec
CONSTANTS
  NQ = 5
  Methods = {"gray", "steiner"}
  Graphs <- SomeGraphs
  PhaseSets <- SomePhaseSets
  Operators <- SomeOperators
  SteinerTrees <- SomeTrees
INVARIANTS
  PhasesAtParity
  NoPhaseLost
  TargetsKept
  NeverThrows
  Synthesized
PROPERTIES
  CNOTsOnCouplings
  SynthesisEnds
CHECK_DEADLOCK FALSE
