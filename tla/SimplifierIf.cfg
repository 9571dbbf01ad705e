\* Gates under an if next to the same gates without.
SPECIFICATION Spec
CONSTANTS
  Programs <- MainOnly
  Arguments <- TwoQubits
  Touches <- Qubitwise
  Alphabet <- ConditionalGates
  MaxLength = 3
INVARIANT MeaningPreserved
CHECK_DEADLOCK FALSE
