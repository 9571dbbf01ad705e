SPECIFICATION Spec
CONSTANTS
  Names = {"a", "b", "c"}
  Scopes = {"main", "g"}
  Ids <- SomeIds
  Programs <- SomePrograms
  MaxLength = 4
INVARIANTS
  TermsSplittable
  OperatorInvertible
PROPERTY ImplementsProgram
CHECK_DEADLOCK FALSE
