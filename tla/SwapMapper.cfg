SPECIFICATION Spec
CONSTANTS
  NQ = 4
  Names = {"u", "measure", "barrier"}
  MaxGates = 3
  Devices <- ConnectedDevices
  Programs <- SomePrograms
INVARIANTS
  PermutationIsBijection
  RespectsCouplings
  OutputDoesFrame
PROPERTIES
  ImplementsProgram
