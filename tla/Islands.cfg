\* A device whose coupling graph is not connected.
SPECIFICATION Spec
CONSTANTS
  NQ = 4
  Names = {"u", "measure", "barrier"}
  MaxGates = 1
  Devices <- IslandDevices
  Programs <- LoneCNOTs
INVARIANT CNOTIsNotLost
