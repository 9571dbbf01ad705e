\* A coupling of fidelity 0 (cost above Infinite), as a calibration reports
\* for a coupling that is out of order.
SPECIFICATION Spec
CONSTANTS
  NQ = 3
  Infinite = 5
  Costs = {1, 9}
  Digraphs <- SomeDigraphs
INVARIANT WalkStaysOnDevice
CHECK_DEADLOCK FALSE
