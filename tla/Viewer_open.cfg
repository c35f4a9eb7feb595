SPECIFICATION Spec
CONSTANTS
  Cameras = 1
  MaxPerRead = 1
CHECK_DEADLOCK FALSE
INVARIANTS
  SpinnerPaintedAlive
