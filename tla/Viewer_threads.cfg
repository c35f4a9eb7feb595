SPECIFICATION Spec
CONSTANTS
  Cameras = 2
  MaxPerRead = 1
CHECK_DEADLOCK FALSE
INVARIANTS
  TypeOK
  SpinnerThreadHasObject
  SpinnerPaintedUnlessFailed
  WorkerGoneWhenDestroyed
