SPECIFICATION Spec
CONSTANTS
  Size = 4
  MaxTime = 14
INVARIANTS TypeOK NeverOverstates
PROPERTY WaitingLowersEstimate
\* The bound on the time is reached.
CHECK_DEADLOCK FALSE
