SPECIFICATION FairSpec
CONSTANTS
  Cameras = 1
  MaxPerRead = 1
CHECK_DEADLOCK FALSE
PROPERTIES
  CloseEndsProgram
