SPECIFICATION Spec
CONSTANTS
  BufSize = 7
  Byte <- MCByte
  Streams <- ScriptStreams
  TypeLine <- MCTypeLine
  LengthLine <- MCLengthLine
  MallocFails = FALSE
  RawLength = 0
  Scripts <- Cameras
INVARIANTS DeliversWhatWasSent BoundaryNotMissed
\* mjv_grabber_run returns.
CHECK_DEADLOCK FALSE
