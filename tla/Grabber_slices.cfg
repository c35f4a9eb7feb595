SPECIFICATION FairSpec
CONSTANTS
  BufSize = 7
  Byte <- MCByte
  Streams <- RawStreams
  TypeLine <- MCTypeLine
  LengthLine <- MCLengthLine
  MallocFails = TRUE
  RawLength = 2
  Scripts = {}
INVARIANTS TypeOK BufferHoldsLatestBytes OnlyReceivedBytesRead ImageAtAnchor
PROPERTIES DeliversSlices Termination
\* mjv_grabber_run returns.
CHECK_DEADLOCK FALSE
