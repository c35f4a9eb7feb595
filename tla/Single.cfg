SPECIFICATION FairSpec
CONSTANTS
  NULL = NULL
  Bytes = {97, 250}
  MaxLen = 2
  MaxAddresses = 2
INVARIANTS DescriptorsTrackPipe NoDescriptorLeft NothingAllocated
           DescriptorTracked LinesWhole AuthDecodes
PROPERTY InterruptEndsProgram
\* The program exits.
CHECK_DEADLOCK FALSE
