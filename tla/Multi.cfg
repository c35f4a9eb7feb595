SPECIFICATION FairSpec
CONSTANTS
  Sources = 3
  Names <- MCNames
  MaxFrames = 2
INVARIANTS TypeOK FreedAfterEnd FilesApart FilenamesForged
PROPERTY InterruptEndsProgram
\* The program exits.
CHECK_DEADLOCK FALSE
