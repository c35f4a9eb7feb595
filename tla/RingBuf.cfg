SPECIFICATION FramesSpec
CONSTANTS
  Size = 4
  MaxFrames = 25
  MaxFailures = 2
  Stamp <- MCStamp
INVARIANTS TypeOK OldestAndNewest FreedOnce NothingLeaked
           FramesTypeOK PaintsLivePixels StatusAddsUp BufferOutlivesWorker
PROPERTY KeepsWindow
\* The camera is destroyed in the end.
CHECK_DEADLOCK FALSE
