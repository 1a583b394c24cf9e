\* The counters after a report.
SPECIFICATION Spec
CONSTANTS
  Frames <- MCFrames
  MaxFrames = 1
  MaxCalls = 1
  WORD = 65536
INVARIANT CountersTrue
CHECK_DEADLOCK FALSE
