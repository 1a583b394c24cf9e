\* What deal is given against what decode accepts.
SPECIFICATION Spec
CONSTANTS
  Frames <- MCFrames
  MaxFrames = 1
  MaxCalls = 0
  WORD = 65536
INVARIANT DealtDecoded
CHECK_DEADLOCK FALSE
