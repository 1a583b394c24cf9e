\* Every frame, with reports and resets of the statistics in between.
SPECIFICATION Spec
CONSTANTS
  Frames <- MCFrames
  MaxFrames = 3
  MaxCalls = 2
  WORD = 65536
INVARIANTS
  TypeOK
  Accounted
  SequenceUnique
  RuntsDropped
  HeadersCaptured
PROPERTY Drained
CHECK_DEADLOCK FALSE
