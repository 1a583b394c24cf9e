\* Two addresses, three frames, every failure.
SPECIFICATION Spec
CONSTANTS
  NumIps = 2
  MaxFrames = 3
INVARIANTS
  TypeOK
  BoundBeforeUse
  HelperOutlivesThread
  ResourcesReleased
PROPERTIES
  Ends
  PostedRun
CHECK_DEADLOCK FALSE
