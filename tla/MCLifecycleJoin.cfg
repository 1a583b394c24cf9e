\* One address, one frame: main reaches the second join.
SPECIFICATION Spec
CONSTANTS
  NumIps = 1
  MaxFrames = 1
INVARIANT JoinsThread
CHECK_DEADLOCK FALSE
