\* The content of a Data against the length of the packet.
SPECIFICATION Spec
CONSTANTS
  Frames <- MCFrames
  MaxFrames = 1
  MaxCalls = 0
  WORD = 65536
INVARIANT ContentIsPacket
CHECK_DEADLOCK FALSE
