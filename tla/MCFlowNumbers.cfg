\* Words of three bits, a flow that goes once round and on.
SPECIFICATION Spec
CONSTANTS
  MaxInt = 3
  NUM_OF_GUEST = 2
  MaxPackets = 12
  MaxOnWay = 3
INVARIANTS
  TypeOK
  FailsOnlyBeyondInt
  NamesApart
  GuessesAreSuccessors
CHECK_DEADLOCK FALSE
