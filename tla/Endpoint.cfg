SPECIFICATION AllSpec
CONSTANTS
  None = None
  LocalSize = 2
  MaxPathId = 4
  Slots = 2
  MaxRetired = 2
  MaxLost = 1
  RetireLimit = 2
INVARIANTS
  TypeOK NoFalseAccusation NothingForgotten PathsAndCids
  HandshakeSound NeverStuck KeysInStep
  AcksInOrder RangesExact TreeExact
