SPECIFICATION Spec
CONSTANTS
  None = None
  LocalSize = 3
  MaxPathId = 3
  Slots = 3
  MaxRetired = 6
  MaxLost = 1
  RetireLimit = 2
INVARIANT PrimaryHasCid
