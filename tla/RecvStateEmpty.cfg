SPECIFICATION AnyFrameSpec
CONSTANTS
  MinMaxRanges = 2
  MaxRanges = 4
  BytesPerRange = 3
  Inf = 5
  MaxOffset = 4
  Codes = {c1, c2}
  NoCode = NoCode
  StreamWindow = 3
  ConnWindow = 3
  MaxConsumed = 5
INVARIANT
  CreditBalance
