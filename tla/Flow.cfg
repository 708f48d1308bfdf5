CONSTANTS
  MinMaxRanges = 1
  MaxRanges = 4
  BytesPerRange = 3
  Inf = 5
  MaxOffset = 4
  Codes = {c1, c2}
  NoCode = NoCode
  StreamWindow = 3
  ConnWindow = 3
  MaxConsumed = 5
  Streams = {s1, s2}
  MaxCopies = 1
SPECIFICATION AllSpec
INVARIANTS CreditKept EndToldOnce NothingStranded LimitsGetThrough LimitsSound
PROPERTY NeverTakenBack
SYMMETRY Alike
CHECK_DEADLOCK FALSE
