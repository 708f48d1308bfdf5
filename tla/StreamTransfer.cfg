SPECIFICATION AllSpec
CONSTANTS
  MinMaxRanges = 1
  MaxRanges = 1
  BytesPerRange = 3
  Inf = 3
  MaxWritten = 2
  Codes = {c1, c2}
  NoCode = NoCode
  MaxFrames = 1
  StreamWindow = 2
  ConnWindow = 2
INVARIANTS
  NoFalseAccusation
  CompletionIsMutual
  CreditReturned
PROPERTY
  ProvidesService
VIEW WithoutHistory
SYMMETRY CodeSymmetry
