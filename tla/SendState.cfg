SPECIFICATION AllSpec
CONSTANTS
  Inf = 4
  MaxWritten = 3
  Codes = {c1, c2}
  NoCode = NoCode
  MaxFrames = 3
  Unset = Unset
INVARIANTS
  TypeOK
  NoByteForgotten
  NoMarkerForgotten
  AckedBelowPending
  MarkerNeverBlocked
  CompleteMeansDelivered
  FinalSizeNeverChanges
  BufferInStep
  FormatsAgree
  DatagramsSound
  ClosesInOrder
PROPERTY
  MarkerSuperseded
SYMMETRY CodeSymmetry
