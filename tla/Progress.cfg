CONSTANTS
  MinMaxRanges = 2
  MaxRanges = 4
  BytesPerRange = 3
  MaxPn = 4
  Wrap = 16
  MaxAckBlocks = 1
  ReportSlots = 1
  MaxTolerance = 3
  DefaultTolerance = 2
  Tolerances = {1, 4}
  Thresholds = {0, 2}
  MaxSequence = 1
  MaxAcks = 1
  Inf = 2
  MaxWritten = 1
  Codes = {c1}
  NoCode = NoCode
  MaxFrames = 2
  StreamWindow = 1
  ConnWindow = 1
SPECIFICATION AllSpec
PROPERTIES AckSent EndIsSeen EndIsDelivered
VIEW View
