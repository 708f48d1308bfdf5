CONSTANTS
  AppItems = {a1, a2}
  CryptoItems = {h1}
  Never = 1000
  MaxTime = 3
  MaxPn = 4
  MaxExtras = 1
  Rtts <- DefaultRtts
  Cwnds = {1, 2}
  MaxAckDelay = 0
  MinPto = 1
  NumSpeculativePtos = 0
  KeepPackets = 2
  PacketThreshold = 2
SPECIFICATION AllSpec
INVARIANTS BooksBalance NoDataForgotten AlarmsAhead ControllersSound
PROPERTY LostOnlyBehindAck
CHECK_DEADLOCK FALSE
