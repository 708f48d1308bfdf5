SPECIFICATION Spec
CONSTANTS
  AppItems = {a1, a2}
  CryptoItems = {h1}
  Never = 1000
  MaxTime = 3
  MaxPn = 3
  MaxExtras = 2
  Rtts <- MCRtts
  Cwnds = {1, 2}
  MaxAckDelay = 0
  MinPto = 1
  NumSpeculativePtos = 1
  KeepPackets = 2
  PacketThreshold = 2
CHECK_DEADLOCK FALSE
INVARIANT AlarmsInFuture
