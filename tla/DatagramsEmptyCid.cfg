SPECIFICATION Spec
CONSTANTS
  max_udp_payload_size = 110
  tag_size = 16
  MaxDatagrams = 2
  MaxFrames = 4
  Setups <- MCEmptyCid
  FrameSpaces = {1}
  Leftovers = {0, 36, 37}
  AckSizes = {5, 40}
  DatagramSizes = {75}
INVARIANT AssertionsHold
CHECK_DEADLOCK FALSE
