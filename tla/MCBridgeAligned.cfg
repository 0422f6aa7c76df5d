CONSTANTS
  Capacity = 4
  ChannelCounts = {2}
  MaxBlock = 2
  MaxFrames = 6
  MaxMissing = 2
SPECIFICATION BridgeSpec
INVARIANT FramesStayAligned
CHECK_DEADLOCK FALSE
