CONSTANTS
  Capacity = 4
  DrainFrames = 2
  ChannelCounts = {1, 2}
  MaxBlock = 2
  MaxStarts = 2
  MaxCount = 4
SPECIFICATION FairSpec
INVARIANTS
  FrameAlwaysFits
  FileHasOneOwner
  FileIsFaithful
PROPERTY StopReturns
CHECK_DEADLOCK FALSE
