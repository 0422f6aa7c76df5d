CONSTANTS
  amp = amp
  None = None
  Callers = {"server", "main"}
  Unlocked = {"main"}
  Values = {1, 2}
  Channels = {1, 2}
  Paths <- PathsDef
  Configs <- ConfigsDef
  Default <- DefaultDef
  Capacity = 4
  ChannelCounts = {1, 2}
  MaxBlock = 2
  MaxFrames = 6
  MaxMissing = 2
SPECIFICATION StreamSpec
INVARIANTS
  CallbackHasUnits
  AllOrNothing
  OneDevicePair
  ReadNeverStarved
  InOrder
  MonoLosesNothing
  EverySampleAccounted
PROPERTY StopKeepsSettings
