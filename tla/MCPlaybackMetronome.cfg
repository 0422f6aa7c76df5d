CONSTANTS
  Blocks = {1, 2}
  Period = 2
  Tempos = {2, 3}
  MaxLoads = 0
SPECIFICATION PlaybackSpec
INVARIANT FirstBeatImmediate
