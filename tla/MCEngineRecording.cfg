CONSTANTS
  amp = amp
  None = None
  Callers = {"server", "main"}
  Unlocked = {"main"}
  Values = {1, 2}
  Channels = {1, 2}
  Paths <- PathsDef
  Configs <- ConfigsDef
  Default <- DefaultDef
SPECIFICATION Spec
INVARIANT RecordingTapsOutput
