CONSTANTS
  guitar = "guitar"
  stereo = "stereo"
  mono = "mono"
  left = "left"
  right = "right"
  single = "single"
  Unset = "unset"
  t1 = t1
  t2 = t2
  Threads <- ThreadsDef
  Sources <- SourcesDef
  Outputs <- OutputsDef
  Ports <- PortsDef
  Configs <- ConfigsDef
  Tones = {"army"}
  MaxProcs = 2
  MaxOps = 3
  MaxEvents = 1
SPECIFICATION Spec
INVARIANTS
  EndsInRoute
  ToneSurvivesRestart
SYMMETRY ThreadsSymmetry
CHECK_DEADLOCK FALSE
