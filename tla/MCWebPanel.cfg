CONSTANTS
  Bands = {low, high}
  Settings = {0, 1}
  Neutral = 0
  None = None
  MaxRequests = 2
  MaxEvents = 2
  Engines <- EnginesDef
SPECIFICATION FocusSpec
INVARIANT EditNotOverwritten
PROPERTIES
  EqReachesEngine
  PanelCatchesUp
  PillIsTrue
