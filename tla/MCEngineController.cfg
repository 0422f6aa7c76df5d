CONSTANTS
  w1 = w1
  App = App
  w2 = w2
  Workers <- WorkersDef
  MaxCalls = 3
SPECIFICATION Spec
INVARIANTS
  ConnectionsInStep
  OwnResponse
  ShutdownLeavesNoEngine
SYMMETRY WorkersSymmetry
CHECK_DEADLOCK FALSE
