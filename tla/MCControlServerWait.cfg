CONSTANTS
  c1 = c1
  c2 = c2
  None = None
  Clients <- ClientsDef
  MaxRequests = 1
SPECIFICATION FairServerSpec
PROPERTY QuitUnblocksWait
CHECK_DEADLOCK FALSE
