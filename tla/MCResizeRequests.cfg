SPECIFICATION FairSpec
CONSTANTS
  x11 = x11
  xdg = xdg
  Views = {x11, xdg}
  Xwayland = {x11}
  Requests <- MCRequests
  MaxCalls = 4
CHECK_DEADLOCK FALSE
INVARIANTS
  RequestHasWorker
  LastRequestWins
PROPERTIES
  RequestsAreServed
